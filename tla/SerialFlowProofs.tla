--------------------------- MODULE SerialFlowProofs ---------------------------
(***************************************************************************)
(* What holds of flow control for any limits, flow control settings and    *)
(* requests: the count of the paths that lower RTS is exact, none is left  *)
(* after a close, RTS covers what a toggling transmitter sends, a receiver *)
(* that handshakes with RTS has room for all that comes, and a close       *)
(* leaves nobody stopped by its Xoff.                                      *)
(***************************************************************************)
EXTENDS SerialFlow, TLAPS

-------------------------------------------------------------------------------
(* What the routines of the driver keep true of a port. *)

Covered(p) ==
    Toggles(p) /\ (~HardwareEmpty(p) \/ "BREAK" \in p.TXHolding) => "RTS" \in p.lines
Exact(p) == p.count = Paths(p)

Keeps(p, q) ==
    /\ q \in Port
    /\ Exact(p) => Exact(q)
    /\ Covered(p) => Covered(q)

LEMMA KeepsTransitive ==
    ASSUME NEW p, NEW q, NEW r, Keeps(p, q), Keeps(q, r) PROVE Keeps(p, r)
  BY DEF Keeps

\* What calls for RTS is not added to, nor what a sleep has saved of it changed.
AtRest(p, q) ==
    /\ q.hf = p.hf /\ q.thr = p.thr /\ q.tsr = p.tsr /\ q.saved = p.saved
    /\ "BREAK" \in q.TXHolding => "BREAK" \in p.TXHolding

\* Neither what the count counts nor what RTS must cover is touched.
Steady(p, q) ==
    /\ q \in Port
    /\ q.count = p.count /\ q.dpc = p.dpc /\ q.timer = p.timer /\ q.fired = p.fired
    /\ AtRest(p, q) /\ q.lines = p.lines

LEMMA SteadyKeeps == ASSUME NEW p, NEW q, Steady(p, q) PROVE Keeps(p, q)
  BY DEF Steady, AtRest, Keeps, Exact, Paths, Covered, Toggles, HardwareEmpty

LEMMA SteadyTransitive ==
    ASSUME NEW p, NEW q, NEW r, Steady(p, q), Steady(q, r) PROVE Steady(p, r)
  BY DEF Steady, AtRest

LEMMA LineStatusSteady == ASSUME NEW p \in Port PROVE Steady(p, LineStatus(p))
  BY DEF Port, LineStatus, Steady, AtRest

LEMMA PokeSteady == ASSUME NEW p \in Port PROVE Steady(p, Poke(p))
  BY DEF Port, Poke, Steady, AtRest

LEMMA ResumeSteady == ASSUME NEW p \in Port PROVE Steady(p, Resume(p))
  BY PokeSteady DEF Resume, Steady, AtRest

LEMMA ProdSteady ==
    ASSUME NEW p \in Port, NEW char \in {"XON", "XOFF"}
    PROVE Steady(p, SerialProdXonXoff(p, char))
  <1> DEFINE q == IF p.send = "none" /\ p.HoldingEmpty THEN Poke(p) ELSE p
  <1>1. q \in Port /\ Steady(p, q)
    BY PokeSteady DEF Steady, AtRest
  <1>2. SerialProdXonXoff(p, char) = [q EXCEPT !.send = char]
    BY DEF SerialProdXonXoff
  <1> HIDE DEF q
  <1>3. Steady(q, [q EXCEPT !.send = char])
    BY <1>1 DEF Port, Steady, AtRest
  <1> QED
    BY <1>1, <1>2, <1>3, SteadyTransitive

LEMMA RaiseKeeps ==
    ASSUME NEW p \in Port, NEW line \in {"RTS", "DTR"} PROVE Keeps(p, Raise(p, line))
  BY DEF Port, Raise, Keeps, Exact, Paths, Covered, Toggles, HardwareEmpty

LEMMA InsertDpcKeeps == ASSUME NEW p \in Port PROVE Keeps(p, InsertDpc(p))
  <1> DEFINE q == [p EXCEPT !.dpc = TRUE, !.count = p.count + 1]
  <1>1. q \in Port
    <2>1. p.count + 1 \in Int
      BY DEF Port
    <2> QED
      BY <2>1 DEF Port
  <1>2. InsertDpc(p) \in Port
    BY <1>1 DEF InsertDpc
  <1>3. Exact(p) => Exact(InsertDpc(p))
    BY DEF Port, InsertDpc, Exact, Paths
  <1>4. Covered(p) => Covered(InsertDpc(p))
    BY DEF Port, InsertDpc, Covered, Toggles, HardwareEmpty
  <1> QED
    BY <1>2, <1>3, <1>4 DEF Keeps

\* Lowering RTS keeps it covered only if the hardware is found empty and no break is on.
LEMMA LoweredRTSKeeps ==
    ASSUME NEW p \in Port, "BREAK" \notin p.TXHolding PROVE Keeps(p, LoweredRTS(p))
  <1> DEFINE q == LineStatus(p)
  <1>1. q \in Port /\ Keeps(p, q)
    BY LineStatusSteady, SteadyKeeps DEF Steady
  <1>2. q.thr = p.thr /\ q.tsr = p.tsr /\ "BREAK" \notin q.TXHolding
    BY LineStatusSteady DEF Steady, AtRest
  <1> HIDE DEF q
  <1>3. CASE HardwareEmpty(p)
    <2>1. HardwareEmpty(q)
      BY <1>2, <1>3 DEF HardwareEmpty
    <2>2. Keeps(q, Lower(q, "RTS"))
      BY <1>1, <1>2, <2>1
         DEF Port, Lower, Keeps, Exact, Paths, Covered, Toggles, HardwareEmpty
    <2> QED
      BY <1>1, <1>3, <2>2, KeepsTransitive DEF LoweredRTS, q
  <1>4. CASE ~HardwareEmpty(p)
    BY <1>1, <1>4, InsertDpcKeeps, KeepsTransitive DEF LoweredRTS, q
  <1> QED
    BY <1>3, <1>4

\* A path has ended, whatever it found.
LEMMA PerhapsKeeps ==
    ASSUME NEW p \in Port
    PROVE LET q == SerialPerhapsLowerRTS(p)
          IN /\ q \in Port
             /\ p.count = Paths(p) + 1 => Exact(q)
             /\ Covered(p) => Covered(q)
  <1> DEFINE t == IF Toggles(p) /\ ~KeepsRTS(p) THEN LoweredRTS(p) ELSE p
  <1>1. t \in Port /\ (Covered(p) => Covered(t))
    BY LoweredRTSKeeps DEF Keeps, KeepsRTS
  <1>2. p.count = Paths(p) + 1 => t.count = Paths(t) + 1
    <2> SUFFICES ASSUME p.count = Paths(p) + 1 PROVE t.count = Paths(t) + 1
      OBVIOUS
    <2>1. CASE HardwareEmpty(p)
      BY <2>1 DEF Port, LoweredRTS, LineStatus, Lower, Paths
    <2>2. CASE ~HardwareEmpty(p)
      <3> DEFINE q == LineStatus(p)
      <3>1. q \in Port /\ q.count = Paths(q) + 1
        BY LineStatusSteady DEF Steady, Paths
      <3>2. LoweredRTS(p) = InsertDpc(q)
        BY <2>2 DEF LoweredRTS
      <3> HIDE DEF q
      <3>3. InsertDpc(q).count = Paths(InsertDpc(q)) + 1
        BY <3>1 DEF Port, InsertDpc, Paths
      <3> QED
        BY <3>2, <3>3
    <2> QED
      BY <2>1, <2>2
  <1>3. SerialPerhapsLowerRTS(p) = [t EXCEPT !.count = t.count - 1]
    BY DEF SerialPerhapsLowerRTS
  <1> HIDE DEF t
  <1>4. t.count - 1 \in Int
    BY <1>1 DEF Port
  <1>5. SerialPerhapsLowerRTS(p) \in Port
    BY <1>1, <1>3, <1>4 DEF Port
  <1>6. p.count = Paths(p) + 1 => Exact(SerialPerhapsLowerRTS(p))
    BY <1>1, <1>2, <1>3 DEF Port, Exact, Paths
  <1>7. Covered(t) => Covered(SerialPerhapsLowerRTS(p))
    BY <1>1, <1>3 DEF Port, Covered, Toggles, HardwareEmpty
  <1> QED
    BY <1>1, <1>5, <1>6, <1>7

LEMMA TryKeeps == ASSUME NEW p \in Port PROVE Keeps(p, TryToLowerRTS(p))
  <1> DEFINE q == [p EXCEPT !.count = p.count + 1]
  <1>1. q \in Port
    <2>1. p.count + 1 \in Int
      BY DEF Port
    <2> QED
      BY <2>1 DEF Port
  <1>2. Exact(p) => q.count = Paths(q) + 1
    BY DEF Port, Exact, Paths
  <1>3. Covered(p) => Covered(q)
    BY DEF Port, Covered, Toggles, HardwareEmpty
  <1> HIDE DEF q
  <1>4. TryToLowerRTS(p) = SerialPerhapsLowerRTS(q)
    BY DEF TryToLowerRTS, q
  <1> QED
    BY <1>1, <1>2, <1>3, <1>4, PerhapsKeeps DEF Keeps

\* These take no part in what the driver has to do.
SameWork(p, q) == q.CurrentWrite = p.CurrentWrite /\ q.immediate = p.immediate

LEMMA PerhapsSameWork ==
    ASSUME NEW p \in Port PROVE SameWork(p, SerialPerhapsLowerRTS(p))
  BY DEF Port, SameWork, SerialPerhapsLowerRTS, LoweredRTS, Lower, LineStatus, InsertDpc

LEMMA PerhapsAtRest == ASSUME NEW p \in Port PROVE AtRest(p, SerialPerhapsLowerRTS(p))
  BY DEF Port, AtRest, SerialPerhapsLowerRTS, LoweredRTS, Lower, LineStatus, InsertDpc

LEMMA TryAtRest == ASSUME NEW p \in Port PROVE AtRest(p, TryToLowerRTS(p))
  <1> DEFINE q == [p EXCEPT !.count = p.count + 1]
  <1>1. q \in Port
    <2>1. p.count + 1 \in Int
      BY DEF Port
    <2> QED
      BY <2>1 DEF Port
  <1>2. AtRest(p, q)
    BY DEF Port, AtRest
  <1> HIDE DEF q
  <1>3. TryToLowerRTS(p) = SerialPerhapsLowerRTS(q)
    BY DEF TryToLowerRTS, q
  <1> QED
    BY <1>1, <1>2, <1>3, PerhapsAtRest DEF AtRest

-------------------------------------------------------------------------------
(* The interrupt routine *)

LEMMA ModemUpdateKeeps ==
    ASSUME NEW p \in Port, NEW inputs \in SUBSET OutLines, NEW DoingTX \in BOOLEAN
    PROVE Keeps(p, SerialHandleModemUpdate(p, inputs, DoingTX))
  <1> DEFINE held == (p.TXHolding \ OutLines) \cup (p.hf.out \ inputs)
             read == [p EXCEPT
                 !.msi = FALSE,
                 !.RXHolding = IF p.hf.sensitive /\ "DSR" \notin inputs
                                 THEN @ \cup {"DSR"} ELSE @ \ {"DSR"},
                 !.TXHolding = held]
             toggled == IF p.TXHolding = {} /\ held # {} /\ Toggles(p)
                          THEN InsertDpc(read) ELSE read
  <1>1. held \in SUBSET (OutLines \cup {"XOFF", "BREAK"})
    BY DEF Port, HandFlow
  <1>2. "BREAK" \in held => "BREAK" \in p.TXHolding
    BY DEF Port, HandFlow, OutLines
  <1>3. read \in Port /\ Steady(p, read)
    <2> HIDE DEF held
    <2>1. read \in Port
      BY <1>1 DEF Port, Holds
    <2> QED
      BY <1>2, <2>1 DEF Port, Steady, AtRest
  <1> HIDE DEF read, held
  <1>4. Keeps(p, toggled) /\ toggled \in Port
    BY <1>3, SteadyKeeps, InsertDpcKeeps, KeepsTransitive DEF Keeps
  <1> HIDE DEF toggled
  <1>5. Keeps(toggled, Resume(toggled))
    BY <1>4, ResumeSteady, SteadyKeeps
  <1>6. SerialHandleModemUpdate(p, inputs, DoingTX)
          = IF ~DoingTX /\ p.TXHolding # {} THEN Resume(toggled) ELSE toggled
    BY DEF SerialHandleModemUpdate, toggled, read, held
  <1> QED
    BY <1>4, <1>5, <1>6, KeepsTransitive

LEMMA IntoTypeaheadKeeps ==
    ASSUME NEW p \in Port PROVE Keeps(p, IntoTypeahead(p))
  <1> DEFINE new == IF Threshold(p) THEN HoldsOff(p.hf) \ p.RXHolding ELSE {}
             held == [p EXCEPT !.RXHolding = @ \cup new, !.lines = @ \ new]
             asked == IF "XOFF" \in new THEN SerialProdXonXoff(held, "XOFF") ELSE held
  <1>1. new \subseteq Holds /\ ("RTS" \in new => ~Toggles(p))
    BY DEF HoldsOff, Holds, Toggles
  <1> HIDE DEF new
  <1>2. held \in Port
    BY <1>1 DEF Port
  <1>3. Keeps(p, held)
    BY <1>1, <1>2 DEF Port, Keeps, Exact, Paths, Covered, Toggles, HardwareEmpty
  <1> HIDE DEF held
  <1>4. asked \in Port /\ Keeps(p, asked)
    BY <1>2, <1>3, ProdSteady, SteadyKeeps, KeepsTransitive DEF Keeps
  <1> HIDE DEF asked
  <1>5. Steady(asked, [asked EXCEPT !.Chars = asked.Chars + 1])
    <2>1. asked.Chars + 1 \in Nat
      BY <1>4 DEF Port
    <2> QED
      BY <1>4, <2>1 DEF Port, Steady, AtRest
  <1>6. IntoTypeahead(p) = IF p.Chars < BufferSize
                             THEN [asked EXCEPT !.Chars = asked.Chars + 1] ELSE asked
    BY DEF IntoTypeahead, asked, held, new
  <1> QED
    BY <1>4, <1>5, <1>6, SteadyKeeps, KeepsTransitive

LEMMA PutCharKeeps ==
    ASSUME NEW p \in Port, NEW inputs \in SUBSET OutLines
    PROVE Keeps(p, SerialPutChar(p, inputs))
  <1> DEFINE seen == IF p.hf.sensitive THEN SerialHandleModemUpdate(p, inputs, FALSE) ELSE p
  <1>1. Keeps(p, p)
    BY DEF Keeps
  <1>2. seen \in Port /\ Keeps(p, seen)
    BY <1>1, ModemUpdateKeeps DEF Keeps
  <1> HIDE DEF seen
  <1>3. Steady(seen, [seen EXCEPT !.userBuffer = FALSE])
    BY <1>2 DEF Port, Steady, AtRest
  <1>4. Keeps(seen, IntoTypeahead(seen))
    BY <1>2, IntoTypeaheadKeeps
  <1>5. \/ SerialPutChar(p, inputs) = seen
        \/ SerialPutChar(p, inputs) = [seen EXCEPT !.userBuffer = FALSE]
        \/ SerialPutChar(p, inputs) = IntoTypeahead(seen)
    BY DEF SerialPutChar, seen
  <1>6. Keeps(p, [seen EXCEPT !.userBuffer = FALSE])
    BY <1>2, <1>3, SteadyKeeps, KeepsTransitive
  <1>7. Keeps(p, IntoTypeahead(seen))
    BY <1>2, <1>4, KeepsTransitive
  <1> QED
    BY <1>2, <1>5, <1>6, <1>7

LEMMA ReceivedKeeps ==
    ASSUME NEW p \in Port, NEW inputs \in SUBSET OutLines, p.rbr # "none"
    PROVE Keeps(p, Received(p, inputs))
  <1> DEFINE taken == [p EXCEPT !.rbr = "none",
                                !.told = IF p.rbr = "data" THEN @ ELSE p.rbr]
             held == [taken EXCEPT !.TXHolding = @ \cup {"XOFF"}]
             let == [taken EXCEPT !.TXHolding = @ \ {"XOFF"}]
  <1>1. taken \in Port /\ Steady(p, taken)
    BY DEF Port, Steady, AtRest
  <1>2. taken.hf = p.hf
    BY <1>1 DEF Steady
  <1>3. Received(p, inputs) =
          IF p.rbr = "data" \/ ~p.hf.autoTransmit THEN SerialPutChar(taken, inputs)
          ELSE IF p.rbr = "XOFF"
            THEN IF Toggles(p) THEN InsertDpc(held) ELSE held
          ELSE let
    BY DEF Received
  <1> HIDE DEF taken
  <1>4. held \in Port /\ Steady(taken, held) /\ let \in Port /\ Steady(taken, let)
    BY <1>1 DEF Port, Steady, AtRest
  <1> HIDE DEF held, let
  <1>5. Keeps(taken, SerialPutChar(taken, inputs)) /\ Keeps(held, InsertDpc(held))
    BY <1>1, <1>4, PutCharKeeps, InsertDpcKeeps
  <1> QED
    BY <1>1, <1>3, <1>4, <1>5, SteadyKeeps, KeepsTransitive

LEMMA SendKeeps ==
    ASSUME NEW p \in Port, NEW char \in {"data", "XON", "XOFF"}
    PROVE Keeps(p, Send(p, char)) /\ Send(p, char) \in Port
  <1> DEFINE sent == [p EXCEPT !.thr = char, !.HoldingEmpty = FALSE, !.thri = FALSE]
             raised == Raise(sent, "RTS")
  <1>1. sent \in Port /\ (Exact(p) => Exact(sent)) /\ (Toggles(sent) <=> Toggles(p))
    <2>1. sent \in Port
      BY DEF Port
    <2>2. sent.hf = p.hf /\ sent.count = p.count /\ sent.dpc = p.dpc /\ sent.timer = p.timer
          /\ sent.fired = p.fired
      BY DEF Port
    <2> QED
      BY <2>1, <2>2 DEF Exact, Paths, Toggles
  <1>2. Send(p, char) = IF Toggles(p) THEN InsertDpc(raised) ELSE sent
    BY DEF Send
  <1> HIDE DEF sent
  <1>3. raised \in Port /\ (Exact(sent) => Exact(raised)) /\ Covered(raised)
    BY <1>1 DEF Port, Raise, Exact, Paths, Covered, Toggles
  <1>4. CASE Toggles(p)
    <2>1. Keeps(p, raised)
      BY <1>1, <1>3 DEF Keeps
    <2> HIDE DEF raised
    <2>2. Keeps(raised, InsertDpc(raised))
      BY <1>3, InsertDpcKeeps
    <2> QED
      BY <1>2, <1>4, <2>1, <2>2, KeepsTransitive DEF Keeps
  <1>5. CASE ~Toggles(p)
    BY <1>1, <1>2, <1>5 DEF Keeps, Covered
  <1> QED
    BY <1>4, <1>5

LEMMA SentXoffKeeps == ASSUME NEW p \in Port PROVE Keeps(p, SentXoff(p))
  <1> DEFINE s == Send(p, "XOFF")
             sent == [s EXCEPT !.send = "none"]
             held == [sent EXCEPT !.TXHolding = {"XOFF"}]
  <1>1. SentXoff(p) = IF p.hf.xoffContinue THEN sent
                      ELSE IF Toggles(p) THEN InsertDpc(held) ELSE held
    BY DEF SentXoff
  <1>2. s \in Port /\ Keeps(p, s)
    BY SendKeeps
  <1> HIDE DEF s
  <1>3. sent \in Port /\ Steady(s, sent)
    BY <1>2 DEF Port, Steady, AtRest
  <1> HIDE DEF sent
  <1>4. held \in Port /\ Steady(sent, held)
    BY <1>3 DEF Port, Steady, AtRest
  <1> HIDE DEF held
  <1>5. Keeps(p, sent)
    BY <1>2, <1>3, SteadyKeeps, KeepsTransitive
  <1>6. Keeps(p, held)
    BY <1>4, <1>5, SteadyKeeps, KeepsTransitive
  <1>7. Keeps(p, InsertDpc(held))
    BY <1>4, <1>6, InsertDpcKeeps, KeepsTransitive
  <1> QED
    BY <1>1, <1>5, <1>6, <1>7

LEMMA SendNextKeeps == ASSUME NEW p \in Port PROVE Keeps(p, SendNext(p))
  <1> DEFINE x == Send(p, "XON")
             d == Send(p, "data")
             xon == [x EXCEPT !.send = "none", !.TXHolding = {}, !.RXHolding = @ \ {"XOFF"}]
             sent == [d EXCEPT !.immediate = "sent"]
             written == [d EXCEPT !.WriteLength = d.WriteLength - 1]
  <1>1. x \in Port /\ Keeps(p, x) /\ d \in Port /\ Keeps(p, d)
    BY SendKeeps
  <1>2. d.WriteLength = p.WriteLength
    BY DEF Send, Port, Raise, InsertDpc
  <1> HIDE DEF x, d
  <1>3. Keeps(p, xon)
    <2>1. Steady(x, xon)
      BY <1>1 DEF Port, Steady, AtRest
    <2> QED
      BY <1>1, <2>1, SteadyKeeps, KeepsTransitive
  <1>4. Keeps(p, sent)
    <2>1. Steady(d, sent)
      BY <1>1 DEF Port, Steady, AtRest
    <2> QED
      BY <1>1, <2>1, SteadyKeeps, KeepsTransitive
  <1>5. p.WriteLength > 0 => Keeps(p, written)
    <2> SUFFICES ASSUME p.WriteLength > 0 PROVE Keeps(p, written)
      OBVIOUS
    <2>1. d.WriteLength - 1 \in Nat
      BY <1>1, <1>2 DEF Port
    <2>2. Steady(d, written)
      BY <1>1, <2>1 DEF Port, Steady, AtRest
    <2> QED
      BY <1>1, <2>2, SteadyKeeps, KeepsTransitive
  <1>6. Keeps(p, SentXoff(p)) /\ Keeps(p, p)
    BY SentXoffKeeps DEF Keeps
  <1>7. SendNext(p) =
          IF p.send = "XON" /\ p.TXHolding \subseteq {"XOFF"} THEN xon
          ELSE IF p.send = "XOFF" /\ p.TXHolding = {} THEN SentXoff(p)
          ELSE IF TransmitImmediate(p) /\ p.TXHolding \subseteq {"XOFF"} THEN sent
          ELSE IF p.TXHolding = {} /\ p.WriteLength > 0 THEN written
          ELSE p
    BY DEF SendNext, x, d
  <1> QED
    BY <1>3, <1>4, <1>5, <1>6, <1>7

LEMMA ReadyKeeps ==
    ASSUME NEW p \in Port, NEW inputs \in SUBSET OutLines
    PROVE Keeps(p, ReadyToSend(p, inputs)) /\ ReadyToSend(p, inputs) \in Port
  <1> DEFINE empty == [p EXCEPT !.thri = FALSE, !.HoldingEmpty = TRUE]
  <1>1. empty \in Port /\ Steady(p, empty)
    BY DEF Port, Steady, AtRest
  <1>2. ReadyToSend(p, inputs) = empty
          \/ ReadyToSend(p, inputs) = SerialHandleModemUpdate(empty, inputs, TRUE)
    BY DEF ReadyToSend
  <1> HIDE DEF empty
  <1>3. Keeps(empty, SerialHandleModemUpdate(empty, inputs, TRUE))
    BY <1>1, ModemUpdateKeeps
  <1>4. Keeps(p, empty)
    BY <1>1, SteadyKeeps
  <1>5. Keeps(p, SerialHandleModemUpdate(empty, inputs, TRUE))
    BY <1>3, <1>4, KeepsTransitive
  <1> QED
    BY <1>2, <1>4, <1>5 DEF Keeps

LEMMA TakenBackSteady ==
    ASSUME NEW p \in Port PROVE Steady(p, TakenBack(p)) /\ SameWork(p, TakenBack(p))
  <1> DEFINE b == IF p.thri THEN TRUE ELSE p.HoldingEmpty
             q == [p EXCEPT !.rbr = "none", !.thri = FALSE, !.msi = FALSE, !.HoldingEmpty = b]
  <1>1. b \in BOOLEAN /\ TakenBack(p) = q
    BY DEF TakenBack, Port
  <1> HIDE DEF b
  <1>2. Steady(p, q) /\ SameWork(p, q)
    BY <1>1 DEF Port, Steady, AtRest, SameWork
  <1> QED
    BY <1>1, <1>2

-------------------------------------------------------------------------------
(* Requests, DPCs and the timer *)

LEMMA ReducedKeeps ==
    ASSUME NEW p \in Port PROVE Keeps(p, SerialHandleReducedIntBuffer(p))
  <1> DEFINE let == p.RXHolding \cap {"DTR", "RTS"}
             released == [p EXCEPT !.RXHolding = @ \ let, !.lines = @ \cup let]
  <1>1. let \subseteq {"DTR", "RTS"}
    OBVIOUS
  <1> HIDE DEF let
  <1>2. released \in Port
    BY <1>1 DEF Port
  <1>3. Keeps(p, released)
    BY <1>1, <1>2 DEF Port, Keeps, Exact, Paths, Covered, Toggles, HardwareEmpty
  <1> HIDE DEF released
  <1>4. Keeps(p, SerialProdXonXoff(released, "XON"))
    BY <1>2, <1>3, ProdSteady, SteadyKeeps, KeepsTransitive
  <1>5. SerialHandleReducedIntBuffer(p) =
          IF ~Reduced(p) THEN p
          ELSE IF "XOFF" \in p.RXHolding THEN SerialProdXonXoff(released, "XON") ELSE released
    BY DEF SerialHandleReducedIntBuffer, released, let
  <1>6. Keeps(p, p)
    BY DEF Keeps
  <1> QED
    BY <1>3, <1>4, <1>5, <1>6

LEMMA StartWriteKeeps ==
    ASSUME NEW p \in Port, NEW length \in Nat PROVE Keeps(p, SerialStartWrite(p, length))
  <1> DEFINE given == [p EXCEPT !.CurrentWrite = TRUE, !.WriteLength = length]
             tickled == IF ~TransmitImmediate(p) /\ p.HoldingEmpty THEN Poke(given) ELSE given
  <1>1. given \in Port /\ Steady(p, given)
    BY DEF Port, Steady, AtRest
  <1> HIDE DEF given
  <1>2. tickled \in Port /\ Keeps(p, tickled)
    BY <1>1, PokeSteady, SteadyTransitive, SteadyKeeps DEF Keeps
  <1> HIDE DEF tickled
  <1>3. Keeps(tickled, Raise(tickled, "RTS"))
    BY <1>2, RaiseKeeps
  <1>4. SerialStartWrite(p, length) = IF Toggles(p) THEN Raise(tickled, "RTS") ELSE tickled
    BY DEF SerialStartWrite, tickled, given
  <1> QED
    BY <1>2, <1>3, <1>4, KeepsTransitive

LEMMA GiveImmediateSteady ==
    ASSUME NEW p \in Port PROVE Steady(p, SerialGiveImmediateToIsr(p))
  <1> DEFINE given == [p EXCEPT !.immediate = "waiting"]
  <1>1. given \in Port /\ Steady(p, given)
    BY DEF Port, Steady, AtRest
  <1>2. SerialGiveImmediateToIsr(p) \in {given, Poke(given)}
    BY DEF SerialGiveImmediateToIsr
  <1> HIDE DEF given
  <1> QED
    BY <1>1, <1>2, PokeSteady, SteadyTransitive

LEMMA ProcessEmptyKeeps ==
    ASSUME NEW p \in Port, NEW told \in BOOLEAN
    PROVE Keeps(p, SerialProcessEmptyTransmit(p, told))
  BY TryKeeps DEF SerialProcessEmptyTransmit, Keeps

LEMMA ProcessEmptyAtRest ==
    ASSUME NEW p \in Port, NEW told \in BOOLEAN
    PROVE AtRest(p, SerialProcessEmptyTransmit(p, told))
  BY TryAtRest DEF SerialProcessEmptyTransmit, AtRest

LEMMA GetNextWriteKeeps ==
    ASSUME NEW p \in Port, NEW length \in Nat, NEW told \in BOOLEAN
    PROVE Keeps(p, SerialGetNextWrite(p, length, told))
  <1> DEFINE ended == [p EXCEPT !.CurrentWrite = FALSE, !.WriteLength = 0]
             next == [ended EXCEPT !.queued = ended.queued - 1]
  <1>1. ended \in Port /\ Steady(p, ended) /\ ended.queued = p.queued
    BY DEF Port, Steady, AtRest
  <1>2. SerialGetNextWrite(p, length, told) =
          IF p.queued > 0 /\ length > 0 THEN SerialStartWrite(next, length)
                                        ELSE SerialProcessEmptyTransmit(ended, told)
    BY DEF SerialGetNextWrite
  <1> HIDE DEF ended
  <1>3. CASE p.queued > 0 /\ length > 0
    <2>1. ended.queued - 1 \in Nat
      BY <1>1, <1>3 DEF Port
    <2>2. next \in Port /\ Steady(ended, next)
      BY <1>1, <2>1 DEF Port, Steady, AtRest
    <2> HIDE DEF next
    <2>3. Keeps(p, next)
      BY <1>1, <2>2, SteadyTransitive, SteadyKeeps
    <2> QED
      BY <1>2, <1>3, <2>2, <2>3, StartWriteKeeps, KeepsTransitive
  <1>4. CASE ~(p.queued > 0 /\ length > 0)
    BY <1>1, <1>2, <1>4, SteadyKeeps, ProcessEmptyKeeps, KeepsTransitive
  <1> QED
    BY <1>3, <1>4

LEMMA NoNextWriteAtRest ==
    ASSUME NEW p \in Port, NEW told \in BOOLEAN
    PROVE AtRest(p, SerialGetNextWrite(p, 0, told))
  <1> DEFINE ended == [p EXCEPT !.CurrentWrite = FALSE, !.WriteLength = 0]
  <1>1. ended \in Port /\ Steady(p, ended)
    BY DEF Port, Steady, AtRest
  <1>2. SerialGetNextWrite(p, 0, told) = SerialProcessEmptyTransmit(ended, told)
    BY DEF SerialGetNextWrite
  <1> HIDE DEF ended
  <1>3. AtRest(ended, SerialProcessEmptyTransmit(ended, told))
    BY <1>1, ProcessEmptyAtRest
  <1> QED
    BY <1>1, <1>2, <1>3 DEF Steady, AtRest

LEMMA GetNextImmediateKeeps ==
    ASSUME NEW p \in Port, NEW told \in BOOLEAN
    PROVE Keeps(p, SerialGetNextImmediate(p, told))
          /\ AtRest(p, SerialGetNextImmediate(p, told))
  <1> DEFINE ended == [p EXCEPT !.immediate = "no"]
  <1>1. ended \in Port /\ Steady(p, ended)
    BY DEF Port, Steady, AtRest
  <1>2. SerialGetNextImmediate(p, told) = SerialProcessEmptyTransmit(ended, told)
    BY DEF SerialGetNextImmediate
  <1> HIDE DEF ended
  <1>3. AtRest(ended, SerialProcessEmptyTransmit(ended, told))
    BY <1>1, ProcessEmptyAtRest
  <1>4. AtRest(p, SerialGetNextImmediate(p, told))
    BY <1>1, <1>2, <1>3 DEF Steady, AtRest
  <1> QED
    BY <1>1, <1>2, <1>4, SteadyKeeps, ProcessEmptyKeeps, KeepsTransitive

LEMMA PretendXoffKeeps == ASSUME NEW p \in Port PROVE Keeps(p, SerialPretendXoff(p))
  <1> DEFINE held == [p EXCEPT !.TXHolding = @ \cup {"XOFF"}]
  <1>1. held \in Port /\ Steady(p, held)
    BY DEF Port, Steady, AtRest
  <1>2. SerialPretendXoff(p) \in {held, InsertDpc(held)}
    BY DEF SerialPretendXoff
  <1> HIDE DEF held
  <1> QED
    BY <1>1, <1>2, SteadyKeeps, InsertDpcKeeps, KeepsTransitive

LEMMA PretendXonKeeps == ASSUME NEW p \in Port PROVE Keeps(p, SerialPretendXon(p))
  <1> DEFINE let == [p EXCEPT !.TXHolding = @ \ {"XOFF"}]
  <1>1. let \in Port /\ Steady(p, let)
    BY DEF Port, Steady, AtRest
  <1>2. SerialPretendXon(p) \in {p, Resume(let)}
    BY DEF SerialPretendXon
  <1> HIDE DEF let
  <1>3. Keeps(p, p)
    BY DEF Keeps
  <1> QED
    BY <1>1, <1>2, <1>3, ResumeSteady, SteadyTransitive, SteadyKeeps

LEMMA TurnOnBreakKeeps == ASSUME NEW p \in Port PROVE Keeps(p, SerialTurnOnBreak(p))
  <1> DEFINE on == [p EXCEPT !.TXHolding = @ \cup {"BREAK"}]
  <1>1. on \in Port /\ (Exact(p) => Exact(on)) /\ (Toggles(on) <=> Toggles(p))
    <2>1. on \in Port
      BY DEF Port
    <2>2. on.hf = p.hf /\ on.count = p.count /\ on.dpc = p.dpc /\ on.timer = p.timer
          /\ on.fired = p.fired
      BY DEF Port
    <2> QED
      BY <2>1, <2>2 DEF Exact, Paths, Toggles
  <1>2. SerialTurnOnBreak(p) = IF Toggles(p) THEN Raise(on, "RTS") ELSE on
    BY DEF SerialTurnOnBreak
  <1> HIDE DEF on
  <1>3. Raise(on, "RTS") \in Port /\ (Exact(on) => Exact(Raise(on, "RTS")))
        /\ Covered(Raise(on, "RTS"))
    BY <1>1 DEF Port, Raise, Exact, Paths, Covered, Toggles
  <1> QED
    BY <1>1, <1>2, <1>3 DEF Keeps, Covered

LEMMA TurnOffBreakKeeps ==
    ASSUME NEW p \in Port
    PROVE Keeps(p, SerialTurnOffBreak(p)) /\ SameWork(p, SerialTurnOffBreak(p))
  <1> DEFINE off == [p EXCEPT !.TXHolding = @ \ {"BREAK"}]
             more == [off EXCEPT !.count = off.count + 1]
  <1>1. off \in Port /\ Steady(p, off) /\ SameWork(p, off)
    BY DEF Port, Steady, AtRest, SameWork
  <1>2. SerialTurnOffBreak(p) \in {p, Poke(off), TryToLowerRTS(off)}
    BY DEF SerialTurnOffBreak
  <1> HIDE DEF off
  <1>3. Keeps(p, p) /\ SameWork(p, p)
    BY DEF Keeps, SameWork
  <1>4. Keeps(p, Poke(off)) /\ SameWork(p, Poke(off))
    <2>1. SameWork(off, Poke(off))
      BY <1>1 DEF Port, Poke, SameWork
    <2> QED
      BY <1>1, <2>1, PokeSteady, SteadyTransitive, SteadyKeeps DEF SameWork
  <1>5. Keeps(p, TryToLowerRTS(off))
    BY <1>1, SteadyKeeps, TryKeeps, KeepsTransitive
  <1>6. SameWork(p, TryToLowerRTS(off))
    <2>1. off.count + 1 \in Int
      BY <1>1 DEF Port
    <2>2. more \in Port /\ SameWork(off, more)
      BY <1>1, <2>1 DEF Port, SameWork
    <2>3. TryToLowerRTS(off) = SerialPerhapsLowerRTS(more)
      BY DEF TryToLowerRTS
    <2> HIDE DEF more
    <2> QED
      BY <1>1, <2>2, <2>3, PerhapsSameWork DEF SameWork
  <1> QED
    BY <1>2, <1>3, <1>4, <1>5, <1>6

LEMMA StartTimerKeeps ==
    ASSUME NEW p \in Port, p.dpc
    PROVE LET q == SerialStartTimer([p EXCEPT !.dpc = FALSE])
          IN Keeps(p, q) /\ SameWork(p, q) /\ AtRest(p, q)
  <1> DEFINE o == [p EXCEPT !.dpc = FALSE]
             c == IF o.timer THEN o.count - 1 ELSE o.count
             q == [o EXCEPT !.timer = TRUE, !.count = c]
  <1>1. o \in Port
    BY DEF Port
  <1>2. SerialStartTimer(o) = q
    BY DEF SerialStartTimer
  <1>3. c \in Int
    BY <1>1 DEF Port
  <1>4. Exact(p) => c = (IF o.timer THEN 1 ELSE 0) + (IF o.fired THEN 1 ELSE 0)
                        + (IF o.timer THEN 0 ELSE 1)
    BY DEF Port, Exact, Paths
  <1>5. (Covered(p) => Covered(o)) /\ SameWork(p, o) /\ AtRest(p, o) /\ ~o.dpc
    BY DEF Port, Covered, Toggles, HardwareEmpty, SameWork, AtRest
  <1> HIDE DEF o, c
  <1>6. q \in Port
    BY <1>1, <1>3 DEF Port
  <1>7. Exact(p) => Exact(q)
    BY <1>1, <1>4, <1>5 DEF Port, Exact, Paths
  <1>8. (Covered(o) => Covered(q)) /\ SameWork(o, q) /\ AtRest(o, q)
    BY <1>1 DEF Port, Covered, Toggles, HardwareEmpty, SameWork, AtRest
  <1> HIDE DEF q
  <1>9. Keeps(p, q) /\ SameWork(p, q) /\ AtRest(p, q)
    BY <1>5, <1>6, <1>7, <1>8 DEF Keeps, SameWork, AtRest
  <1> QED
    BY <1>2, <1>9 DEF o

-------------------------------------------------------------------------------
(* New flow control: what RTS must cover depends on the mode that is being set. *)

CoveredIn(p, mode) ==
    mode = "toggle" /\ (~HardwareEmpty(p) \/ "BREAK" \in p.TXHolding) => "RTS" \in p.lines

LEMMA SteadyCoveredIn ==
    ASSUME NEW p, NEW q, Steady(p, q), NEW mode, CoveredIn(p, mode)
    PROVE CoveredIn(q, mode)
  BY DEF Steady, AtRest, CoveredIn, HardwareEmpty

LEMMA HandshakeCounts ==
    ASSUME NEW p \in Port, NEW line \in {"RTS", "DTR"}
    PROVE LET q == Handshake(p, line)
          IN /\ q \in Port /\ (Exact(p) => Exact(q))
             /\ q.hf = p.hf /\ q.thr = p.thr /\ q.tsr = p.tsr /\ q.TXHolding = p.TXHolding
             /\ line = "DTR" => ("RTS" \in q.lines <=> "RTS" \in p.lines)
  <1> DEFINE unheld == [p EXCEPT !.RXHolding = @ \ {line}]
             held == [p EXCEPT !.RXHolding = @ \cup {line}]
  <1>1. unheld \in Port /\ Steady(p, unheld) /\ unheld.TXHolding = p.TXHolding
    BY DEF Port, Steady, AtRest
  <1>2. held \in Port /\ Steady(p, held) /\ held.TXHolding = p.TXHolding
    BY DEF Port, Steady, AtRest, Holds
  <1>3. Handshake(p, line) \in {p, Raise(p, line), Raise(unheld, line), Lower(held, line)}
    BY DEF Handshake
  <1> HIDE DEF held, unheld
  <1> DEFINE Fine(r, q) ==
              /\ q \in Port /\ (Exact(r) => Exact(q))
              /\ q.hf = r.hf /\ q.thr = r.thr /\ q.tsr = r.tsr /\ q.TXHolding = r.TXHolding
              /\ line = "DTR" => ("RTS" \in q.lines <=> "RTS" \in r.lines)
  <1>4. \A r \in Port : Fine(r, Raise(r, line)) /\ Fine(r, Lower(r, line))
    BY DEF Port, Raise, Lower, Exact, Paths
  <1>5. Fine(p, p) /\ Fine(p, unheld) /\ Fine(p, held)
    BY <1>1, <1>2 DEF Steady, AtRest, Exact, Paths
  <1>6. Fine(p, Raise(p, line)) /\ Fine(p, Raise(unheld, line)) /\ Fine(p, Lower(held, line))
    <2>1. Fine(p, Raise(p, line)) /\ Fine(unheld, Raise(unheld, line))
          /\ Fine(held, Lower(held, line))
      BY <1>1, <1>2, <1>4
    <2> QED
      BY <1>5, <2>1
  <1> HIDE DEF Fine
  <1>7. Fine(p, Handshake(p, line))
    BY <1>3, <1>5, <1>6
  <1> QED
    BY <1>7 DEF Fine

LEMMA StartTogglingCovers ==
    ASSUME NEW p \in Port
    PROVE LET q == StartToggling(p)
          IN /\ q \in Port /\ (Exact(p) => Exact(q))
             /\ CoveredIn(q, "toggle") /\ q.hf.RTS = "toggle"
  <1> DEFINE h == IF "BREAK" \in p.TXHolding THEN p.HoldingEmpty ELSE p.thr = "none"
             t == [p EXCEPT !.hf.RTS = "toggle", !.HoldingEmpty = h]
  <1>1. h \in BOOLEAN
    BY DEF Port
  <1>2. StartToggling(p) = IF KeepsRTS(p) \/ ~HardwareEmpty(p) THEN Raise(t, "RTS")
                                                               ELSE TryToLowerRTS(t)
    BY DEF StartToggling
  <1> HIDE DEF h
  <1>3. t \in Port
    BY <1>1 DEF Port, HandFlow
  <1>4. /\ Exact(p) => Exact(t)
        /\ HardwareEmpty(t) <=> HardwareEmpty(p)
        /\ t.TXHolding = p.TXHolding /\ t.hf.RTS = "toggle"
    BY DEF Port, HandFlow, Exact, Paths, HardwareEmpty
  <1> HIDE DEF t
  <1>5. /\ Raise(t, "RTS") \in Port /\ (Exact(t) => Exact(Raise(t, "RTS")))
        /\ CoveredIn(Raise(t, "RTS"), "toggle") /\ Raise(t, "RTS").hf = t.hf
    BY <1>3 DEF Port, Raise, Exact, Paths, CoveredIn
  <1>6. CASE KeepsRTS(p) \/ ~HardwareEmpty(p)
    BY <1>2, <1>4, <1>5, <1>6
  <1>7. CASE ~KeepsRTS(p) /\ HardwareEmpty(p)
    <2>1. Keeps(t, TryToLowerRTS(t)) /\ TryToLowerRTS(t).hf = t.hf
      BY <1>3, TryKeeps, TryAtRest DEF AtRest
    <2>2. HardwareEmpty(TryToLowerRTS(t)) /\ "BREAK" \notin TryToLowerRTS(t).TXHolding
      <3> DEFINE m == [t EXCEPT !.count = t.count + 1]
      <3>1. t.count + 1 \in Int
        BY <1>3 DEF Port
      <3>2. m \in Port
        BY <1>3, <3>1 DEF Port
      <3>3. HardwareEmpty(m) /\ "BREAK" \notin m.TXHolding
        BY <1>3, <1>4, <1>7 DEF Port, HardwareEmpty, KeepsRTS
      <3>4. TryToLowerRTS(t) = SerialPerhapsLowerRTS(m)
        BY DEF TryToLowerRTS
      <3> HIDE DEF m
      <3> QED
        BY <3>2, <3>3, <3>4
           DEF Port, SerialPerhapsLowerRTS, LoweredRTS, Lower, LineStatus, HardwareEmpty
    <2> QED
      BY <1>2, <1>4, <1>7, <2>1, <2>2 DEF Keeps, CoveredIn
  <1> QED
    BY <1>6, <1>7

LEMMA ResetRTSCovers ==
    ASSUME NEW p \in Port, NEW how \in {"off", "control", "handshake", "toggle"}
    PROVE LET q == ResetLine(p, "RTS", how)
          IN /\ q \in Port /\ (Exact(p) => Exact(q)) /\ CoveredIn(q, how)
             /\ p.hf.RTS = how => q.hf.RTS = how
  <1> DEFINE unheld == [p EXCEPT !.RXHolding = @ \ {"RTS"}]
  <1>1. unheld \in Port /\ (Exact(p) => Exact(unheld)) /\ unheld.hf = p.hf
    BY DEF Port, Exact, Paths
  <1> HIDE DEF unheld
  <1>2. CASE how = "handshake"
    BY <1>2, HandshakeCounts DEF ResetLine, CoveredIn
  <1>3. CASE how = "control"
    <2>1. ResetLine(p, "RTS", how) = Raise(unheld, "RTS")
      BY <1>3 DEF ResetLine, unheld
    <2> QED
      BY <1>1, <1>3, <2>1 DEF Port, Raise, Exact, Paths, CoveredIn
  <1>4. CASE how = "toggle"
    <2>1. ResetLine(p, "RTS", how) = StartToggling(unheld)
      BY <1>4 DEF ResetLine, unheld
    <2> QED
      BY <1>1, <1>4, <2>1, StartTogglingCovers
  <1>5. CASE how = "off"
    <2>1. ResetLine(p, "RTS", how) = Lower(unheld, "RTS")
      BY <1>5 DEF ResetLine, unheld
    <2> QED
      BY <1>1, <1>5, <2>1 DEF Port, Lower, Exact, Paths, CoveredIn
  <1> QED
    BY <1>2, <1>3, <1>4, <1>5

LEMMA SetRTSCovers ==
    ASSUME NEW p \in Port, NEW how \in {"off", "control", "handshake", "toggle"}, Covered(p)
    PROVE LET q == SetLine(p, "RTS", how)
          IN q \in Port /\ (Exact(p) => Exact(q)) /\ CoveredIn(q, how)
  <1>1. CASE how = p.hf.RTS
    BY <1>1 DEF SetLine, CoveredIn, Covered, Toggles
  <1>2. CASE how # p.hf.RTS
    BY <1>2, ResetRTSCovers DEF SetLine
  <1> QED
    BY <1>1, <1>2

LEMMA ResetDTRKeeps ==
    ASSUME NEW p \in Port, NEW how \in {"off", "control", "handshake"}
    PROVE LET q == ResetLine(p, "DTR", how)
          IN Keeps(p, q) /\ q \in Port /\ q.hf = p.hf
  <1> DEFINE unheld == [p EXCEPT !.RXHolding = @ \ {"DTR"}]
  <1>1. unheld \in Port /\ Steady(p, unheld) /\ unheld.hf = p.hf
    BY DEF Port, Steady, AtRest
  <1> HIDE DEF unheld
  <1>2. CASE how = "handshake"
    BY <1>2, HandshakeCounts DEF ResetLine, Keeps, Covered, Toggles, HardwareEmpty
  <1>3. CASE how = "control"
    <2>1. ResetLine(p, "DTR", how) = Raise(unheld, "DTR")
      BY <1>3 DEF ResetLine, unheld
    <2>2. Raise(unheld, "DTR").hf = unheld.hf
      BY <1>1 DEF Port, Raise
    <2> QED
      BY <1>1, <2>1, <2>2, SteadyKeeps, RaiseKeeps, KeepsTransitive DEF Keeps
  <1>4. CASE how = "off"
    <2>1. ResetLine(p, "DTR", how) = Lower(unheld, "DTR")
      BY <1>4 DEF ResetLine, unheld
    <2>2. Keeps(unheld, Lower(unheld, "DTR")) /\ Lower(unheld, "DTR").hf = unheld.hf
      BY <1>1 DEF Port, Lower, Keeps, Exact, Paths, Covered, Toggles, HardwareEmpty
    <2> QED
      BY <1>1, <2>1, <2>2, SteadyKeeps, KeepsTransitive DEF Keeps
  <1> QED
    BY <1>2, <1>3, <1>4

LEMMA SetDTRKeeps ==
    ASSUME NEW p \in Port, NEW how \in {"off", "control", "handshake"}
    PROVE Keeps(p, SetLine(p, "DTR", how)) /\ SetLine(p, "DTR", how) \in Port
  BY ResetDTRKeeps DEF SetLine, Keeps

LEMMA ResetAutoReceiveSteady ==
    ASSUME NEW p \in Port, NEW on \in BOOLEAN PROVE Steady(p, ResetAutoReceive(p, on))
  <1> DEFINE held == [p EXCEPT !.RXHolding = @ \cup {"XOFF"}]
             let == [p EXCEPT !.RXHolding = @ \ {"XOFF"}]
  <1>1. held \in Port /\ Steady(p, held) /\ let \in Port /\ Steady(p, let)
    BY DEF Port, Steady, AtRest, Holds
  <1>2. ResetAutoReceive(p, on) \in {p, SerialProdXonXoff(held, "XOFF"),
                                        SerialProdXonXoff(let, "XON")}
    BY DEF ResetAutoReceive
  <1> HIDE DEF held, let
  <1>3. Steady(p, SerialProdXonXoff(held, "XOFF"))
    BY <1>1, ProdSteady, SteadyTransitive
  <1>4. Steady(p, SerialProdXonXoff(let, "XON"))
    BY <1>1, ProdSteady, SteadyTransitive
  <1> QED
    BY <1>2, <1>3, <1>4 DEF Steady, AtRest

LEMMA SetAutoReceiveSteady ==
    ASSUME NEW p \in Port, NEW on \in BOOLEAN PROVE Steady(p, SetAutoReceive(p, on))
  BY ResetAutoReceiveSteady DEF SetAutoReceive, Steady, AtRest

LEMMA SetAutoTransmitSteady ==
    ASSUME NEW p \in Port, NEW on \in BOOLEAN PROVE Steady(p, SetAutoTransmit(p, on))
  <1> DEFINE let == [p EXCEPT !.TXHolding = @ \ {"XOFF"}]
  <1>1. let \in Port /\ Steady(p, let)
    BY DEF Port, Steady, AtRest
  <1>2. SetAutoTransmit(p, on) \in {p, SerialProdXonXoff(let, "XON")}
    BY DEF SetAutoTransmit
  <1> HIDE DEF let
  <1>3. Steady(p, SerialProdXonXoff(let, "XON"))
    BY <1>1, ProdSteady, SteadyTransitive
  <1> QED
    BY <1>2, <1>3 DEF Steady, AtRest

LEMMA SetHandFlowKeeps ==
    ASSUME NEW p \in Port, NEW new \in HandFlow, NEW inputs \in SUBSET OutLines, Covered(p)
    PROVE Keeps(p, SerialSetHandFlow(p, new, inputs))
  <1> DEFINE d == SetLine(p, "DTR", new.DTR)
             r == SetLine(d, "RTS", new.RTS)
             a == SetAutoReceive(r, new.autoReceive)
             t == SetAutoTransmit(a, new.autoTransmit)
             q == [t EXCEPT !.hf = new]
  <1>0. /\ new.DTR \in {"off", "control", "handshake"}
        /\ new.RTS \in {"off", "control", "handshake", "toggle"}
        /\ new.autoReceive \in BOOLEAN /\ new.autoTransmit \in BOOLEAN
    BY DEF HandFlow
  <1>1. d \in Port /\ Covered(d) /\ (Exact(p) => Exact(d))
    BY <1>0, SetDTRKeeps DEF Keeps
  <1>2. r \in Port /\ (Exact(d) => Exact(r)) /\ CoveredIn(r, new.RTS)
    <2> HIDE DEF d
    <2> QED
      BY <1>0, <1>1, SetRTSCovers
  <1>3. Steady(r, a) /\ a \in Port
    <2> HIDE DEF r
    <2> QED
      BY <1>0, <1>2, SetAutoReceiveSteady DEF Steady
  <1>4. Steady(a, t) /\ t \in Port
    <2> HIDE DEF a
    <2> QED
      BY <1>0, <1>3, SetAutoTransmitSteady DEF Steady
  <1>5. SerialSetupNewHandFlow(p, new) = q
    BY DEF SerialSetupNewHandFlow
  <1> HIDE DEF d, r, a, t
  <1>6. Steady(r, t) /\ CoveredIn(t, new.RTS) /\ (Exact(r) => Exact(t))
    BY <1>2, <1>3, <1>4, SteadyTransitive, SteadyCoveredIn, SteadyKeeps DEF Keeps
  <1>7. q \in Port
    BY <1>4 DEF Port
  <1>8. (Exact(t) => Exact(q)) /\ Covered(q)
    BY <1>4, <1>6 DEF Port, Exact, Paths, Covered, CoveredIn, Toggles, HardwareEmpty
  <1> HIDE DEF q
  <1>9. Keeps(p, q)
    BY <1>1, <1>2, <1>6, <1>7, <1>8 DEF Keeps
  <1>10. Keeps(q, SerialHandleModemUpdate(q, inputs, FALSE))
    BY <1>7, ModemUpdateKeeps
  <1> QED
    BY <1>5, <1>9, <1>10, KeepsTransitive DEF SerialSetHandFlow

\* An open does all of it again, with the flow control of the last one.
LEMMA ResetKeeps ==
    ASSUME NEW p \in Port, NEW inputs \in SUBSET OutLines
    PROVE LET q == SerialReset(p, inputs)
          IN q \in Port /\ (Exact(p) => Exact(q)) /\ Covered(q)
  <1> DEFINE quiet == [p EXCEPT !.rbr = "none", !.thri = FALSE]
             d == ResetLine(quiet, "DTR", p.hf.DTR)
             r == ResetLine(d, "RTS", p.hf.RTS)
             a == ResetAutoReceive(r, p.hf.autoReceive)
             m == SerialHandleModemUpdate(a, inputs, FALSE)
             q == [m EXCEPT !.HoldingEmpty = TRUE]
  <1>0. /\ p.hf.DTR \in {"off", "control", "handshake"}
        /\ p.hf.RTS \in {"off", "control", "handshake", "toggle"}
        /\ p.hf.autoReceive \in BOOLEAN
    BY DEF Port, HandFlow
  <1>1. quiet \in Port /\ quiet.hf = p.hf /\ (Exact(p) => Exact(quiet))
    BY DEF Port, Exact, Paths
  <1>2. d \in Port /\ d.hf = p.hf /\ (Exact(p) => Exact(d))
    <2> HIDE DEF quiet
    <2> QED
      BY <1>0, <1>1, ResetDTRKeeps DEF Keeps
  <1>3. r \in Port /\ (Exact(d) => Exact(r)) /\ Covered(r)
    <2> HIDE DEF d
    <2> QED
      BY <1>0, <1>2, ResetRTSCovers DEF Covered, CoveredIn, Toggles
  <1>4. a \in Port /\ Keeps(r, a)
    <2> HIDE DEF r
    <2> QED
      BY <1>0, <1>3, ResetAutoReceiveSteady, SteadyKeeps DEF Steady
  <1>5. m \in Port /\ Keeps(a, m)
    <2> HIDE DEF a
    <2> QED
      BY <1>4, ModemUpdateKeeps DEF Keeps
  <1>6. Keeps(m, q)
    <2> HIDE DEF m
    <2>1. Steady(m, q)
      BY <1>5 DEF Port, Steady, AtRest
    <2> QED
      BY <2>1, SteadyKeeps
  <1>7. SerialReset(p, inputs) = q
    BY DEF SerialReset
  <1> HIDE DEF q, m, a, r, d
  <1> QED
    BY <1>2, <1>3, <1>4, <1>5, <1>6, <1>7 DEF Keeps

-------------------------------------------------------------------------------
(* The inductive invariant *)

Idle(p) == ~p.CurrentWrite /\ p.immediate = "no"
NoPath(p) == ~p.dpc /\ ~p.timer /\ ~p.fired

\* What RTS must cover when a sleeper is up again.
CoveredAwake(p) ==
    Toggles(p) /\ (~HardwareEmpty(p) \/ "BREAK" \in p.TXHolding) => "RTS" \in p.saved

\* A port that closes has nothing to send, so that nothing starts a new path; until the
\* interrupts or the power are turned off RTS covers the transmission.
Fit(p, ph) ==
    /\ p \in Port /\ Exact(p)
    /\ ph \in {"open", "stopping", "draining", "flushing"} => Covered(p)
    /\ ph = "asleep" => CoveredAwake(p)
    /\ ph \in Closing => Idle(p)
    /\ ph = "closed" => NoPath(p)

FlowInv == TypeOK /\ \A e \in Ends : Fit(port[e], phase[e])

LEMMA AwakeFits ==
    ASSUME NEW p, NEW q, NEW ph, Fit(p, ph), Keeps(p, q), ph \notin Closing,
           ph = "asleep" => AtRest(p, q)
    PROVE  Fit(q, ph)
  BY DEF Fit, Keeps, Closing, AtRest, CoveredAwake, Toggles, HardwareEmpty

LEMMA SteadyFits ==
    ASSUME NEW p, NEW q, NEW ph, Fit(p, ph), Steady(p, q), SameWork(p, q) PROVE Fit(q, ph)
  BY SteadyKeeps DEF Fit, Keeps, Steady, SameWork, Idle, NoPath, AtRest, CoveredAwake,
                     Toggles, HardwareEmpty

Uncounted == phase' = phase /\ requested' = requested /\ events' = events
Counts == requested' \in [Ends -> Nat] /\ events' \in Nat

\* What happens to one port keeps the invariant if it keeps that port fit.
LEMMA OnePort ==
    ASSUME FlowInv, NEW e \in Ends, NEW new,
           port' = Connected(e, new), Fit(new, phase'[e]),
           phase' \in [Ends -> PHASES], Counts,
           \A o \in Ends \ {e} : phase'[o] = phase[o]
    PROVE  FlowInv'
  <1> DEFINE o == Peer[e]
             m == port[o].msi \/ new.lines # port[e].lines
             heard == [port[o] EXCEPT !.msi = m]
  <1>1. o \in Ends /\ o # e
    BY EndsAssumption
  <1>2. Fit(port[o], phase[o]) /\ port[o] \in Port /\ m \in BOOLEAN
    BY <1>1 DEF FlowInv, Fit, Port
  <1>3. port' = [port EXCEPT ![e] = new, ![o] = heard]
    BY <1>1 DEF Connected, FlowInv, TypeOK
  <1> HIDE DEF m, o
  <1>4. Fit(heard, phase[o])
    <2>1. Steady(port[o], heard) /\ SameWork(port[o], heard)
      BY <1>2 DEF Port, Steady, AtRest, SameWork
    <2> QED
      BY <1>2, <2>1, SteadyFits
  <1> HIDE DEF heard
  <1>5. port'[e] = new /\ port'[o] = heard
        /\ \A x \in Ends \ {e, o} : port'[x] = port[x]
    BY <1>1, <1>3 DEF FlowInv, TypeOK
  <1>6. \A x \in Ends : Fit(port'[x], phase'[x])
    BY <1>1, <1>4, <1>5 DEF FlowInv
  <1>7. port' \in [Ends -> Port]
    <2>1. new \in Port /\ heard \in Port
      BY <1>4 DEF Fit
    <2> QED
      BY <1>1, <1>3, <2>1 DEF FlowInv, TypeOK
  <1> QED
    BY <1>6, <1>7 DEF FlowInv, TypeOK, Counts

LEMMA AwakeUpdate ==
    ASSUME FlowInv, NEW e \in Ends, NEW new, port' = Connected(e, new),
           phase[e] \notin Closing, Keeps(port[e], new),
           phase[e] = "asleep" => AtRest(port[e], new), phase' = phase, Counts
    PROVE  FlowInv'
  BY AwakeFits, OnePort DEF FlowInv, TypeOK

LEMMA ServedKeeps ==
    ASSUME FlowInv, NEW e \in Ends, NEW new, DeviceIsOpened(e), Keeps(port[e], new),
           Served(e, new)
    PROVE  FlowInv'
  <1> DEFINE held == [new EXCEPT !.inIsr = TRUE]
  <1>1. Steady(new, held)
    BY DEF Keeps, Port, Steady, AtRest
  <1>2. port' = Connected(e, held) /\ Uncounted
    BY DEF Served, Uncounted
  <1> HIDE DEF held
  <1>3. Keeps(port[e], held)
    BY <1>1, SteadyKeeps, KeepsTransitive
  <1> QED
    BY <1>2, <1>3, AwakeUpdate
       DEF FlowInv, TypeOK, Uncounted, Counts, DeviceIsOpened, Closing

LEMMA InputsType == ASSUME NEW e \in Ends PROVE Inputs(e) \in SUBSET OutLines
  BY DEF Inputs

LEMMA InterruptKeeps ==
    ASSUME FlowInv, NEW e \in Ends, Interrupt(e) PROVE FlowInv'
  <1> DEFINE p == port[e]
  <1>1. p \in Port /\ Fit(p, phase[e])
    BY DEF FlowInv, Fit
  <1>2. CASE InterruptReceive(e)
    <2>1. /\ DeviceIsOpened(e) /\ p.rbr # "none"
          /\ Served(e, LineStatus(Received(p, Inputs(e))))
      BY <1>2 DEF InterruptReceive
    <2>2. Keeps(p, Received(p, Inputs(e))) /\ Received(p, Inputs(e)) \in Port
      BY <1>1, <2>1, InputsType, ReceivedKeeps DEF Keeps
    <2> DEFINE r == Received(p, Inputs(e))
    <2> HIDE DEF r
    <2>3. Keeps(p, LineStatus(r))
      BY <2>2, LineStatusSteady, SteadyKeeps, KeepsTransitive DEF r
    <2> QED
      BY <2>1, <2>3, ServedKeeps DEF r
  <1>3. CASE InterruptTransmit(e)
    <2> DEFINE r == ReadyToSend(p, Inputs(e))
    <2>1. DeviceIsOpened(e) /\ Served(e, SendNext(r))
      BY <1>3 DEF InterruptTransmit
    <2>2. Keeps(p, r) /\ r \in Port
      BY <1>1, InputsType, ReadyKeeps
    <2> HIDE DEF r
    <2>3. Keeps(p, SendNext(r))
      BY <2>2, SendNextKeeps, KeepsTransitive
    <2> QED
      BY <2>1, <2>3, ServedKeeps
  <1>4. CASE InterruptModem(e)
    <2>1. DeviceIsOpened(e) /\ Served(e, SerialHandleModemUpdate(p, Inputs(e), FALSE))
      BY <1>4 DEF InterruptModem
    <2>2. Keeps(p, SerialHandleModemUpdate(p, Inputs(e), FALSE))
      BY <1>1, InputsType, ModemUpdateKeeps
    <2> QED
      BY <2>1, <2>2, ServedKeeps
  <1>5. CASE InterruptClosed(e)
    <2> DEFINE b == TakenBack(p)
               new == [b EXCEPT !.inIsr = TRUE]
    <2>1. port' = Connected(e, new) /\ Uncounted
      BY <1>5 DEF InterruptClosed, Served, Uncounted
    <2>2. Steady(p, b) /\ b \in Port /\ SameWork(p, b)
      BY <1>1, TakenBackSteady DEF Steady
    <2> HIDE DEF b
    <2>3. Steady(b, new) /\ SameWork(b, new)
      BY <2>2 DEF Port, Steady, AtRest, SameWork
    <2>4. Fit(new, phase[e])
      BY <1>1, <2>2, <2>3, SteadyFits
    <2> HIDE DEF new
    <2> QED
      BY <2>1, <2>4, OnePort DEF FlowInv, TypeOK, Uncounted, Counts
  <1>6. CASE InterruptReturn(e)
    <2> DEFINE h == IF DeviceIsOpened(e) THEN p.thr = "none" ELSE p.HoldingEmpty
               new == [p EXCEPT !.inIsr = FALSE, !.HoldingEmpty = h]
    <2>1. h \in BOOLEAN
      BY <1>1 DEF Port
    <2>2. port' = [port EXCEPT ![e] = new] /\ Uncounted
      BY <1>6 DEF InterruptReturn, FlowInv, TypeOK, Uncounted
    <2> HIDE DEF h
    <2>3. Steady(p, new) /\ SameWork(p, new)
      BY <1>1, <2>1 DEF Port, Steady, AtRest, SameWork
    <2> HIDE DEF new
    <2>4. Fit(new, phase[e]) /\ new \in Port
      BY <1>1, <2>3, SteadyFits DEF Fit
    <2> QED
      BY <2>2, <2>4 DEF FlowInv, TypeOK, Uncounted
  <1> QED
    BY <1>2, <1>3, <1>4, <1>5, <1>6 DEF Interrupt

LEMMA HardwareKeeps ==
    ASSUME FlowInv, NEW e \in Ends, Shift(e) \/ Arrive(e) \/ Expire(e) PROVE FlowInv'
  <1> DEFINE p == port[e]
  <1>1. p \in Port /\ Fit(p, phase[e])
    BY DEF FlowInv, Fit
  <1>2. CASE Shift(e)
    <2> DEFINE new == [p EXCEPT !.tsr = p.thr, !.thr = "none", !.thri = TRUE]
    <2>1. p.thr # "none" /\ port' = [port EXCEPT ![e] = new]
          /\ Uncounted
      BY <1>2 DEF Shift, FlowInv, TypeOK, Uncounted
    <2>2. new \in Port
      BY <1>1 DEF Port
    <2>3. Exact(new) /\ SameWork(p, new) /\ (NoPath(p) => NoPath(new))
      BY <1>1 DEF Port, Fit, Exact, Paths, SameWork, NoPath
    <2>4. (Covered(p) => Covered(new)) /\ (CoveredAwake(p) => CoveredAwake(new))
      BY <1>1, <2>1 DEF Port, Covered, CoveredAwake, Toggles, HardwareEmpty
    <2>5. Fit(new, phase[e])
      BY <1>1, <2>2, <2>3, <2>4 DEF Fit, Idle, SameWork
    <2> HIDE DEF new
    <2> QED
      BY <2>1, <2>2, <2>5 DEF FlowInv, TypeOK, Uncounted
  <1>3. CASE Arrive(e)
    <2> DEFINE o == Peer[e]
               c == IF Interrupts(o) THEN p.tsr ELSE "none"
               sent == [p EXCEPT !.tsr = "none"]
               got == [port[o] EXCEPT !.rbr = c]
    <2>1. o \in Ends /\ o # e
      BY EndsAssumption
    <2>2. c \in {"none", "data", "XON", "XOFF"}
      BY <1>1 DEF Port
    <2>3. port' = [port EXCEPT ![e] = sent, ![o] = got]
          /\ Uncounted
      BY <1>3, <2>1 DEF Arrive, FlowInv, TypeOK, Uncounted
    <2>4. port[o] \in Port /\ Fit(port[o], phase[o])
      BY <2>1 DEF FlowInv, Fit
    <2> HIDE DEF c, o
    <2>5. Steady(port[o], got) /\ SameWork(port[o], got)
      BY <2>2, <2>4 DEF Port, Steady, AtRest, SameWork
    <2>6. sent \in Port /\ Exact(sent) /\ SameWork(p, sent) /\ (NoPath(p) => NoPath(sent))
      BY <1>1 DEF Port, Fit, Exact, Paths, SameWork, NoPath
    <2>7. (Covered(p) => Covered(sent)) /\ (CoveredAwake(p) => CoveredAwake(sent))
      BY <1>1 DEF Port, Covered, CoveredAwake, Toggles, HardwareEmpty
    <2> HIDE DEF sent, got
    <2>8. Fit(sent, phase[e]) /\ Fit(got, phase[o]) /\ got \in Port
      BY <1>1, <2>4, <2>5, <2>6, <2>7, SteadyFits DEF Fit, Idle, SameWork
    <2>9. port'[e] = sent /\ port'[o] = got
          /\ \A x \in Ends \ {e, o} : port'[x] = port[x]
      BY <2>1, <2>3 DEF FlowInv, TypeOK
    <2>10. port' \in [Ends -> Port]
      BY <2>1, <2>3, <2>6, <2>8 DEF FlowInv, TypeOK
    <2>11. \A x \in Ends : Fit(port'[x], phase'[x])
      BY <2>1, <2>3, <2>8, <2>9 DEF FlowInv, Uncounted
    <2> QED
      BY <2>3, <2>10, <2>11 DEF FlowInv, TypeOK, Uncounted
  <1>4. CASE Expire(e)
    <2> DEFINE new == [p EXCEPT !.timer = FALSE, !.fired = TRUE]
    <2>1. p.timer /\ ~p.fired /\ port' = [port EXCEPT ![e] = new]
          /\ Uncounted
      BY <1>4 DEF Expire, FlowInv, TypeOK, Uncounted
    <2>2. new \in Port
      BY <1>1 DEF Port
    <2>3. Exact(new)
      BY <1>1, <2>1 DEF Port, Fit, Exact, Paths
    <2>4. (Covered(p) => Covered(new)) /\ (CoveredAwake(p) => CoveredAwake(new))
          /\ SameWork(p, new) /\ ~NoPath(p)
      BY <1>1, <2>1
         DEF Port, Covered, CoveredAwake, Toggles, HardwareEmpty, SameWork, NoPath
    <2>5. Fit(new, phase[e])
      BY <1>1, <2>2, <2>3, <2>4 DEF Fit, Idle, SameWork
    <2> HIDE DEF new
    <2> QED
      BY <2>1, <2>2, <2>5 DEF FlowInv, TypeOK, Uncounted
  <1> QED
    BY <1>2, <1>3, <1>4

\* A queue that a sleep has stopped gives out nothing, and the sleeper stays at rest.
LEMMA NextWriteFits ==
    ASSUME FlowInv, NEW e \in Ends, NEW length \in Retrieved(e), NEW emptied \in BOOLEAN
    PROVE  LET new == SerialGetNextWrite(port[e], length, emptied /\ WatchesEmpty[e])
           IN Keeps(port[e], new) /\ (phase[e] = "asleep" => AtRest(port[e], new))
  <1> DEFINE p == port[e]
             told == emptied /\ WatchesEmpty[e]
  <1>1. p \in Port /\ told \in BOOLEAN /\ length \in Nat
    BY FlowInputsAssumption DEF FlowInv, Fit, Retrieved
  <1>2. phase[e] = "asleep" => length = 0
    BY DEF Retrieved
  <1> HIDE DEF p, told
  <1>3. Keeps(p, SerialGetNextWrite(p, length, told))
        /\ (length = 0 => AtRest(p, SerialGetNextWrite(p, length, told)))
    BY <1>1, GetNextWriteKeeps, NoNextWriteAtRest
  <1> QED
    BY <1>2, <1>3 DEF p, told

LEMMA NextImmediateFits ==
    ASSUME FlowInv, NEW e \in Ends, NEW emptied \in BOOLEAN
    PROVE  LET new == SerialGetNextImmediate(port[e], emptied /\ WatchesEmpty[e])
           IN Keeps(port[e], new) /\ AtRest(port[e], new)
  <1>1. port[e] \in Port /\ (emptied /\ WatchesEmpty[e]) \in BOOLEAN
    BY FlowInputsAssumption DEF FlowInv, Fit
  <1> QED
    BY <1>1, GetNextImmediateKeeps

LEMMA WorkersKeep ==
    ASSUME FlowInv, NEW e \in Ends,
           SerialCompleteWrite(e) \/ SerialCompleteImmediate(e)
             \/ SerialStartTimerLowerRTS(e) \/ SerialInvokePerhapsLowerRTS(e)
    PROVE  FlowInv'
  <1> DEFINE p == port[e]
  <1>1. p \in Port /\ Fit(p, phase[e]) /\ phase[e] \in PHASES
    BY DEF FlowInv, Fit, TypeOK
  <1>2. CASE SerialCompleteWrite(e)
    <2>1. PICK length \in Retrieved(e), emptied \in BOOLEAN :
            port' = Connected(e, SerialGetNextWrite(p, length, emptied /\ WatchesEmpty[e]))
      BY <1>2 DEF SerialCompleteWrite, Update
    <2>2. Uncounted /\ phase[e] \notin Closing
      BY <1>1, <1>2 DEF SerialCompleteWrite, Fit, Idle, Uncounted
    <2> QED
      BY <2>1, <2>2, NextWriteFits, AwakeUpdate DEF FlowInv, TypeOK, Uncounted, Counts
  <1>3. CASE SerialCompleteImmediate(e)
    <2>1. PICK emptied \in BOOLEAN :
            port' = Connected(e, SerialGetNextImmediate(p, emptied /\ WatchesEmpty[e]))
      BY <1>3 DEF SerialCompleteImmediate, Update
    <2>2. Uncounted /\ phase[e] \notin Closing
      BY <1>1, <1>3 DEF SerialCompleteImmediate, Fit, Idle, Uncounted
    <2> QED
      BY <2>1, <2>2, NextImmediateFits, AwakeUpdate DEF FlowInv, TypeOK, Uncounted, Counts
  <1>4. CASE SerialStartTimerLowerRTS(e)
    <2> DEFINE new == SerialStartTimer([p EXCEPT !.dpc = FALSE])
    <2>1. p.dpc /\ port' = Connected(e, new) /\ Uncounted
      BY <1>4 DEF SerialStartTimerLowerRTS, Update, Uncounted
    <2>2. Keeps(p, new) /\ SameWork(p, new) /\ AtRest(p, new)
      BY <1>1, <2>1, StartTimerKeeps
    <2> HIDE DEF new
    <2>3. Fit(new, phase[e])
      BY <1>1, <2>1, <2>2, AwakeFits DEF Fit, Keeps, SameWork, Idle, NoPath, Closing
    <2> QED
      BY <2>1, <2>3, OnePort DEF FlowInv, TypeOK, Uncounted, Counts
  <1>5. CASE SerialInvokePerhapsLowerRTS(e)
    <2> DEFINE ran == [p EXCEPT !.fired = FALSE]
               new == SerialPerhapsLowerRTS(ran)
    <2>1. p.fired /\ port' = Connected(e, new) /\ Uncounted
      BY <1>5 DEF SerialInvokePerhapsLowerRTS, Update, Uncounted
    <2>2. ran \in Port
      BY <1>1 DEF Port
    <2>3. ran.count = Paths(ran) + 1
      BY <1>1, <2>1 DEF Port, Fit, Exact, Paths
    <2>4. (Covered(p) => Covered(ran)) /\ SameWork(p, ran) /\ AtRest(p, ran)
      BY <1>1 DEF Port, Covered, Toggles, HardwareEmpty, SameWork, AtRest
    <2> HIDE DEF ran
    <2>5. new \in Port /\ Exact(new) /\ (Covered(ran) => Covered(new)) /\ SameWork(ran, new)
          /\ AtRest(ran, new)
      BY <2>2, <2>3, PerhapsKeeps, PerhapsSameWork, PerhapsAtRest
    <2> HIDE DEF new
    <2>6. SameWork(p, new) /\ AtRest(p, new) /\ (Covered(p) => Covered(new))
      BY <2>4, <2>5 DEF SameWork, AtRest
    <2>7. CoveredAwake(p) => CoveredAwake(new)
      BY <2>6 DEF AtRest, CoveredAwake, Toggles, HardwareEmpty
    <2>8. Fit(new, phase[e])
      BY <1>1, <2>1, <2>5, <2>6, <2>7 DEF Fit, SameWork, Idle, NoPath
    <2> QED
      BY <2>1, <2>8, OnePort DEF FlowInv, TypeOK, Uncounted, Counts
  <1> QED
    BY <1>2, <1>3, <1>4, <1>5

\* A request is made of an open port, and its routine keeps the port fit.
LEMMA AskedKeeps ==
    ASSUME FlowInv, NEW e \in Ends, NEW kind \in KINDS, Ask(e, kind),
           NEW new, port' = Connected(e, new), Keeps(port[e], new)
    PROVE  FlowInv'
  <1>1. phase[e] = "open" /\ phase' = phase
        /\ requested' = [requested EXCEPT ![e] = @ + 1] /\ events' = events + 1
    BY DEF Ask, Asked, Counted
  <1>2. Counts
    BY <1>1 DEF FlowInv, TypeOK, Counts
  <1> QED
    BY <1>1, <1>2, AwakeUpdate DEF Closing

\* What ends a request may come while the system sleeps.
LEMMA EndedKeeps ==
    ASSUME FlowInv, NEW e \in Ends, End(e), NEW new, port' = Connected(e, new),
           Keeps(port[e], new), phase[e] = "asleep" => AtRest(port[e], new)
    PROVE  FlowInv'
  <1>1. phase[e] \notin Closing /\ phase' = phase
        /\ requested' = [requested EXCEPT ![e] = @ + 1] /\ events' = events + 1
    BY DEF End, Asked, Counted
  <1>2. Counts
    BY <1>1 DEF FlowInv, TypeOK, Counts
  <1> QED
    BY <1>1, <1>2, AwakeUpdate

LEMMA ReadsKeep ==
    ASSUME FlowInv, NEW e \in Ends, Read(e) \/ ReadWaits(e) PROVE FlowInv'
  <1> DEFINE p == port[e]
  <1>1. p \in Port
    BY DEF FlowInv, Fit
  <1>2. CASE Read(e)
    <2>1. PICK taken \in 1 .. p.Chars :
            port' = Connected(e, SerialHandleReducedIntBuffer([p EXCEPT !.Chars = @ - taken]))
      BY <1>2 DEF Read, Update
    <2> DEFINE new == [p EXCEPT !.Chars = p.Chars - taken]
    <2>2. p.Chars - taken \in Nat
      BY <1>1 DEF Port
    <2>3. new \in Port /\ Steady(p, new)
      BY <1>1, <2>2 DEF Port, Steady, AtRest
    <2>4. port' = Connected(e, SerialHandleReducedIntBuffer(new))
      BY <2>1
    <2> HIDE DEF new
    <2>5. Keeps(p, SerialHandleReducedIntBuffer(new))
      BY <2>3, SteadyKeeps, ReducedKeeps, KeepsTransitive
    <2> QED
      BY <1>2, <2>4, <2>5, AwakeUpdate DEF Read, FlowInv, TypeOK, Counts, Closing
  <1>3. CASE ReadWaits(e)
    <2> DEFINE new == [p EXCEPT !.userBuffer = TRUE]
    <2>1. Keeps(p, new)
      <3>1. Steady(p, new)
        BY <1>1 DEF Port, Steady, AtRest
      <3> QED
        BY <3>1, SteadyKeeps
    <2>2. port' = Connected(e, new) /\ phase[e] = "open" /\ Uncounted
      BY <1>3 DEF ReadWaits, Update, Uncounted
    <2> HIDE DEF new
    <2> QED
      BY <2>1, <2>2, AwakeUpdate DEF FlowInv, TypeOK, Uncounted, Counts, Closing
  <1> QED
    BY <1>2, <1>3

LEMMA WritesKeep ==
    ASSUME FlowInv, NEW e \in Ends,
           Write(e) \/ Immediate(e) \/ EndWrite(e) \/ EndImmediate(e)
    PROVE  FlowInv'
  <1> DEFINE p == port[e]
  <1>1. p \in Port /\ Lengths \subseteq Nat
    BY FlowInputsAssumption DEF FlowInv, Fit
  <1> USE DEF KINDS
  <1>2. CASE Write(e)
    <2> DEFINE queued == [p EXCEPT !.queued = p.queued + 1]
    <2>1. CASE p.CurrentWrite \/ p.queued > 0
      <3>1. port' = Connected(e, queued)
        BY <1>2, <2>1 DEF Write, Update
      <3>2. p.queued + 1 \in Nat
        BY <1>1 DEF Port
      <3>3. Keeps(p, queued)
        BY <1>1, <3>2, SteadyKeeps DEF Port, Steady, AtRest
      <3> HIDE DEF queued
      <3> QED
        BY <1>2, <3>1, <3>3, AskedKeeps DEF Write
    <2>2. CASE ~(p.CurrentWrite \/ p.queued > 0)
      <3>1. PICK length \in Lengths : Update(e, SerialStartWrite(p, length))
        BY <1>2, <2>2 DEF Write
      <3>2. Keeps(p, SerialStartWrite(p, length))
        BY <1>1, StartWriteKeeps
      <3> QED
        BY <1>2, <3>1, <3>2, AskedKeeps DEF Write, Update
    <2> QED
      BY <2>1, <2>2
  <1>3. CASE Immediate(e)
    <2>1. port' = Connected(e, SerialGiveImmediateToIsr(p))
      BY <1>3 DEF Immediate, Update
    <2>2. Keeps(p, SerialGiveImmediateToIsr(p))
      BY <1>1, GiveImmediateSteady, SteadyKeeps
    <2> QED
      BY <1>3, <2>1, <2>2, AskedKeeps DEF Immediate
  <1>4. CASE EndWrite(e)
    <2>1. PICK length \in Retrieved(e), emptied \in BOOLEAN :
            port' = Connected(e, SerialGetNextWrite(p, length, emptied /\ WatchesEmpty[e]))
      BY <1>4 DEF EndWrite, Update
    <2> QED
      BY <1>4, <2>1, NextWriteFits, EndedKeeps DEF EndWrite
  <1>5. CASE EndImmediate(e)
    <2>1. PICK emptied \in BOOLEAN :
            port' = Connected(e, SerialGetNextImmediate(p, emptied /\ WatchesEmpty[e]))
      BY <1>5 DEF EndImmediate, Update
    <2> QED
      BY <1>5, <2>1, NextImmediateFits, EndedKeeps DEF EndImmediate
  <1> QED
    BY <1>2, <1>3, <1>4, <1>5

LEMMA ControlsKeep ==
    ASSUME FlowInv, NEW e \in Ends,
           \/ SetXoff(e) \/ SetXon(e) \/ SetBreakOn(e) \/ SetBreakOff(e)
           \/ SetModemLine(e) \/ SetHandFlow(e)
    PROVE  FlowInv'
  <1> DEFINE p == port[e]
  <1>1. p \in Port /\ Fit(p, phase[e])
    BY DEF FlowInv, Fit
  <1> USE DEF KINDS
  <1>2. CASE SetXoff(e)
    BY <1>1, <1>2, PretendXoffKeeps, AskedKeeps DEF SetXoff, Update
  <1>3. CASE SetXon(e)
    BY <1>1, <1>3, PretendXonKeeps, AskedKeeps DEF SetXon, Update
  <1>4. CASE SetBreakOn(e)
    BY <1>1, <1>4, TurnOnBreakKeeps, AskedKeeps DEF SetBreakOn, Update
  <1>5. CASE SetBreakOff(e)
    BY <1>1, <1>5, TurnOffBreakKeeps, AskedKeeps DEF SetBreakOff, Update
  <1>6. CASE SetModemLine(e)
    <2>1. PICK line \in {"RTS", "DTR"} :
            /\ p.hf[line] \notin {"handshake", "toggle"}
            /\ port' = Connected(e, Raise(p, line)) \/ port' = Connected(e, Lower(p, line))
      BY <1>6 DEF SetModemLine, Update
    <2>2. Keeps(p, Raise(p, line))
      BY <1>1, RaiseKeeps
    <2>3. Keeps(p, Lower(p, line))
      BY <1>1, <2>1 DEF Port, Lower, Keeps, Exact, Paths, Covered, Toggles, HardwareEmpty
    <2> QED
      BY <1>6, <2>1, <2>2, <2>3, AskedKeeps DEF SetModemLine
  <1>7. CASE SetHandFlow(e)
    <2>1. PICK new \in HandFlows[e] :
            port' = Connected(e, SerialSetHandFlow(p, new, Inputs(e)))
      BY <1>7 DEF SetHandFlow, Update
    <2>2. new \in HandFlow /\ Covered(p)
      BY <1>1, <1>7, FlowInputsAssumption DEF SetHandFlow, Ask, Fit
    <2>3. Keeps(p, SerialSetHandFlow(p, new, Inputs(e)))
      BY <1>1, <2>2, InputsType, SetHandFlowKeeps
    <2> QED
      BY <1>7, <2>1, <2>3, AskedKeeps DEF SetHandFlow
  <1> QED
    BY <1>2, <1>3, <1>4, <1>5, <1>6, <1>7

LEMMA CloseKeeps ==
    ASSUME FlowInv, NEW e \in Ends,
           SerialFileCloseWorker(e) \/ SerialMarkClose(e) \/ DropDTR(e) \/ DropRTS(e)
    PROVE  FlowInv'
  <1> DEFINE p == port[e]
  <1>1. p \in Port /\ Fit(p, phase[e]) /\ phase \in [Ends -> PHASES]
    BY DEF FlowInv, Fit, TypeOK
  <1>2. requested \in [Ends -> Nat] /\ events \in Nat
    BY DEF FlowInv, TypeOK
  <1> USE DEF PHASES, Sleeping, Closing, Counts
  <1>3. CASE SerialFileCloseWorker(e)
    <2> DEFINE ended == [p EXCEPT !.userBuffer = FALSE]
               new == SerialTurnOffBreak(ended)
    <2>1. /\ phase[e] = "open" /\ phase' = [phase EXCEPT ![e] = "flushing"]
          /\ requested' = requested /\ events' \in Nat /\ ~p.CurrentWrite /\ p.immediate = "no"
          /\ port' = Connected(e, new)
      BY <1>2, <1>3 DEF SerialFileCloseWorker, Stop, Turn, Counted, Update
    <2>2. Steady(p, ended) /\ ended \in Port /\ SameWork(p, ended)
      BY <1>1 DEF Port, Steady, AtRest, SameWork
    <2> HIDE DEF ended
    <2>3. Keeps(p, new) /\ SameWork(ended, new)
      BY <2>2, SteadyKeeps, TurnOffBreakKeeps, KeepsTransitive
    <2> HIDE DEF new
    <2>4. Fit(new, "flushing")
      BY <1>1, <2>1, <2>2, <2>3 DEF Fit, Keeps, SameWork, Idle
    <2> QED
      BY <1>1, <1>2, <2>1, <2>4, OnePort
  <1>4. CASE SerialMarkClose(e)
    <2> DEFINE marked == [p EXCEPT !.thri = FALSE, !.msi = FALSE, !.rbr = "none"]
               new == IF OwesXon(p) THEN [marked EXCEPT !.thr = "XON"] ELSE marked
    <2>1. /\ phase[e] = "flushing" /\ phase' = [phase EXCEPT ![e] = "marked"]
          /\ requested' = requested /\ events' = events /\ port' = Connected(e, new)
      BY <1>4 DEF SerialMarkClose, Enter, Turn, Update
    <2>2. marked \in Port /\ Exact(marked) /\ Idle(marked)
      BY <1>1, <2>1 DEF Port, Fit, Exact, Paths, Idle
    <2> HIDE DEF marked
    <2>3. new \in Port /\ Exact(new) /\ Idle(new)
      BY <2>2 DEF Port, Exact, Paths, Idle
    <2> HIDE DEF new
    <2>4. Fit(new, "marked")
      BY <2>3 DEF Fit
    <2> QED
      BY <1>1, <1>2, <2>1, <2>4, OnePort
  <1>5. CASE DropDTR(e)
    <2> DEFINE new == Lower(p, "DTR")
    <2>1. /\ phase[e] = "marked" /\ phase' = [phase EXCEPT ![e] = "drained"]
          /\ requested' = requested /\ events' = events /\ port' = Connected(e, new)
      BY <1>5 DEF DropDTR, Enter, Turn, Update
    <2>2. new \in Port /\ Exact(new) /\ Idle(new)
      BY <1>1, <2>1 DEF Port, Lower, Fit, Exact, Paths, Idle
    <2> HIDE DEF new
    <2>3. Fit(new, "drained")
      BY <2>2 DEF Fit
    <2> QED
      BY <1>1, <1>2, <2>1, <2>3, OnePort
  <1>6. CASE DropRTS(e)
    <2> DEFINE low == Lower(p, "RTS")
               new == [low EXCEPT !.RXHolding = {}, !.TXHolding = {}]
    <2>1. /\ phase[e] = "drained" /\ phase' = [phase EXCEPT ![e] = "closed"]
          /\ requested' = requested /\ events' = events /\ port' = Connected(e, new)
          /\ p.count = 0
      BY <1>6 DEF DropRTS, NoneLeft, Enter, Turn, Update
    <2>2. NoPath(p)
      BY <1>1, <2>1 DEF Port, Fit, Exact, Paths, NoPath
    <2>3. low \in Port /\ Exact(low) /\ Idle(low) /\ NoPath(low)
      BY <1>1, <2>1, <2>2 DEF Port, Lower, Fit, Exact, Paths, Idle, NoPath
    <2> HIDE DEF low
    <2>4. new \in Port /\ Exact(new) /\ Idle(new) /\ NoPath(new)
      BY <2>3 DEF Port, Exact, Paths, Idle, NoPath
    <2> HIDE DEF new
    <2>5. Fit(new, "closed")
      BY <2>4 DEF Fit
    <2> QED
      BY <1>1, <1>2, <2>1, <2>5, OnePort
  <1> QED
    BY <1>3, <1>4, <1>5, <1>6

\* A closed port has no path left, so that the count an open finds is zero.
LEMMA ReopenKeeps ==
    ASSUME FlowInv, NEW e \in Ends, SerialDeviceFileCreateWorker(e) PROVE FlowInv'
  <1> DEFINE p == port[e]
             fresh == [p EXCEPT !.Chars = 0, !.send = "none", !.told = "XON"]
             new == SerialReset(fresh, Inputs(e))
  <1>1. /\ phase[e] = "closed" /\ phase' = [phase EXCEPT ![e] = "open"] /\ Counts
        /\ port' = Connected(e, new)
    BY DEF SerialDeviceFileCreateWorker, Enter, Turn, Update, FlowInv, TypeOK, Counts
  <1>2. fresh \in Port /\ Exact(fresh)
    <2>1. p \in Port /\ Exact(p)
      BY DEF FlowInv, Fit
    <2> QED
      BY <2>1 DEF Port, Exact, Paths
  <1> HIDE DEF fresh
  <1>3. Fit(new, "open")
    BY <1>2, ResetKeeps, InputsType DEF Fit, Closing
  <1> HIDE DEF new
  <1>4. phase \in [Ends -> PHASES]
    BY DEF FlowInv, TypeOK
  <1>5. phase' \in [Ends -> PHASES] /\ phase'[e] = "open"
        /\ \A o \in Ends \ {e} : phase'[o] = phase[o]
    BY <1>1, <1>4 DEF PHASES
  <1> QED
    BY <1>1, <1>3, <1>5, OnePort

LEMMA SuspendKeeps ==
    ASSUME FlowInv, NEW e \in Ends,
           \/ SerialEvtIoStop(e) \/ SerialEvtDeviceD0Exit(e)
           \/ SerialSaveDeviceState(e) \/ SerialEvtDeviceD0Entry(e)
    PROVE  FlowInv'
  <1> DEFINE p == port[e]
  <1>1. p \in Port /\ Fit(p, phase[e]) /\ phase \in [Ends -> PHASES]
    BY DEF FlowInv, Fit, TypeOK
  <1>2. requested \in [Ends -> Nat] /\ events \in Nat
    BY DEF FlowInv, TypeOK
  <1> USE DEF PHASES, Sleeping, Closing
  <1>3. CASE SerialEvtIoStop(e)
    <2>1. /\ phase[e] = "open" /\ phase' = [phase EXCEPT ![e] = "stopping"]
          /\ Counts /\ port' = port
      BY <1>2, <1>3 DEF SerialEvtIoStop, Stop, Turn, Counted, Counts
    <2>2. Fit(p, "stopping")
      BY <1>1, <2>1 DEF Fit
    <2> QED
      BY <1>1, <2>1, <2>2 DEF FlowInv, TypeOK, Counts
  <1>4. CASE SerialEvtDeviceD0Exit(e)
    <2>1. /\ phase[e] = "stopping" /\ phase' = [phase EXCEPT ![e] = "draining"]
          /\ Counts /\ port' = Connected(e, p)
      BY <1>2, <1>4 DEF SerialEvtDeviceD0Exit, Enter, Turn, Update, Counts
    <2>2. Fit(p, "draining")
      BY <1>1, <2>1 DEF Fit
    <2> QED
      BY <1>1, <2>1, <2>2, OnePort
  <1>5. CASE SerialSaveDeviceState(e)
    <2> DEFINE new == PoweredDown(p)
    <2>1. /\ phase[e] = "draining" /\ phase' = [phase EXCEPT ![e] = "asleep"]
          /\ Counts /\ port' = Connected(e, new)
      BY <1>2, <1>5 DEF SerialSaveDeviceState, Enter, Turn, Update, Counts
    <2>2. new \in Port /\ Exact(new)
      BY <1>1 DEF Port, PoweredDown, Fit, Exact, Paths
    <2>3. CoveredAwake(new)
      BY <1>1, <2>1 DEF Port, PoweredDown, Fit, Covered, CoveredAwake, Toggles,
                        HardwareEmpty
    <2> HIDE DEF new
    <2>4. Fit(new, "asleep")
      BY <2>2, <2>3 DEF Fit
    <2> QED
      BY <1>1, <2>1, <2>4, OnePort
  <1>6. CASE SerialEvtDeviceD0Entry(e)
    <2> DEFINE poked == Poke(p)
               new == [poked EXCEPT !.lines = p.saved, !.saved = {}, !.msi = FALSE,
                                    !.told = "XON"]
    <2>1. /\ phase[e] = "asleep" /\ phase' = [phase EXCEPT ![e] = "open"]
          /\ Counts /\ port' = Connected(e, new)
      BY <1>2, <1>6 DEF SerialEvtDeviceD0Entry, PoweredUp, Enter, Turn, Update, Counts
    <2>2. poked \in Port /\ Steady(p, poked)
      BY <1>1, PokeSteady DEF Steady
    <2> HIDE DEF poked
    <2>3. new \in Port
      BY <1>1, <2>2 DEF Port
    <2>4. Exact(poked)
      BY <1>1, <2>2 DEF Steady, Fit, Exact, Paths
    <2>5. Exact(new)
      BY <2>2, <2>4 DEF Port, Exact, Paths
    <2>6. Covered(new)
      BY <1>1, <2>1, <2>2 DEF Port, Steady, AtRest, Fit, Covered, CoveredAwake, Toggles,
                              HardwareEmpty
    <2> HIDE DEF new
    <2>7. Fit(new, "open")
      BY <2>3, <2>5, <2>6 DEF Fit
    <2> QED
      BY <1>1, <2>1, <2>7, OnePort
  <1> QED
    BY <1>3, <1>4, <1>5, <1>6

LEMMA InitKeeps == Init => FlowInv
  <1> SUFFICES ASSUME Init PROVE FlowInv
    OBVIOUS
  <1>1. PICK hf \in [Ends -> HandFlow] :
          port = [e \in Ends |-> Opened(hf[e],
                     {line \in OutLines : Wire(line) \in Up(hf[Peer[e]])})]
    BY DEF Init
  <1>2. ASSUME NEW h \in HandFlow, NEW inputs \in SUBSET OutLines
        PROVE  Opened(h, inputs) \in Port /\ Fit(Opened(h, inputs), "open")
    <2> DEFINE p == Opened(h, inputs)
    <2>1. h.out \ inputs \in SUBSET (OutLines \cup {"XOFF", "BREAK"})
          /\ Up(h) \in SUBSET {"RTS", "DTR"}
      BY DEF HandFlow, Up
    <2>2. p \in Port
      BY <2>1 DEF Opened, Port, Holds
    <2>3. Exact(p)
      BY DEF Opened, Exact, Paths
    <2>4. Covered(p)
      BY DEF Opened, Covered, HardwareEmpty, HandFlow, OutLines
    <2> QED
      BY <2>2, <2>3, <2>4 DEF Fit, Closing
  <1>3. \A e \in Ends : Fit(port[e], "open") /\ port[e] \in Port
    BY <1>1, <1>2
  <1> QED
    BY <1>1, <1>3 DEF Init, FlowInv, TypeOK, PHASES, Closing, Fit

LEMMA NextKeeps == FlowInv /\ [Next]_vars => FlowInv'
  <1> SUFFICES ASSUME FlowInv, [Next]_vars PROVE FlowInv'
    OBVIOUS
  <1>1. CASE Next
    BY <1>1, InterruptKeeps, HardwareKeeps, WorkersKeep, ReadsKeep, WritesKeep,
       ControlsKeep, CloseKeeps, ReopenKeeps, SuspendKeeps DEF Next
  <1>2. CASE UNCHANGED vars
    BY <1>2 DEF vars, FlowInv, TypeOK, Fit
  <1> QED
    BY <1>1, <1>2

-------------------------------------------------------------------------------
(* Handshaking with RTS: what a port has room for, and what is on its way to it. *)

\* As a receiver, the port has no less room, and has not asked for more.
SameRoom(p, q) ==
    /\ q.hf = p.hf /\ q.saved = p.saved /\ q.rbr = p.rbr /\ q.Chars = p.Chars
    /\ "RTS" \in q.RXHolding => "RTS" \in p.RXHolding
    /\ p.hf.RTS = "handshake" /\ "RTS" \in q.lines => "RTS" \in p.lines

\* As a sender, it has the same in its hardware.
SameSent(p, q) == q.thr = p.thr /\ q.tsr = p.tsr

\* The transmit interrupt is asked for only when the holding register is empty.
Unasked(p) == p.thri => p.thr = "none"

\* It has heard the same of the other end.
SameHeard(p, q) == q.told = p.told /\ (Unasked(p) => Unasked(q))

\* It has asked the other end to stop, or is about to, just as before.
SameAsked(p, q) ==
    /\ "XOFF" \in q.RXHolding <=> "XOFF" \in p.RXHolding
    /\ q.send = "XOFF" => p.send = "XOFF"

Mild(p, q) == SameRoom(p, q) /\ SameSent(p, q) /\ SameHeard(p, q)
Calm(p, q) == Mild(p, q) /\ SameAsked(p, q)

LEMMA MildTransitive ==
    ASSUME NEW p, NEW q, NEW r, Mild(p, q), Mild(q, r) PROVE Mild(p, r)
  BY DEF Mild, SameRoom, SameSent, SameHeard

LEMMA CalmTransitive ==
    ASSUME NEW p, NEW q, NEW r, Calm(p, q), Calm(q, r) PROVE Calm(p, r)
  BY MildTransitive DEF Calm, SameAsked

LEMMA CalmReflexive == ASSUME NEW p PROVE Calm(p, p) /\ Mild(p, p)
  BY DEF Calm, Mild, SameRoom, SameSent, SameHeard, SameAsked

LEMMA LineStatusCalm == ASSUME NEW p \in Port PROVE Calm(p, LineStatus(p))
  BY DEF Port, LineStatus, Calm, Mild, SameRoom, SameSent, SameHeard, Unasked, SameAsked

LEMMA PokeCalm == ASSUME NEW p \in Port PROVE Calm(p, Poke(p))
  BY DEF Port, Poke, Calm, Mild, SameRoom, SameSent, SameHeard, Unasked, SameAsked

LEMMA ResumeCalm == ASSUME NEW p \in Port PROVE Calm(p, Resume(p))
  BY PokeCalm, CalmReflexive DEF Resume

LEMMA ProdMild ==
    ASSUME NEW p \in Port, NEW char \in {"XON", "XOFF"}
    PROVE  Mild(p, SerialProdXonXoff(p, char))
  BY DEF Port, SerialProdXonXoff, Poke, Mild, SameRoom, SameSent, SameHeard, Unasked

LEMMA ProdCalm == ASSUME NEW p \in Port PROVE Calm(p, SerialProdXonXoff(p, "XON"))
  BY ProdMild DEF Port, SerialProdXonXoff, Poke, Calm, SameAsked

LEMMA RaiseCalm ==
    ASSUME NEW p \in Port, NEW line \in {"RTS", "DTR"},
           line = "DTR" \/ p.hf.RTS # "handshake"
    PROVE  Calm(p, Raise(p, line))
  BY DEF Port, Raise, Calm, Mild, SameRoom, SameSent, SameHeard, Unasked, SameAsked

LEMMA LowerCalm ==
    ASSUME NEW p \in Port, NEW line \in {"RTS", "DTR"} PROVE Calm(p, Lower(p, line))
  BY DEF Port, Lower, Calm, Mild, SameRoom, SameSent, SameHeard, Unasked, SameAsked

LEMMA InsertDpcCalm == ASSUME NEW p \in Port PROVE Calm(p, InsertDpc(p))
  BY DEF Port, InsertDpc, Calm, Mild, SameRoom, SameSent, SameHeard, Unasked, SameAsked

LEMMA PerhapsCalm == ASSUME NEW p \in Port PROVE Calm(p, SerialPerhapsLowerRTS(p))
  BY DEF Port, SerialPerhapsLowerRTS, LoweredRTS, Lower, LineStatus, InsertDpc,
         Calm, Mild, SameRoom, SameSent, SameHeard, Unasked, SameAsked

LEMMA TryCalm == ASSUME NEW p \in Port PROVE Calm(p, TryToLowerRTS(p))
  <1> DEFINE q == [p EXCEPT !.count = p.count + 1]
  <1>1. q \in Port
    <2>1. p.count + 1 \in Int
      BY DEF Port
    <2> QED
      BY <2>1 DEF Port
  <1>2. Calm(p, q)
    BY DEF Port, Calm, Mild, SameRoom, SameSent, SameHeard, Unasked, SameAsked
  <1> HIDE DEF q
  <1>3. TryToLowerRTS(p) = SerialPerhapsLowerRTS(q)
    BY DEF TryToLowerRTS, q
  <1> QED
    BY <1>1, <1>2, <1>3, PerhapsCalm, CalmTransitive

\* A line of the handshake that is down holds transmission up.
LEMMA ModemUpdateCalm ==
    ASSUME NEW p \in Port, NEW inputs \in SUBSET OutLines, NEW DoingTX \in BOOLEAN
    PROVE  LET q == SerialHandleModemUpdate(p, inputs, DoingTX)
           IN Calm(p, q) /\ (DoingTX => p.hf.out \ inputs \subseteq q.TXHolding)
  <1> DEFINE held == (p.TXHolding \ OutLines) \cup (p.hf.out \ inputs)
             read == [p EXCEPT
                 !.msi = FALSE,
                 !.RXHolding = IF p.hf.sensitive /\ "DSR" \notin inputs
                                 THEN @ \cup {"DSR"} ELSE @ \ {"DSR"},
                 !.TXHolding = held]
             toggled == IF p.TXHolding = {} /\ held # {} /\ Toggles(p)
                          THEN InsertDpc(read) ELSE read
  <1>1. held \in SUBSET (OutLines \cup {"XOFF", "BREAK"}) /\ p.hf.out \ inputs \subseteq held
    BY DEF Port, HandFlow
  <1>2. read \in Port /\ read.TXHolding = held /\ Calm(p, read)
    <2> HIDE DEF held
    <2>1. read \in Port /\ read.TXHolding = held
      BY <1>1 DEF Port, Holds
    <2>2. Calm(p, read)
      BY DEF Port, Calm, Mild, SameRoom, SameSent, SameHeard, Unasked, SameAsked
    <2> QED
      BY <2>1, <2>2
  <1> HIDE DEF read, held
  <1>3. toggled \in Port /\ Calm(p, toggled) /\ toggled.TXHolding = held
    <2>1. InsertDpc(read) \in Port
      BY <1>2, InsertDpcKeeps DEF Keeps
    <2>2. InsertDpc(read).TXHolding = read.TXHolding
      BY <1>2 DEF Port, InsertDpc
    <2> QED
      BY <1>2, <2>1, <2>2, InsertDpcCalm, CalmTransitive
  <1>4. SerialHandleModemUpdate(p, inputs, DoingTX)
          = IF ~DoingTX /\ p.TXHolding # {} THEN Resume(toggled) ELSE toggled
    BY DEF SerialHandleModemUpdate, toggled, read, held
  <1> HIDE DEF toggled
  <1>5. Calm(p, Resume(toggled))
    BY <1>3, ResumeCalm, CalmTransitive
  <1> QED
    BY <1>1, <1>3, <1>4, <1>5

\* What the holding register is given is all that sending changes.
Sends(p, q) == SameRoom(p, q) /\ q.tsr = p.tsr

LEMMA SendSends ==
    ASSUME NEW p \in Port, NEW char \in {"data", "XON", "XOFF"}
    PROVE  Sends(p, Send(p, char))
  <1> DEFINE sent == [p EXCEPT !.thr = char, !.HoldingEmpty = FALSE, !.thri = FALSE]
             raised == Raise(sent, "RTS")
  <1>1. sent \in Port /\ Sends(p, sent) /\ sent.hf = p.hf
    BY DEF Port, Sends, SameRoom
  <1>2. Send(p, char) = IF Toggles(p) THEN InsertDpc(raised) ELSE sent
    BY DEF Send
  <1> HIDE DEF sent
  <1>3. CASE Toggles(p)
    <2>1. raised \in Port
      BY <1>1, RaiseKeeps DEF Keeps
    <2>2. Calm(sent, raised)
      BY <1>1, <1>3, RaiseCalm DEF Toggles
    <2> HIDE DEF raised
    <2>3. Calm(sent, InsertDpc(raised))
      BY <2>1, <2>2, InsertDpcCalm, CalmTransitive
    <2> QED
      BY <1>1, <1>2, <1>3, <2>3 DEF Calm, Mild, Sends, SameRoom, SameSent
  <1>4. CASE ~Toggles(p)
    BY <1>1, <1>2, <1>4
  <1> QED
    BY <1>3, <1>4

LEMMA SendsMild ==
    ASSUME NEW p, NEW q, NEW r, Sends(p, q), Mild(q, r) PROVE Sends(p, r)
  BY DEF Sends, Mild, SameRoom, SameSent

LEMMA SentXoffSends == ASSUME NEW p \in Port PROVE Sends(p, SentXoff(p))
  <1> DEFINE s == Send(p, "XOFF")
             sent == [s EXCEPT !.send = "none"]
             held == [sent EXCEPT !.TXHolding = {"XOFF"}]
  <1>1. SentXoff(p) = IF p.hf.xoffContinue THEN sent
                      ELSE IF Toggles(p) THEN InsertDpc(held) ELSE held
    BY DEF SentXoff
  <1>2. s \in Port /\ Sends(p, s)
    BY SendKeeps, SendSends
  <1> HIDE DEF s
  <1>3. sent \in Port /\ Calm(s, sent)
    BY <1>2 DEF Port, Calm, Mild, SameRoom, SameSent, SameHeard, Unasked, SameAsked
  <1> HIDE DEF sent
  <1>4. held \in Port /\ Calm(sent, held)
    BY <1>3 DEF Port, Calm, Mild, SameRoom, SameSent, SameHeard, Unasked, SameAsked
  <1> HIDE DEF held
  <1>5. Calm(s, held) /\ Calm(s, InsertDpc(held))
    BY <1>3, <1>4, InsertDpcCalm, CalmTransitive
  <1> QED
    BY <1>1, <1>2, <1>3, <1>5, SendsMild DEF Calm

LEMMA SendNextSends ==
    ASSUME NEW p \in Port
    PROVE  /\ Sends(p, SendNext(p))
           /\ "CTS" \in p.TXHolding => SendNext(p) = p
           /\ p.WriteLength = 0 /\ ~TransmitImmediate(p) /\ p.send = "none" => SendNext(p) = p
  <1> DEFINE x == Send(p, "XON")
             d == Send(p, "data")
             xon == [x EXCEPT !.send = "none", !.TXHolding = {}, !.RXHolding = @ \ {"XOFF"}]
             sent == [d EXCEPT !.immediate = "sent"]
             written == [d EXCEPT !.WriteLength = d.WriteLength - 1]
  <1>1. x \in Port /\ Sends(p, x) /\ d \in Port /\ Sends(p, d)
    BY SendKeeps, SendSends
  <1>2. d.WriteLength = p.WriteLength
    BY DEF Send, Port, Raise, InsertDpc
  <1>3. SendNext(p) =
          IF p.send = "XON" /\ p.TXHolding \subseteq {"XOFF"} THEN xon
          ELSE IF p.send = "XOFF" /\ p.TXHolding = {} THEN SentXoff(p)
          ELSE IF TransmitImmediate(p) /\ p.TXHolding \subseteq {"XOFF"} THEN sent
          ELSE IF p.TXHolding = {} /\ p.WriteLength > 0 THEN written
          ELSE p
    BY <1>2 DEF SendNext, x, d
  <1> HIDE DEF x, d
  <1>4. Mild(x, xon) /\ Mild(d, sent) /\ Mild(d, written)
    BY <1>1 DEF Port, Mild, SameRoom, SameSent, SameHeard, Unasked
  <1> HIDE DEF xon, sent, written
  <1>5. Sends(p, xon) /\ Sends(p, sent) /\ Sends(p, written)
    BY <1>1, <1>4, SendsMild
  <1>6. Sends(p, SendNext(p))
    BY <1>3, <1>5, SentXoffSends DEF Sends, SameRoom
  <1>7. "CTS" \in p.TXHolding => SendNext(p) = p
    BY <1>3
  <1>8. p.WriteLength = 0 /\ ~TransmitImmediate(p) /\ p.send = "none" => SendNext(p) = p
    BY <1>3
  <1> QED
    BY <1>6, <1>7, <1>8

\* A sender that obeys CTS gives its hardware nothing while CTS is down.
LEMMA ObeysCTS ==
    ASSUME NEW p \in Port, NEW inputs \in SUBSET OutLines
    PROVE  LET q == SendNext(ReadyToSend(p, inputs))
           IN Sends(p, q) /\ ("CTS" \in p.hf.out \ inputs => SameSent(p, q))
  <1> DEFINE empty == [p EXCEPT !.thri = FALSE, !.HoldingEmpty = TRUE]
             seen == SerialHandleModemUpdate(empty, inputs, TRUE)
  <1>1. /\ empty \in Port /\ Calm(p, empty) /\ empty.hf = p.hf
        /\ empty.WriteLength = p.WriteLength /\ empty.immediate = p.immediate
        /\ empty.send = p.send
    BY DEF Port, Calm, Mild, SameRoom, SameSent, SameHeard, Unasked, SameAsked
  <1>2. ReadyToSend(p, inputs) =
          IF (p.WriteLength = 0 /\ ~TransmitImmediate(p) /\ p.send = "none") \/ p.hf.out = {}
            THEN empty ELSE seen
    BY DEF ReadyToSend
  <1> HIDE DEF empty
  <1>3. seen \in Port /\ Calm(empty, seen)
        /\ ("CTS" \in p.hf.out \ inputs => "CTS" \in seen.TXHolding)
    BY <1>1, ModemUpdateCalm, ModemUpdateKeeps DEF Keeps
  <1> HIDE DEF seen
  <1>4. CASE (p.WriteLength = 0 /\ ~TransmitImmediate(p) /\ p.send = "none") \/ p.hf.out = {}
    <2>1. Sends(empty, SendNext(empty)) /\ ("CTS" \in p.hf.out \ inputs => SendNext(empty) = empty)
      BY <1>1, <1>4, SendNextSends DEF TransmitImmediate
    <2> QED
      BY <1>1, <1>2, <1>4, <2>1 DEF Sends, Calm, Mild, SameRoom, SameSent
  <1>5. CASE ~((p.WriteLength = 0 /\ ~TransmitImmediate(p) /\ p.send = "none") \/ p.hf.out = {})
    <2>1. Sends(seen, SendNext(seen)) /\ ("CTS" \in p.hf.out \ inputs => SendNext(seen) = seen)
      BY <1>3, SendNextSends
    <2>2. Calm(p, seen)
      BY <1>1, <1>3, CalmTransitive
    <2> QED
      BY <1>2, <1>5, <2>1, <2>2 DEF Sends, Calm, Mild, SameRoom, SameSent
  <1> QED
    BY <1>4, <1>5

LEMMA StartWriteCalm ==
    ASSUME NEW p \in Port, NEW length \in Nat PROVE Calm(p, SerialStartWrite(p, length))
  <1> DEFINE given == [p EXCEPT !.CurrentWrite = TRUE, !.WriteLength = length]
             tickled == IF ~TransmitImmediate(p) /\ p.HoldingEmpty THEN Poke(given) ELSE given
  <1>1. given \in Port /\ Calm(p, given)
    BY DEF Port, Calm, Mild, SameRoom, SameSent, SameHeard, Unasked, SameAsked
  <1> HIDE DEF given
  <1>2. tickled \in Port /\ Calm(p, tickled)
    BY <1>1, PokeSteady, PokeCalm, CalmTransitive DEF Steady
  <1> HIDE DEF tickled
  <1>3. Toggles(p) => Calm(p, Raise(tickled, "RTS"))
    <2>1. Toggles(p) => tickled.hf.RTS # "handshake"
      BY <1>2 DEF Toggles, Calm, Mild, SameRoom
    <2> QED
      BY <1>2, <2>1, RaiseCalm, CalmTransitive
  <1>4. SerialStartWrite(p, length) = IF Toggles(p) THEN Raise(tickled, "RTS") ELSE tickled
    BY DEF SerialStartWrite, tickled, given
  <1> QED
    BY <1>2, <1>3, <1>4

LEMMA GiveImmediateCalm ==
    ASSUME NEW p \in Port PROVE Calm(p, SerialGiveImmediateToIsr(p))
  <1> DEFINE given == [p EXCEPT !.immediate = "waiting"]
  <1>1. given \in Port /\ Calm(p, given)
    BY DEF Port, Calm, Mild, SameRoom, SameSent, SameHeard, Unasked, SameAsked
  <1>2. SerialGiveImmediateToIsr(p) \in {given, Poke(given)}
    BY DEF SerialGiveImmediateToIsr
  <1> HIDE DEF given
  <1> QED
    BY <1>1, <1>2, PokeCalm, CalmTransitive

LEMMA ProcessEmptyCalm ==
    ASSUME NEW p \in Port, NEW told \in BOOLEAN
    PROVE  Calm(p, SerialProcessEmptyTransmit(p, told))
  BY TryCalm, CalmReflexive DEF SerialProcessEmptyTransmit

LEMMA GetNextWriteCalm ==
    ASSUME NEW p \in Port, NEW length \in Nat, NEW told \in BOOLEAN
    PROVE  Calm(p, SerialGetNextWrite(p, length, told))
  <1> DEFINE ended == [p EXCEPT !.CurrentWrite = FALSE, !.WriteLength = 0]
             next == [ended EXCEPT !.queued = ended.queued - 1]
  <1>1. ended \in Port /\ Calm(p, ended) /\ ended.queued = p.queued
    BY DEF Port, Calm, Mild, SameRoom, SameSent, SameHeard, Unasked, SameAsked
  <1>2. SerialGetNextWrite(p, length, told) =
          IF p.queued > 0 /\ length > 0 THEN SerialStartWrite(next, length)
                                        ELSE SerialProcessEmptyTransmit(ended, told)
    BY DEF SerialGetNextWrite
  <1> HIDE DEF ended
  <1>3. CASE p.queued > 0 /\ length > 0
    <2>1. ended.queued - 1 \in Nat
      BY <1>1, <1>3 DEF Port
    <2>2. next \in Port /\ Calm(ended, next)
      BY <1>1, <2>1 DEF Port, Calm, Mild, SameRoom, SameSent, SameHeard, Unasked,
                        SameAsked
    <2> HIDE DEF next
    <2> QED
      BY <1>1, <1>2, <1>3, <2>2, StartWriteCalm, CalmTransitive
  <1>4. CASE ~(p.queued > 0 /\ length > 0)
    BY <1>1, <1>2, <1>4, ProcessEmptyCalm, CalmTransitive
  <1> QED
    BY <1>3, <1>4

LEMMA GetNextImmediateCalm ==
    ASSUME NEW p \in Port, NEW told \in BOOLEAN
    PROVE  Calm(p, SerialGetNextImmediate(p, told))
  <1> DEFINE ended == [p EXCEPT !.immediate = "no"]
  <1>1. ended \in Port /\ Calm(p, ended)
    BY DEF Port, Calm, Mild, SameRoom, SameSent, SameHeard, Unasked, SameAsked
  <1>2. SerialGetNextImmediate(p, told) = SerialProcessEmptyTransmit(ended, told)
    BY DEF SerialGetNextImmediate
  <1> HIDE DEF ended
  <1> QED
    BY <1>1, <1>2, ProcessEmptyCalm, CalmTransitive

LEMMA PretendXoffCalm == ASSUME NEW p \in Port PROVE Calm(p, SerialPretendXoff(p))
  <1> DEFINE held == [p EXCEPT !.TXHolding = @ \cup {"XOFF"}]
  <1>1. held \in Port /\ Calm(p, held)
    BY DEF Port, Calm, Mild, SameRoom, SameSent, SameHeard, Unasked, SameAsked
  <1>2. SerialPretendXoff(p) \in {held, InsertDpc(held)}
    BY DEF SerialPretendXoff
  <1> HIDE DEF held
  <1> QED
    BY <1>1, <1>2, InsertDpcCalm, CalmTransitive

LEMMA PretendXonCalm == ASSUME NEW p \in Port PROVE Calm(p, SerialPretendXon(p))
  <1> DEFINE let == [p EXCEPT !.TXHolding = @ \ {"XOFF"}]
  <1>1. let \in Port /\ Calm(p, let)
    BY DEF Port, Calm, Mild, SameRoom, SameSent, SameHeard, Unasked, SameAsked
  <1>2. SerialPretendXon(p) \in {p, Resume(let)}
    BY DEF SerialPretendXon
  <1> HIDE DEF let
  <1> QED
    BY <1>1, <1>2, ResumeCalm, CalmReflexive, CalmTransitive

LEMMA TurnOnBreakCalm == ASSUME NEW p \in Port PROVE Calm(p, SerialTurnOnBreak(p))
  <1> DEFINE on == [p EXCEPT !.TXHolding = @ \cup {"BREAK"}]
  <1>1. on \in Port /\ Calm(p, on) /\ on.hf = p.hf
    BY DEF Port, Calm, Mild, SameRoom, SameSent, SameHeard, Unasked, SameAsked
  <1>2. SerialTurnOnBreak(p) = IF Toggles(p) THEN Raise(on, "RTS") ELSE on
    BY DEF SerialTurnOnBreak
  <1> HIDE DEF on
  <1>3. Toggles(p) => Calm(p, Raise(on, "RTS"))
    BY <1>1, RaiseCalm, CalmTransitive DEF Toggles
  <1> QED
    BY <1>1, <1>2, <1>3

LEMMA TurnOffBreakCalm == ASSUME NEW p \in Port PROVE Calm(p, SerialTurnOffBreak(p))
  <1> DEFINE off == [p EXCEPT !.TXHolding = @ \ {"BREAK"}]
  <1>1. off \in Port /\ Calm(p, off)
    BY DEF Port, Calm, Mild, SameRoom, SameSent, SameHeard, Unasked, SameAsked
  <1>2. SerialTurnOffBreak(p) \in {p, Poke(off), TryToLowerRTS(off)}
    BY DEF SerialTurnOffBreak
  <1> HIDE DEF off
  <1>3. Calm(p, Poke(off)) /\ Calm(p, TryToLowerRTS(off))
    BY <1>1, PokeCalm, TryCalm, CalmTransitive
  <1> QED
    BY <1>2, <1>3, CalmReflexive

LEMMA StartTimerCalm ==
    ASSUME NEW p \in Port PROVE Calm(p, SerialStartTimer([p EXCEPT !.dpc = FALSE]))
  BY DEF Port, SerialStartTimer, Calm, Mild, SameRoom, SameSent, SameHeard, Unasked,
         SameAsked

-------------------------------------------------------------------------------
(* RTS is up only while there is room for three characters: the two of the sender's     *)
(* hardware and the one received.                                                       *)

Limits == XoffLimit >= 2 /\ XonLimit + 3 <= BufferSize
RoomForThree(p) == "RTS" \notin p.RXHolding /\ p.Chars + 3 <= BufferSize
Ready(p) == "RTS" \in p.lines => RoomForThree(p)

\* A routine that takes what was received leaves the rest of the receiver alone.
SameRest(p, q) == q.hf = p.hf /\ q.saved = p.saved /\ SameSent(p, q)

LEMMA IntoTypeaheadRoom ==
    ASSUME NEW p \in Port, Limits, p.hf.RTS = "handshake", Ready(p)
    PROVE  LET q == IntoTypeahead(p)
           IN /\ SameRest(p, q) /\ q.rbr = p.rbr /\ Ready(q)
              /\ q.Chars = IF p.Chars < BufferSize THEN p.Chars + 1 ELSE p.Chars
  <1> DEFINE new == IF Threshold(p) THEN HoldsOff(p.hf) \ p.RXHolding ELSE {}
             held == [p EXCEPT !.RXHolding = @ \cup new, !.lines = @ \ new]
             asked == IF "XOFF" \in new THEN SerialProdXonXoff(held, "XOFF") ELSE held
             q == IF p.Chars < BufferSize THEN [asked EXCEPT !.Chars = asked.Chars + 1]
                                          ELSE asked
  <1>1. /\ new \subseteq Holds
        /\ "RTS" \in p.lines /\ Threshold(p) => "RTS" \in new
        /\ ~Threshold(p) => new = {}
    BY DEF HoldsOff, Holds, Ready, RoomForThree
  <1> HIDE DEF new
  <1>2. held \in Port /\ held.hf = p.hf
    BY <1>1 DEF Port
  <1>3. /\ SameRest(p, held) /\ held.rbr = p.rbr /\ held.Chars = p.Chars
        /\ "RTS" \in held.lines => "RTS" \notin held.RXHolding /\ ~Threshold(p)
    BY <1>1 DEF Port, SameRest, SameSent, Ready, RoomForThree
  <1> HIDE DEF held
  <1>4. asked \in Port /\ Mild(held, asked)
    BY <1>2, ProdSteady, ProdMild, CalmReflexive DEF Steady
  <1> HIDE DEF asked
  <1>5. /\ SameRest(p, asked) /\ asked.rbr = p.rbr /\ asked.Chars = p.Chars
        /\ "RTS" \in asked.lines => "RTS" \notin asked.RXHolding /\ ~Threshold(p)
    BY <1>2, <1>3, <1>4 DEF Mild, SameRoom, SameRest, SameSent
  <1>6. /\ SameRest(asked, q) /\ q.rbr = asked.rbr /\ q.lines = asked.lines
        /\ q.RXHolding = asked.RXHolding
        /\ q.Chars = IF p.Chars < BufferSize THEN p.Chars + 1 ELSE p.Chars
    BY <1>4, <1>5 DEF Port, SameRest, SameSent
  <1>7. IntoTypeahead(p) = q
    BY DEF IntoTypeahead, asked, held, new
  <1> HIDE DEF q
  <1>8. ~Threshold(p) => p.Chars + 4 <= BufferSize
    BY LimitsAssumption DEF Threshold, Limits, Port
  <1>9. Ready(q)
    <2>1. ~Threshold(p) => q.Chars + 3 <= BufferSize
      BY <1>6, <1>8, LimitsAssumption DEF Port
    <2> QED
      BY <1>5, <1>6, <2>1 DEF Ready, RoomForThree
  <1> QED
    BY <1>5, <1>6, <1>7, <1>9 DEF SameRest, SameSent

\* A received character is taken from the hardware, and goes to the buffer at most.
LEMMA ReceivedRoom ==
    ASSUME NEW p \in Port, NEW inputs \in SUBSET OutLines, p.rbr # "none",
           Limits, p.hf.RTS = "handshake", Ready(p), p.Chars <= BufferSize
    PROVE  LET q == Received(p, inputs)
           IN /\ SameRest(p, q) /\ q.rbr = "none" /\ Ready(q)
              /\ q.Chars \in {p.Chars, p.Chars + 1} /\ q.Chars <= BufferSize
  <1> DEFINE taken == [p EXCEPT !.rbr = "none",
                                !.told = IF p.rbr = "data" THEN @ ELSE p.rbr]
             seen == IF taken.hf.sensitive
                       THEN SerialHandleModemUpdate(taken, inputs, FALSE) ELSE taken
             given == [seen EXCEPT !.userBuffer = FALSE]
             held == [taken EXCEPT !.TXHolding = @ \cup {"XOFF"}]
             let == [taken EXCEPT !.TXHolding = @ \ {"XOFF"}]
             Fine(q) == /\ SameRest(p, q) /\ q.rbr = "none" /\ Ready(q)
                        /\ q.Chars \in {p.Chars, p.Chars + 1} /\ q.Chars <= BufferSize
  <1>1. taken \in Port /\ taken.hf = p.hf /\ taken.rbr = "none" /\ taken.Chars = p.Chars
        /\ SameRest(p, taken) /\ Ready(taken)
    BY DEF Port, SameRest, SameSent, Ready, RoomForThree
  <1>2. Received(p, inputs) =
          IF p.rbr = "data" \/ ~p.hf.autoTransmit THEN SerialPutChar(taken, inputs)
          ELSE IF p.rbr = "XOFF"
            THEN IF Toggles(p) THEN InsertDpc(held) ELSE held
          ELSE let
    BY DEF Received
  <1> HIDE DEF taken
  <1>3. SerialPutChar(taken, inputs) \in {seen, given, IntoTypeahead(seen)}
    BY DEF SerialPutChar
  <1>4. seen \in Port /\ Calm(taken, seen)
    BY <1>1, ModemUpdateCalm, ModemUpdateKeeps, CalmReflexive DEF Keeps
  <1> HIDE DEF seen
  <1>5. given \in Port /\ Calm(seen, given)
    <2>1. given \in Port
      BY <1>4 DEF Port
    <2>2. Calm(seen, given)
      BY <1>4 DEF Port, Calm, Mild, SameRoom, SameSent, SameHeard, Unasked, SameAsked
    <2> QED
      BY <2>1, <2>2
  <1>6. held \in Port /\ Calm(taken, held) /\ Calm(taken, let)
    BY <1>1 DEF Port, Calm, Mild, SameRoom, SameSent, SameHeard, Unasked, SameAsked
  <1> HIDE DEF given, held, let
  <1>7. ASSUME NEW q, Calm(taken, q) PROVE Fine(q)
    BY <1>1, <1>7 DEF Calm, Mild, SameRoom, SameRest, SameSent, Ready, RoomForThree, Port
  <1>8. Fine(seen) /\ Fine(given) /\ Fine(held) /\ Fine(let) /\ Fine(InsertDpc(held))
    BY <1>4, <1>5, <1>6, <1>7, InsertDpcCalm, CalmTransitive
  <1>9. Fine(IntoTypeahead(seen))
    <2>1. seen.hf = p.hf /\ seen.rbr = "none" /\ seen.Chars = p.Chars /\ SameRest(p, seen)
          /\ Ready(seen)
      BY <1>1, <1>4 DEF Calm, Mild, SameRoom, SameRest, SameSent, Ready, RoomForThree
    <2> DEFINE q == IntoTypeahead(seen)
    <2>2. /\ SameRest(seen, q) /\ q.rbr = "none" /\ Ready(q)
          /\ q.Chars = IF p.Chars < BufferSize THEN p.Chars + 1 ELSE p.Chars
      BY <1>4, <2>1, IntoTypeaheadRoom
    <2> HIDE DEF q
    <2>3. SameRest(p, q)
      BY <2>1, <2>2 DEF SameRest, SameSent
    <2>4. q.Chars \in {p.Chars, p.Chars + 1} /\ q.Chars <= BufferSize
      BY <2>2, LimitsAssumption DEF Port
    <2> QED
      BY <2>2, <2>3, <2>4 DEF q
  <1> HIDE DEF Fine
  <1>10. Fine(Received(p, inputs))
    BY <1>2, <1>3, <1>8, <1>9
  <1> QED
    BY <1>10 DEF Fine

\* RTS is raised again only when the buffer is down to the Xon limit.
LEMMA ReducedRoom ==
    ASSUME NEW p \in Port, Limits
    PROVE  LET q == SerialHandleReducedIntBuffer(p)
           IN /\ SameRest(p, q) /\ q.rbr = p.rbr /\ q.Chars = p.Chars
              /\ Ready(p) => Ready(q)
  <1> DEFINE let == p.RXHolding \cap {"DTR", "RTS"}
             released == [p EXCEPT !.RXHolding = @ \ let, !.lines = @ \cup let]
             Fine(q) == SameRest(p, q) /\ q.rbr = p.rbr /\ q.Chars = p.Chars
                        /\ (Ready(p) => Ready(q))
  <1>1. let \subseteq {"DTR", "RTS"} /\ ("RTS" \in p.RXHolding <=> "RTS" \in let)
    OBVIOUS
  <1> HIDE DEF let
  <1>2. /\ released \in Port /\ SameRest(p, released) /\ released.rbr = p.rbr
        /\ released.Chars = p.Chars /\ "RTS" \notin released.RXHolding
    BY <1>1 DEF Port, SameRest, SameSent
  <1>3. SerialHandleReducedIntBuffer(p) =
          IF ~Reduced(p) THEN p
          ELSE IF "XOFF" \in p.RXHolding THEN SerialProdXonXoff(released, "XON") ELSE released
    BY DEF SerialHandleReducedIntBuffer, released, let
  <1> HIDE DEF released
  <1>4. Reduced(p) => p.Chars + 3 <= BufferSize
    BY LimitsAssumption DEF Reduced, Limits, Port
  <1>5. Fine(p)
    BY DEF SameRest, SameSent
  <1>6. Reduced(p) => Fine(released)
    BY <1>2, <1>4 DEF Ready, RoomForThree
  <1>7. Reduced(p) => Fine(SerialProdXonXoff(released, "XON"))
    <2>1. Calm(released, SerialProdXonXoff(released, "XON"))
      BY <1>2, ProdCalm
    <2> QED
      BY <1>2, <1>4, <2>1 DEF Calm, Mild, SameRoom, SameRest, SameSent, Ready,
                              RoomForThree
  <1> HIDE DEF Fine
  <1>8. Fine(SerialHandleReducedIntBuffer(p))
    BY <1>3, <1>5, <1>6, <1>7
  <1> QED
    BY <1>8 DEF Fine

\* An open does the flow control again: what is received is dropped, and RTS goes up on
\* an empty buffer.
SameKept(p, q) == SameRest(p, q) /\ q.rbr = p.rbr /\ q.Chars = p.Chars

LEMMA HandshakeKept ==
    ASSUME NEW p \in Port, NEW line \in {"RTS", "DTR"}
    PROVE  LET q == Handshake(p, line)
           IN /\ SameKept(p, q)
              /\ line = "DTR" \/ p.Chars + 3 <= BufferSize => (Ready(p) => Ready(q))
  <1> DEFINE unheld == [p EXCEPT !.RXHolding = @ \ {line}]
             held == [p EXCEPT !.RXHolding = @ \cup {line}]
             Fine(q) == SameKept(p, q)
                        /\ (line = "DTR" \/ p.Chars + 3 <= BufferSize => (Ready(p) => Ready(q)))
  <1>1. Fine(p)
    BY DEF SameKept, SameRest, SameSent
  <1>2. line \notin p.RXHolding => Fine(Raise(p, line))
    BY DEF Port, Raise, SameKept, SameRest, SameSent, Ready, RoomForThree
  <1>3. Fine(Raise(unheld, line))
    BY DEF Port, Raise, SameKept, SameRest, SameSent, Ready, RoomForThree
  <1>4. Fine(Lower(held, line))
    BY DEF Port, Lower, SameKept, SameRest, SameSent, Ready, RoomForThree
  <1>5. \/ Handshake(p, line) \in {p, Raise(unheld, line), Lower(held, line)}
        \/ line \notin p.RXHolding /\ Handshake(p, line) = Raise(p, line)
    BY DEF Handshake
  <1> HIDE DEF Fine, unheld, held
  <1>6. Fine(Handshake(p, line))
    BY <1>1, <1>2, <1>3, <1>4, <1>5
  <1> QED
    BY <1>6 DEF Fine

LEMMA StartTogglingKept ==
    ASSUME NEW p \in Port, p.hf.RTS = "toggle" PROVE SameKept(p, StartToggling(p))
  <1> DEFINE h == IF "BREAK" \in p.TXHolding THEN p.HoldingEmpty ELSE p.thr = "none"
             t == [p EXCEPT !.hf.RTS = "toggle", !.HoldingEmpty = h]
  <1>1. h \in BOOLEAN
    BY DEF Port
  <1>2. StartToggling(p) \in {Raise(t, "RTS"), TryToLowerRTS(t)}
    BY DEF StartToggling
  <1> HIDE DEF h
  <1>3. t \in Port
    BY <1>1 DEF Port, HandFlow
  <1>4. SameKept(p, t) /\ t.hf.RTS = "toggle"
    <2>1. [p.hf EXCEPT !.RTS = "toggle"] = p.hf
      BY DEF Port, HandFlow
    <2>2. t.hf = [p.hf EXCEPT !.RTS = "toggle"]
      BY DEF Port
    <2> QED
      BY <2>1, <2>2 DEF Port, SameKept, SameRest, SameSent
  <1> HIDE DEF t
  <1>5. Calm(t, Raise(t, "RTS")) /\ Calm(t, TryToLowerRTS(t))
    BY <1>3, <1>4, RaiseCalm, TryCalm
  <1> QED
    BY <1>2, <1>4, <1>5 DEF Calm, Mild, SameRoom, SameKept, SameRest, SameSent

LEMMA ResetLineKept ==
    ASSUME NEW p \in Port, NEW line \in {"RTS", "DTR"},
           NEW how \in {"off", "control", "handshake", "toggle"},
           how = "toggle" => p.hf.RTS = "toggle"
    PROVE  LET q == ResetLine(p, line, how)
           IN /\ SameKept(p, q)
              /\ line = "DTR" /\ how # "toggle" => (Ready(p) => Ready(q))
              /\ how = "handshake" /\ p.Chars + 3 <= BufferSize => (Ready(p) => Ready(q))
  <1> DEFINE unheld == [p EXCEPT !.RXHolding = @ \ {line}]
  <1>1. unheld \in Port /\ SameKept(p, unheld) /\ (Ready(p) => Ready(unheld))
    BY DEF Port, SameKept, SameRest, SameSent, Ready, RoomForThree
  <1>2. CASE how = "handshake"
    BY <1>2, HandshakeKept DEF ResetLine
  <1>3. CASE how = "control"
    <2>1. ResetLine(p, line, how) = Raise(unheld, line)
      BY <1>3 DEF ResetLine
    <2> HIDE DEF unheld
    <2>2. SameKept(unheld, Raise(unheld, line))
          /\ (line = "DTR" => (Ready(unheld) => Ready(Raise(unheld, line))))
      BY <1>1 DEF Port, Raise, SameKept, SameRest, SameSent, Ready, RoomForThree
    <2> QED
      BY <1>1, <1>3, <2>1, <2>2 DEF SameKept, SameRest, SameSent
  <1>4. CASE how = "toggle"
    <2>1. ResetLine(p, line, how) = StartToggling(unheld)
      BY <1>4 DEF ResetLine
    <2> HIDE DEF unheld
    <2>2. SameKept(unheld, StartToggling(unheld))
      BY <1>1, <1>4, StartTogglingKept DEF SameKept, SameRest
    <2> QED
      BY <1>1, <1>4, <2>1, <2>2 DEF SameKept, SameRest, SameSent
  <1>5. CASE how = "off"
    <2>1. ResetLine(p, line, how) = Lower(unheld, line)
      BY <1>5 DEF ResetLine
    <2> HIDE DEF unheld
    <2>2. SameKept(unheld, Lower(unheld, line))
          /\ (Ready(unheld) => Ready(Lower(unheld, line)))
      BY <1>1 DEF Port, Lower, SameKept, SameRest, SameSent, Ready, RoomForThree
    <2> QED
      BY <1>1, <1>5, <2>1, <2>2 DEF SameKept, SameRest, SameSent
  <1> QED
    BY <1>2, <1>3, <1>4, <1>5

LEMMA ResetAutoReceiveMild ==
    ASSUME NEW p \in Port, NEW on \in BOOLEAN PROVE Mild(p, ResetAutoReceive(p, on))
  <1> DEFINE held == [p EXCEPT !.RXHolding = @ \cup {"XOFF"}]
             let == [p EXCEPT !.RXHolding = @ \ {"XOFF"}]
  <1>1. held \in Port /\ Mild(p, held) /\ let \in Port /\ Mild(p, let)
    BY DEF Port, Mild, SameRoom, SameSent, SameHeard, Unasked, Holds
  <1>2. ResetAutoReceive(p, on) \in {p, SerialProdXonXoff(held, "XOFF"),
                                        SerialProdXonXoff(let, "XON")}
    BY DEF ResetAutoReceive
  <1> HIDE DEF held, let
  <1>3. Mild(p, SerialProdXonXoff(held, "XOFF")) /\ Mild(p, SerialProdXonXoff(let, "XON"))
    BY <1>1, ProdMild, MildTransitive
  <1> QED
    BY <1>2, <1>3, CalmReflexive

LEMMA ResetRoom ==
    ASSUME NEW p \in Port, NEW inputs \in SUBSET OutLines, p.Chars = 0
    PROVE  LET q == SerialReset(p, inputs)
           IN /\ SameRest(p, q) /\ q.rbr = "none" /\ q.Chars = 0
              /\ p.hf.RTS = "handshake" /\ BufferSize >= 3 /\ Ready(p) => Ready(q)
  <1> DEFINE quiet == [p EXCEPT !.rbr = "none", !.thri = FALSE]
             d == ResetLine(quiet, "DTR", p.hf.DTR)
             r == ResetLine(d, "RTS", p.hf.RTS)
             a == ResetAutoReceive(r, p.hf.autoReceive)
             m == SerialHandleModemUpdate(a, inputs, FALSE)
             q == [m EXCEPT !.HoldingEmpty = TRUE]
             Kept(x) == SameRest(p, x) /\ x.rbr = "none" /\ x.Chars = 0
  <1>0. /\ p.hf.DTR \in {"off", "control", "handshake"}
        /\ p.hf.RTS \in {"off", "control", "handshake", "toggle"}
        /\ p.hf.autoReceive \in BOOLEAN
    BY DEF Port, HandFlow
  <1>1. quiet \in Port /\ Kept(quiet) /\ (Ready(p) => Ready(quiet))
    BY DEF Port, SameRest, SameSent, Ready, RoomForThree
  <1>2. d \in Port /\ Kept(d) /\ (Ready(quiet) => Ready(d))
    <2> HIDE DEF quiet
    <2>1. d \in Port
      BY <1>0, <1>1, ResetDTRKeeps
    <2>2. SameKept(quiet, d) /\ (Ready(quiet) => Ready(d))
      BY <1>0, <1>1, ResetLineKept
    <2> QED
      BY <1>1, <2>1, <2>2 DEF SameKept, SameRest, SameSent
  <1>3. /\ r \in Port /\ Kept(r)
        /\ p.hf.RTS = "handshake" /\ BufferSize >= 3 /\ Ready(d) => Ready(r)
    <2> HIDE DEF d
    <2>1. r \in Port
      BY <1>0, <1>2, ResetRTSCovers
    <2>2. d.hf.RTS = p.hf.RTS
      BY <1>2 DEF SameRest
    <2>3. SameKept(d, r)
          /\ (p.hf.RTS = "handshake" /\ d.Chars + 3 <= BufferSize => (Ready(d) => Ready(r)))
      BY <1>0, <1>2, <2>2, ResetLineKept
    <2>4. BufferSize >= 3 => d.Chars + 3 <= BufferSize
      BY <1>2
    <2> QED
      BY <1>2, <2>1, <2>3, <2>4 DEF SameKept, SameRest, SameSent
  <1>4. a \in Port /\ Mild(r, a)
    <2> HIDE DEF r
    <2> QED
      BY <1>0, <1>3, ResetAutoReceiveSteady, ResetAutoReceiveMild DEF Steady
  <1>5. m \in Port /\ Calm(a, m)
    <2> HIDE DEF a
    <2> QED
      BY <1>4, ModemUpdateKeeps, ModemUpdateCalm DEF Keeps
  <1>6. Calm(m, q)
    <2> HIDE DEF m
    <2> QED
      BY <1>5 DEF Port, Calm, Mild, SameRoom, SameSent, SameHeard, Unasked, SameAsked
  <1>7. SerialReset(p, inputs) = q
    BY DEF SerialReset
  <1> HIDE DEF quiet, d, r, a, m, q
  <1>8. Mild(r, q)
    BY <1>4, <1>5, <1>6, MildTransitive DEF Calm
  <1>9. Kept(q)
    BY <1>3, <1>8 DEF Mild, SameRoom, SameRest, SameSent
  <1>10. p.hf.RTS = "handshake" /\ Ready(r) => Ready(q)
    BY <1>3, <1>8 DEF Mild, SameRoom, SameRest, Ready, RoomForThree
  <1> QED
    BY <1>1, <1>2, <1>3, <1>7, <1>9, <1>10

-------------------------------------------------------------------------------
(* The buffer and the characters that are on their way to it. *)

\* RTS is up or will be when the port wakes.
ReadyIn(p, ph) ==
    "RTS" \in p.lines \/ (ph = "asleep" /\ "RTS" \in p.saved) => RoomForThree(p)

One(char) == IF char = "none" THEN 0 ELSE 1

\* How many characters arrive at r from s until the last one that is data has.
Coming(r, s) ==
    IF s.thr = "data" THEN One(r.rbr) + One(s.tsr) + 1
    ELSE IF s.tsr = "data" THEN One(r.rbr) + 1
    ELSE IF r.rbr = "data" THEN 1 ELSE 0

Room(r, s) == r.Chars + Coming(r, s) <= BufferSize

Safe(r, ph, s) == ReadyIn(r, ph) /\ Room(r, s)

\* While RTS is up three characters have room, and no sender starts one while it is down.
HandshakeInv == \A e \in Ends :
    Handshaking(e) => Safe(port[e], phase[e], port[Peer[e]])

LEMMA SameRoomSafe ==
    ASSUME NEW r, NEW q, NEW ph, NEW s, SameRoom(r, q), r.hf.RTS = "handshake", Safe(r, ph, s)
    PROVE  Safe(q, ph, s)
  BY DEF Safe, ReadyIn, Room, Coming, SameRoom, RoomForThree

LEMMA SameSentSafe ==
    ASSUME NEW r, NEW s, NEW q, NEW ph, SameSent(s, q), Safe(r, ph, s) PROVE Safe(r, ph, q)
  BY DEF Safe, Room, Coming, SameSent

\* Whatever the hardware is given while RTS is up has room.
LEMMA SentSafe ==
    ASSUME NEW r \in Port, NEW s, NEW q, NEW ph, "RTS" \in r.lines, Safe(r, ph, s)
    PROVE  Safe(r, ph, q)
  <1>1. Coming(r, q) \in 0 .. 3
    BY DEF Coming, One
  <1>2. r.Chars + 3 <= BufferSize /\ r.Chars \in Nat /\ BufferSize \in Nat
    BY LimitsAssumption DEF Safe, ReadyIn, RoomForThree, Port
  <1> QED
    BY <1>1, <1>2 DEF Safe, Room

\* What is received is no longer on its way.
LEMMA TakenRoom ==
    ASSUME NEW r \in Port, NEW q, NEW s, r.rbr # "none", q.rbr = "none", Room(r, s),
           q.Chars \in {r.Chars, r.Chars + 1}, q.Chars <= BufferSize
    PROVE  Room(q, s)
  <1>1. Coming(q, s) = 0 \/ Coming(q, s) + 1 = Coming(r, s)
    BY DEF Coming, One
  <1>2. Coming(r, s) \in Nat /\ Coming(q, s) \in Nat /\ r.Chars \in Nat /\ BufferSize \in Nat
    BY LimitsAssumption DEF Coming, One, Port
  <1> QED
    BY <1>1, <1>2 DEF Room

LEMMA DroppedRoom ==
    ASSUME NEW r \in Port, NEW q, NEW s, q.rbr = "none", Room(r, s), q.Chars = r.Chars
    PROVE  Room(q, s)
  <1>1. Coming(q, s) <= Coming(r, s) /\ Coming(r, s) \in Nat /\ Coming(q, s) \in Nat
    BY DEF Coming, One
  <1> QED
    BY <1>1, LimitsAssumption DEF Room, Port

LEMMA IntoTypeaheadSent ==
    ASSUME NEW p \in Port
    PROVE  LET q == IntoTypeahead(p)
           IN q.hf = p.hf /\ SameSent(p, q)
  <1> DEFINE new == IF Threshold(p) THEN HoldsOff(p.hf) \ p.RXHolding ELSE {}
             held == [p EXCEPT !.RXHolding = @ \cup new, !.lines = @ \ new]
             asked == IF "XOFF" \in new THEN SerialProdXonXoff(held, "XOFF") ELSE held
  <1>1. new \subseteq Holds
    BY DEF HoldsOff, Holds
  <1> HIDE DEF new
  <1>2. held \in Port /\ held.hf = p.hf /\ SameSent(p, held)
    BY <1>1 DEF Port, SameSent
  <1> HIDE DEF held
  <1>3. asked \in Port /\ Mild(held, asked)
    BY <1>2, ProdSteady, ProdMild, CalmReflexive DEF Steady
  <1> HIDE DEF asked
  <1>4. IntoTypeahead(p) \in {[asked EXCEPT !.Chars = asked.Chars + 1], asked}
    BY DEF IntoTypeahead, asked, held, new
  <1>5. ASSUME NEW q \in {[asked EXCEPT !.Chars = asked.Chars + 1], asked}
        PROVE  q.hf = p.hf /\ SameSent(p, q)
    BY <1>2, <1>3 DEF Port, Mild, SameRoom, SameSent
  <1> QED
    BY <1>4, <1>5

LEMMA RoomBounds ==
    ASSUME NEW r \in Port, NEW s, Room(r, s) PROVE r.Chars <= BufferSize
  <1>1. Coming(r, s) \in Nat
    BY DEF Coming, One
  <1> QED
    BY <1>1, LimitsAssumption DEF Room, Port

\* Receiving never touches what the port itself has to send, whatever its flow control.
LEMMA ReceivedSent ==
    ASSUME NEW p \in Port, NEW inputs \in SUBSET OutLines, p.rbr # "none"
    PROVE  LET q == Received(p, inputs)
           IN q.hf = p.hf /\ SameSent(p, q)
  <1> DEFINE taken == [p EXCEPT !.rbr = "none",
                                !.told = IF p.rbr = "data" THEN @ ELSE p.rbr]
             seen == IF taken.hf.sensitive
                       THEN SerialHandleModemUpdate(taken, inputs, FALSE) ELSE taken
             given == [seen EXCEPT !.userBuffer = FALSE]
             held == [taken EXCEPT !.TXHolding = @ \cup {"XOFF"}]
             let == [taken EXCEPT !.TXHolding = @ \ {"XOFF"}]
             Same(q) == q.hf = p.hf /\ SameSent(p, q)
  <1>1. taken \in Port /\ Same(taken)
    BY DEF Port, SameSent
  <1>2. Received(p, inputs) =
          IF p.rbr = "data" \/ ~p.hf.autoTransmit THEN SerialPutChar(taken, inputs)
          ELSE IF p.rbr = "XOFF"
            THEN IF Toggles(p) THEN InsertDpc(held) ELSE held
          ELSE let
    BY DEF Received
  <1> HIDE DEF taken
  <1>3. SerialPutChar(taken, inputs) \in {seen, given, IntoTypeahead(seen)}
    BY DEF SerialPutChar
  <1>4. seen \in Port /\ Same(seen)
    <2>1. SerialHandleModemUpdate(taken, inputs, FALSE) \in Port
          /\ Calm(taken, SerialHandleModemUpdate(taken, inputs, FALSE))
      BY <1>1, ModemUpdateCalm, ModemUpdateKeeps DEF Keeps
    <2> QED
      BY <1>1, <2>1 DEF Calm, Mild, SameRoom, SameSent
  <1> HIDE DEF seen
  <1>5. Same(given)
    BY <1>4 DEF Port, SameSent
  <1>6. held \in Port /\ Same(held) /\ Same(let)
    BY <1>1 DEF Port, SameSent
  <1>7. Same(InsertDpc(held))
    <2>1. Calm(held, InsertDpc(held))
      BY <1>6, InsertDpcCalm
    <2> QED
      BY <1>6, <2>1 DEF Calm, Mild, SameRoom, SameSent
  <1>8. Same(IntoTypeahead(seen))
    BY <1>4, IntoTypeaheadSent DEF SameSent
  <1> HIDE DEF given, held, let, Same
  <1>9. Same(Received(p, inputs))
    BY <1>2, <1>3, <1>4, <1>5, <1>6, <1>7, <1>8
  <1> QED
    BY <1>9 DEF Same

\* A step that changes only the two ports of one cable is judged by these two.
LEMMA CableKeeps ==
    ASSUME FlowInv, HandshakeInv, NEW e \in Ends,
           \A x \in Ends \ {e, Peer[e]} : port'[x] = port[x],
           \A x \in Ends \ {e} : phase'[x] = phase[x],
           \A x \in {e, Peer[e]} : Settled(x) => port'[x].hf = port[x].hf,
           Handshaking(e) => Safe(port'[e], phase'[e], port'[Peer[e]]),
           Handshaking(Peer[e]) => Safe(port'[Peer[e]], phase'[Peer[e]], port'[e])
    PROVE  HandshakeInv'
  <1> SUFFICES ASSUME NEW x \in Ends, Handshaking(x)'
               PROVE  Safe(port'[x], phase'[x], port'[Peer[x]])
    BY DEF HandshakeInv, Safe, ReadyIn, Room, Coming, RoomForThree, One
  <1>1. Peer[e] \in Ends /\ Peer[e] # e /\ Peer[Peer[e]] = e
        /\ Peer[x] \in Ends /\ Peer[Peer[x]] = x
    BY EndsAssumption
  <1>2. Settled(x) /\ Settled(Peer[x]) /\ Limits
        /\ port'[x].hf.RTS = "handshake" /\ "CTS" \in port'[Peer[x]].hf.out
    BY DEF Handshaking, Limits, Settled
  <1>3. CASE x \in {e, Peer[e]}
    <2>1. Peer[x] \in {e, Peer[e]}
      BY <1>1, <1>3
    <2>2. Handshaking(x)
      BY <1>2, <1>3, <2>1 DEF Handshaking, Limits
    <2> QED
      BY <1>1, <1>3, <2>2
  <1>4. CASE x \notin {e, Peer[e]}
    <2>1. Peer[x] \notin {e, Peer[e]}
      BY <1>1, <1>4
    <2>2. port'[x] = port[x] /\ port'[Peer[x]] = port[Peer[x]] /\ phase'[x] = phase[x]
      BY <1>1, <1>4, <2>1
    <2>3. Handshaking(x)
      BY <1>2, <2>2 DEF Handshaking, Limits
    <2> QED
      BY <2>2, <2>3 DEF HandshakeInv
  <1> QED
    BY <1>3, <1>4

LEMMA EndKeeps ==
    ASSUME FlowInv, HandshakeInv, NEW e \in Ends, NEW new,
           port' = Connected(e, new) \/ port' = [port EXCEPT ![e] = new],
           \A x \in Ends \ {e} : phase'[x] = phase[x],
           Settled(e) => new.hf = port[e].hf,
           Handshaking(e) => Safe(new, phase'[e], port[Peer[e]]),
           Handshaking(Peer[e]) => Safe(port[Peer[e]], phase[Peer[e]], new)
    PROVE  HandshakeInv'
  <1> DEFINE o == Peer[e]
             m == port[o].msi \/ new.lines # port[e].lines
             heard == [port[o] EXCEPT !.msi = m]
  <1>1. o \in Ends /\ o # e /\ Peer[o] = e
    BY EndsAssumption
  <1>2. port[o] \in Port /\ m \in BOOLEAN
    BY <1>1 DEF FlowInv, Fit, Port
  <1> HIDE DEF o
  <1>3. port' = [port EXCEPT ![e] = new, ![o] = heard] \/ port' = [port EXCEPT ![e] = new]
    BY <1>1 DEF Connected, FlowInv, TypeOK, o
  <1> HIDE DEF m
  <1>4. Calm(port[o], heard)
    BY <1>2 DEF Port, Calm, Mild, SameRoom, SameSent, SameHeard, Unasked, SameAsked
  <1> HIDE DEF heard
  <1>5. /\ port'[e] = new
        /\ Calm(port[o], port'[o])
        /\ \A x \in Ends \ {e, o} : port'[x] = port[x]
    BY <1>1, <1>3, <1>4, CalmReflexive DEF FlowInv, TypeOK
  <1>6. Handshaking(e) => Safe(port'[e], phase'[e], port'[o])
    BY <1>5, SameSentSafe DEF Calm, Mild, o
  <1>7. Handshaking(o) => Safe(port'[o], phase'[o], port'[e])
    <2>1. Handshaking(o) => port[o].hf.RTS = "handshake"
      BY DEF Handshaking
    <2> QED
      BY <1>1, <1>5, <2>1, SameRoomSafe DEF Calm, Mild, o
  <1>8. \A x \in {e, o} : Settled(x) => port'[x].hf = port[x].hf
    BY <1>5 DEF Calm, Mild, SameRoom
  <1> QED
    BY <1>1, <1>5, <1>6, <1>7, <1>8, CableKeeps DEF o

\* What is known of a port that handshakes, and of one whose neighbour does.
LEMMA HandshakeFacts ==
    ASSUME FlowInv, HandshakeInv, NEW e \in Ends, Handshaking(e)
    PROVE  /\ Limits /\ Settled(e) /\ port[e].hf.RTS = "handshake"
           /\ "CTS" \in port[Peer[e]].hf.out
           /\ Safe(port[e], phase[e], port[Peer[e]])
  BY DEF Handshaking, Limits, HandshakeInv

LEMMA MildKeeps ==
    ASSUME FlowInv, HandshakeInv, NEW e \in Ends, NEW new,
           port' = Connected(e, new) \/ port' = [port EXCEPT ![e] = new],
           \A x \in Ends \ {e} : phase'[x] = phase[x],
           phase'[e] = phase[e] \/ phase'[e] # "asleep",
           Mild(port[e], new)
    PROVE  HandshakeInv'
  <1>1. Peer[e] \in Ends /\ Peer[Peer[e]] = e
    BY EndsAssumption
  <1>2. new.hf = port[e].hf
    BY DEF Mild, SameRoom
  <1>3. Handshaking(e) => Safe(new, phase'[e], port[Peer[e]])
    <2>1. Handshaking(e) => Safe(new, phase[e], port[Peer[e]])
      BY HandshakeFacts, SameRoomSafe DEF Mild
    <2> QED
      BY <2>1 DEF Safe, ReadyIn
  <1>4. Handshaking(Peer[e]) => Safe(port[Peer[e]], phase[Peer[e]], new)
    BY <1>1, HandshakeFacts, SameSentSafe DEF Mild
  <1> QED
    BY <1>2, <1>3, <1>4, EndKeeps

LEMMA CalmKeeps ==
    ASSUME FlowInv, HandshakeInv, NEW e \in Ends, NEW new,
           port' = Connected(e, new) \/ port' = [port EXCEPT ![e] = new],
           \A x \in Ends \ {e} : phase'[x] = phase[x],
           phase'[e] = phase[e] \/ phase'[e] # "asleep",
           Calm(port[e], new)
    PROVE  HandshakeInv'
  BY MildKeeps DEF Calm

LEMMA InterruptSafe ==
    ASSUME FlowInv, HandshakeInv, NEW e \in Ends, Interrupt(e) PROVE HandshakeInv'
  <1> DEFINE p == port[e]
             o == Peer[e]
  <1>1. p \in Port /\ o \in Ends /\ Peer[o] = e /\ port[o] \in Port
    BY EndsAssumption DEF FlowInv, Fit
  <1>2. phase' = phase
    BY DEF Interrupt, InterruptReceive, InterruptTransmit, InterruptModem,
           InterruptClosed,
           InterruptReturn, Served
  <1>3. CASE InterruptReceive(e)
    <2> DEFINE r == Received(p, Inputs(e))
               l == LineStatus(r)
               new == [l EXCEPT !.inIsr = TRUE]
    <2>1. DeviceIsOpened(e) /\ p.rbr # "none" /\ port' = Connected(e, new)
      BY <1>3 DEF InterruptReceive, Served
    <2>2. r \in Port
      BY <1>1, <2>1, InputsType, ReceivedKeeps DEF Keeps
    <2>3. Limits /\ p.hf.RTS = "handshake" /\ Ready(p) /\ p.Chars <= BufferSize =>
            /\ SameRest(p, r) /\ r.rbr = "none" /\ Ready(r)
            /\ r.Chars \in {p.Chars, p.Chars + 1} /\ r.Chars <= BufferSize
      BY <1>1, <2>1, InputsType, ReceivedRoom
    <2>4. r.hf = p.hf /\ SameSent(p, r)
      BY <1>1, <2>1, InputsType, ReceivedSent
    <2> HIDE DEF r
    <2>5. l \in Port /\ Calm(r, l)
      BY <2>2, LineStatusSteady, LineStatusCalm DEF Steady
    <2> HIDE DEF l
    <2>6. Calm(r, new)
      <3>1. Calm(l, new)
        BY <2>5 DEF Port, Calm, Mild, SameRoom, SameSent, SameHeard, Unasked, SameAsked
      <3> QED
        BY <2>5, <3>1, CalmTransitive
    <2> HIDE DEF new
    <2>7. new.hf = p.hf /\ SameSent(p, new)
      BY <2>4, <2>6 DEF Calm, Mild, SameRoom, SameSent
    <2>8. ASSUME Handshaking(e) PROVE Safe(new, phase[e], port[o])
      <3>1. Limits /\ p.hf.RTS = "handshake" /\ Ready(p) /\ Room(p, port[o])
        BY <2>8, HandshakeFacts DEF Safe, ReadyIn, Ready
      <3>2. p.Chars <= BufferSize
        BY <1>1, <3>1, RoomBounds
      <3>3. Ready(r) /\ r.rbr = "none" /\ r.Chars <= BufferSize
            /\ r.Chars \in {p.Chars, p.Chars + 1} /\ r.hf.RTS = "handshake"
        BY <2>3, <2>4, <3>1, <3>2
      <3>4. Room(r, port[o])
        BY <1>1, <2>1, <3>1, <3>3, TakenRoom
      <3>5. phase[e] # "asleep"
        BY <2>1 DEF DeviceIsOpened
      <3>6. Safe(r, phase[e], port[o])
        BY <3>3, <3>4, <3>5 DEF Safe, ReadyIn, Ready
      <3> QED
        BY <2>6, <3>3, <3>6, SameRoomSafe DEF Calm, Mild
    <2>9. Handshaking(o) => Safe(port[o], phase[o], new)
      BY <1>1, <2>7, HandshakeFacts, SameSentSafe
    <2> QED
      BY <1>2, <2>1, <2>7, <2>8, <2>9, EndKeeps
  <1>4. CASE InterruptTransmit(e)
    <2> DEFINE s == SendNext(ReadyToSend(p, Inputs(e)))
               new == [s EXCEPT !.inIsr = TRUE]
    <2>1. port' = Connected(e, new)
      BY <1>4 DEF InterruptTransmit, Served
    <2>2. s \in Port
      BY <1>1, InputsType, ReadyKeeps, SendNextKeeps DEF Keeps
    <2>3. Sends(p, s) /\ ("CTS" \in p.hf.out \ Inputs(e) => SameSent(p, s))
      BY <1>1, InputsType, ObeysCTS
    <2> HIDE DEF s
    <2>4. Calm(s, new)
      BY <2>2 DEF Port, Calm, Mild, SameRoom, SameSent, SameHeard, Unasked, SameAsked
    <2> HIDE DEF new
    <2>5. Sends(p, new) /\ ("CTS" \in p.hf.out \ Inputs(e) => SameSent(p, new))
      BY <2>3, <2>4, SendsMild DEF Calm, Mild, SameSent
    <2>6. "CTS" \in Inputs(e) => "RTS" \in port[o].lines
      BY DEF Inputs, Wire, OutLines
    <2>7. Handshaking(e) => Safe(new, phase[e], port[o])
      BY <2>5, HandshakeFacts, SameRoomSafe DEF Sends
    <2>8. ASSUME Handshaking(o) PROVE Safe(port[o], phase[o], new)
      <3>1. Safe(port[o], phase[o], p) /\ "CTS" \in p.hf.out
        BY <1>1, <2>8, HandshakeFacts
      <3> QED
        BY <1>1, <2>5, <2>6, <3>1, SameSentSafe, SentSafe
    <2>9. new.hf = p.hf
      BY <2>5 DEF Sends, SameRoom
    <2> QED
      BY <1>2, <2>1, <2>7, <2>8, <2>9, EndKeeps
  <1>5. CASE InterruptModem(e)
    <2> DEFINE u == SerialHandleModemUpdate(p, Inputs(e), FALSE)
               new == [u EXCEPT !.inIsr = TRUE]
    <2>1. port' = Connected(e, new)
      BY <1>5 DEF InterruptModem, Served
    <2>2. u \in Port /\ Calm(p, u)
      BY <1>1, InputsType, ModemUpdateKeeps, ModemUpdateCalm DEF Keeps
    <2> HIDE DEF u
    <2>3. Calm(u, new)
      BY <2>2 DEF Port, Calm, Mild, SameRoom, SameSent, SameHeard, Unasked, SameAsked
    <2> HIDE DEF new
    <2> QED
      BY <1>2, <2>1, <2>2, <2>3, CalmTransitive, CalmKeeps
  <1>6. CASE InterruptClosed(e)
    <2> DEFINE b == TakenBack(p)
               new == [b EXCEPT !.inIsr = TRUE]
    <2>1. port' = Connected(e, new)
      BY <1>6 DEF InterruptClosed, Served
    <2>2. b \in Port /\ SameRest(p, b) /\ b.rbr = "none" /\ b.Chars = p.Chars
          /\ b.lines = p.lines /\ b.RXHolding = p.RXHolding
      <3> DEFINE h == IF p.thri THEN TRUE ELSE p.HoldingEmpty
      <3>1. b \in Port
        BY <1>1, TakenBackSteady DEF Steady
      <3>2. b = [p EXCEPT !.rbr = "none", !.thri = FALSE, !.msi = FALSE, !.HoldingEmpty = h]
        BY DEF TakenBack
      <3> HIDE DEF b, h
      <3> QED
        BY <1>1, <3>1, <3>2 DEF Port, SameRest, SameSent
    <2> HIDE DEF b
    <2>3. SameRest(p, new) /\ new.rbr = "none" /\ new.Chars = p.Chars
          /\ new.lines = p.lines /\ new.RXHolding = p.RXHolding
      BY <2>2 DEF Port, SameRest, SameSent
    <2> HIDE DEF new
    <2>4. ASSUME Handshaking(e) PROVE Safe(new, phase[e], port[o])
      <3>1. Safe(p, phase[e], port[o])
        BY <2>4, HandshakeFacts
      <3>2. Room(new, port[o])
        BY <1>1, <2>3, <3>1, DroppedRoom DEF Safe
      <3> QED
        BY <2>3, <3>1, <3>2 DEF Safe, ReadyIn, SameRest, RoomForThree
    <2>5. Handshaking(o) => Safe(port[o], phase[o], new)
      BY <1>1, <2>3, HandshakeFacts, SameSentSafe DEF SameRest
    <2> QED
      BY <1>2, <2>1, <2>3, <2>4, <2>5, EndKeeps DEF SameRest
  <1>7. CASE InterruptReturn(e)
    <2> DEFINE h == IF DeviceIsOpened(e) THEN p.thr = "none" ELSE p.HoldingEmpty
               new == [p EXCEPT !.inIsr = FALSE, !.HoldingEmpty = h]
    <2>1. port' = [port EXCEPT ![e] = new]
      BY <1>7 DEF InterruptReturn, FlowInv, TypeOK
    <2>2. Calm(p, new)
      BY <1>1 DEF Port, Calm, Mild, SameRoom, SameSent, SameHeard, Unasked, SameAsked
    <2> HIDE DEF new
    <2> QED
      BY <1>2, <2>1, <2>2, CalmKeeps
  <1> QED
    BY <1>3, <1>4, <1>5, <1>6, <1>7 DEF Interrupt

LEMMA ReducedSent ==
    ASSUME NEW p \in Port
    PROVE  LET q == SerialHandleReducedIntBuffer(p)
           IN q.hf = p.hf /\ SameSent(p, q)
  <1> DEFINE let == p.RXHolding \cap {"DTR", "RTS"}
             released == [p EXCEPT !.RXHolding = @ \ let, !.lines = @ \cup let]
  <1>1. let \subseteq {"DTR", "RTS"}
    OBVIOUS
  <1> HIDE DEF let
  <1>2. released \in Port /\ released.hf = p.hf /\ SameSent(p, released)
    BY <1>1 DEF Port, SameSent
  <1>3. SerialHandleReducedIntBuffer(p) \in {p, released, SerialProdXonXoff(released, "XON")}
    BY DEF SerialHandleReducedIntBuffer, released, let
  <1> HIDE DEF released
  <1>4. Calm(released, SerialProdXonXoff(released, "XON"))
    BY <1>2, ProdCalm
  <1>5. ASSUME NEW q \in {p, released, SerialProdXonXoff(released, "XON")}
        PROVE  q.hf = p.hf /\ SameSent(p, q)
    BY <1>2, <1>4 DEF Calm, Mild, SameRoom, SameSent
  <1> QED
    BY <1>3, <1>5

LEMMA HardwareSafe ==
    ASSUME FlowInv, HandshakeInv, NEW e \in Ends, Shift(e) \/ Arrive(e) \/ Expire(e)
    PROVE  HandshakeInv'
  <1> DEFINE p == port[e]
             o == Peer[e]
  <1>1. p \in Port /\ o \in Ends /\ o # e /\ Peer[o] = e /\ port[o] \in Port
    BY EndsAssumption DEF FlowInv, Fit
  <1>2. CASE Shift(e)
    <2> DEFINE new == [p EXCEPT !.tsr = p.thr, !.thr = "none", !.thri = TRUE]
    <2>1. p.thr # "none" /\ p.tsr = "none" /\ port' = [port EXCEPT ![e] = new] /\ phase' = phase
      BY <1>2 DEF Shift, FlowInv, TypeOK
    <2>2. SameRoom(p, new) /\ new.tsr = p.thr /\ new.thr = "none" /\ new.hf = p.hf
      BY <1>1 DEF Port, SameRoom
    <2> HIDE DEF new
    <2>3. Handshaking(e) => Safe(new, phase[e], port[o])
      BY <2>2, HandshakeFacts, SameRoomSafe
    <2>4. Handshaking(o) => Safe(port[o], phase[o], new)
      <3>1. Room(port[o], p) => Room(port[o], new)
        BY <2>1, <2>2 DEF Room, Coming, One
      <3> QED
        BY <1>1, <3>1, HandshakeFacts DEF Safe
    <2> QED
      BY <2>1, <2>2, <2>3, <2>4, EndKeeps
  <1>3. CASE Arrive(e)
    <2> DEFINE c == IF Interrupts(o) THEN p.tsr ELSE "none"
               sent == [p EXCEPT !.tsr = "none"]
               got == [port[o] EXCEPT !.rbr = c]
    <2>1. /\ p.tsr # "none" /\ port[o].rbr = "none"
          /\ port' = [port EXCEPT ![e] = sent, ![o] = got] /\ phase' = phase
      BY <1>1, <1>3 DEF Arrive, FlowInv, TypeOK
    <2>2. c = p.tsr \/ c = "none"
      OBVIOUS
    <2> HIDE DEF c
    <2>3. SameRoom(p, sent) /\ sent.thr = p.thr /\ sent.tsr = "none" /\ sent.hf = p.hf
      BY <1>1 DEF Port, SameRoom
    <2>4. /\ got.hf = port[o].hf /\ SameSent(port[o], got) /\ got.rbr = c
          /\ got.Chars = port[o].Chars /\ got.saved = port[o].saved
          /\ got.lines = port[o].lines /\ got.RXHolding = port[o].RXHolding
      BY <1>1 DEF Port, SameSent
    <2> HIDE DEF sent, got, o
    <2>5. port'[e] = sent /\ port'[o] = got /\ \A x \in Ends \ {e, o} : port'[x] = port[x]
      BY <1>1, <2>1 DEF FlowInv, TypeOK
    <2>6. Handshaking(e) => Safe(sent, phase[e], got)
      BY <2>3, <2>4, HandshakeFacts, SameRoomSafe, SameSentSafe DEF o
    <2>7. ASSUME Handshaking(o) PROVE Safe(got, phase[o], sent)
      <3>1. Safe(port[o], phase[o], p)
        BY <1>1, <2>7, HandshakeFacts
      <3>2. ReadyIn(got, phase[o])
        BY <2>4, <3>1 DEF Safe, ReadyIn, RoomForThree
      <3>3. Coming(got, sent) <= Coming(port[o], p)
            /\ Coming(got, sent) \in Nat /\ Coming(port[o], p) \in Nat
        BY <2>1, <2>2, <2>3, <2>4 DEF Coming, One
      <3>4. Room(got, sent)
        BY <1>1, <2>4, <3>1, <3>3, LimitsAssumption DEF Safe, Room, Port
      <3> QED
        BY <3>2, <3>4 DEF Safe
    <2> QED
      <3>1. \A x \in {e, o} : port'[x].hf = port[x].hf
        BY <2>3, <2>4, <2>5
      <3>2. Handshaking(e) => Safe(port'[e], phase'[e], port'[o])
        BY <2>1, <2>5, <2>6
      <3>3. Handshaking(o) => Safe(port'[o], phase'[o], port'[e])
        BY <2>1, <2>5, <2>7
      <3> QED
        BY <2>1, <2>5, <3>1, <3>2, <3>3, CableKeeps DEF o
  <1>4. CASE Expire(e)
    <2> DEFINE new == [p EXCEPT !.timer = FALSE, !.fired = TRUE]
    <2>1. port' = [port EXCEPT ![e] = new] /\ phase' = phase
      BY <1>4 DEF Expire, FlowInv, TypeOK
    <2>2. Calm(p, new)
      BY <1>1 DEF Port, Calm, Mild, SameRoom, SameSent, SameHeard, Unasked, SameAsked
    <2> HIDE DEF new
    <2> QED
      BY <2>1, <2>2, CalmKeeps
  <1> QED
    BY <1>2, <1>3, <1>4

LEMMA WorkersSafe ==
    ASSUME FlowInv, HandshakeInv, NEW e \in Ends,
           SerialCompleteWrite(e) \/ SerialCompleteImmediate(e) \/ EndWrite(e)
             \/ EndImmediate(e) \/ SerialStartTimerLowerRTS(e)
             \/ SerialInvokePerhapsLowerRTS(e)
    PROVE  HandshakeInv'
  <1> DEFINE p == port[e]
  <1>1. p \in Port /\ WatchesEmpty[e] \in BOOLEAN /\ Retrieved(e) \subseteq Nat
    BY FlowInputsAssumption DEF FlowInv, Fit, Retrieved
  <1>2. phase' = phase
    BY DEF SerialCompleteWrite, SerialCompleteImmediate, EndWrite, EndImmediate, End,
           Asked,
           SerialStartTimerLowerRTS, SerialInvokePerhapsLowerRTS
  <1>3. CASE SerialCompleteWrite(e) \/ EndWrite(e)
    <2>1. PICK length \in Retrieved(e), emptied \in BOOLEAN :
            port' = Connected(e, SerialGetNextWrite(p, length, emptied /\ WatchesEmpty[e]))
      BY <1>3 DEF SerialCompleteWrite, EndWrite, Update
    <2>2. PICK told \in BOOLEAN : told = (emptied /\ WatchesEmpty[e])
      BY <1>1
    <2>3. port' = Connected(e, SerialGetNextWrite(p, length, told))
      BY <2>1, <2>2
    <2>4. Calm(p, SerialGetNextWrite(p, length, told))
      BY <1>1, GetNextWriteCalm
    <2> QED
      BY <1>2, <2>3, <2>4, CalmKeeps
  <1>4. CASE SerialCompleteImmediate(e) \/ EndImmediate(e)
    <2>1. PICK emptied \in BOOLEAN :
            port' = Connected(e, SerialGetNextImmediate(p, emptied /\ WatchesEmpty[e]))
      BY <1>4 DEF SerialCompleteImmediate, EndImmediate, Update
    <2>2. PICK told \in BOOLEAN : told = (emptied /\ WatchesEmpty[e])
      BY <1>1
    <2>3. port' = Connected(e, SerialGetNextImmediate(p, told))
      BY <2>1, <2>2
    <2>4. Calm(p, SerialGetNextImmediate(p, told))
      BY <1>1, GetNextImmediateCalm
    <2> QED
      BY <1>2, <2>3, <2>4, CalmKeeps
  <1>5. CASE SerialStartTimerLowerRTS(e)
    BY <1>1, <1>2, <1>5, StartTimerCalm, CalmKeeps DEF SerialStartTimerLowerRTS, Update
  <1>6. CASE SerialInvokePerhapsLowerRTS(e)
    <2> DEFINE ran == [p EXCEPT !.fired = FALSE]
    <2>1. port' = Connected(e, SerialPerhapsLowerRTS(ran))
      BY <1>6 DEF SerialInvokePerhapsLowerRTS, Update
    <2>2. ran \in Port /\ Calm(p, ran)
      BY <1>1 DEF Port, Calm, Mild, SameRoom, SameSent, SameHeard, Unasked, SameAsked
    <2> HIDE DEF ran
    <2> QED
      BY <1>2, <2>1, <2>2, PerhapsCalm, CalmTransitive, CalmKeeps
  <1> QED
    BY <1>3, <1>4, <1>5, <1>6

LEMMA ReadsSafe ==
    ASSUME FlowInv, HandshakeInv, NEW e \in Ends, Read(e) \/ ReadWaits(e)
    PROVE  HandshakeInv'
  <1> DEFINE p == port[e]
             o == Peer[e]
  <1>1. p \in Port /\ o \in Ends /\ Peer[o] = e
    BY EndsAssumption DEF FlowInv, Fit
  <1>2. CASE Read(e)
    <2>1. PICK taken \in 1 .. p.Chars :
            port' = Connected(e, SerialHandleReducedIntBuffer([p EXCEPT !.Chars = @ - taken]))
      BY <1>2 DEF Read, Update
    <2> DEFINE less == [p EXCEPT !.Chars = p.Chars - taken]
               new == SerialHandleReducedIntBuffer(less)
    <2>2. p.Chars - taken \in Nat /\ p.Chars - taken <= p.Chars
      BY <1>1 DEF Port
    <2>3. less \in Port /\ SameRest(p, less) /\ less.rbr = p.rbr
          /\ less.Chars = p.Chars - taken /\ less.lines = p.lines
          /\ less.RXHolding = p.RXHolding
      BY <1>1, <2>2 DEF Port, SameRest, SameSent
    <2>4. port' = Connected(e, new) /\ phase' = phase /\ phase[e] = "open"
      BY <1>2, <2>1 DEF Read
    <2> HIDE DEF less
    <2>5. Limits => SameRest(less, new) /\ new.rbr = less.rbr /\ new.Chars = less.Chars
                    /\ (Ready(less) => Ready(new))
      BY <2>3, ReducedRoom
    <2>6. new.hf = p.hf /\ SameSent(p, new)
      BY <2>3, ReducedSent DEF SameRest, SameSent
    <2> HIDE DEF new
    <2>7. ASSUME Handshaking(e) PROVE Safe(new, phase[e], port[o])
      <3>1. Limits /\ Safe(p, phase[e], port[o])
        BY <2>7, HandshakeFacts
      <3>2. new.rbr = p.rbr /\ new.Chars <= p.Chars /\ new.Chars \in Nat
        BY <2>2, <2>3, <2>5, <3>1
      <3>3. Ready(less)
        BY <1>1, <2>2, <2>3, <3>1, LimitsAssumption
           DEF Safe, ReadyIn, Ready, RoomForThree, Port
      <3>4. Room(new, port[o])
        <4>1. Coming(new, port[o]) = Coming(p, port[o]) /\ Coming(p, port[o]) \in Nat
          BY <3>2 DEF Coming, One
        <4> QED
          BY <1>1, <3>1, <3>2, <4>1, LimitsAssumption DEF Safe, Room, Port
      <3> QED
        BY <2>4, <2>5, <3>1, <3>3, <3>4 DEF Safe, ReadyIn, Ready
    <2>8. Handshaking(o) => Safe(port[o], phase[o], new)
      BY <1>1, <2>6, HandshakeFacts, SameSentSafe
    <2> QED
      BY <2>4, <2>6, <2>7, <2>8, EndKeeps
  <1>3. CASE ReadWaits(e)
    <2> DEFINE new == [p EXCEPT !.userBuffer = TRUE]
    <2>1. port' = Connected(e, new) /\ phase' = phase
      BY <1>3 DEF ReadWaits, Update
    <2>2. Calm(p, new)
      BY <1>1 DEF Port, Calm, Mild, SameRoom, SameSent, SameHeard, Unasked, SameAsked
    <2> HIDE DEF new
    <2> QED
      BY <2>1, <2>2, CalmKeeps
  <1> QED
    BY <1>2, <1>3

LEMMA RequestsSafe ==
    ASSUME FlowInv, HandshakeInv, NEW e \in Ends,
           \/ Write(e) \/ Immediate(e) \/ SetXoff(e) \/ SetXon(e)
           \/ SetBreakOn(e) \/ SetBreakOff(e) \/ SetModemLine(e) \/ SetHandFlow(e)
    PROVE  HandshakeInv'
  <1> DEFINE p == port[e]
  <1>1. p \in Port /\ Lengths \subseteq Nat
    BY FlowInputsAssumption DEF FlowInv, Fit
  <1>2. phase' = phase
    BY DEF Write, Immediate, SetXoff, SetXon, SetBreakOn, SetBreakOff, SetModemLine,
           SetHandFlow, Ask, Asked
  <1>3. CASE Write(e)
    <2> DEFINE queued == [p EXCEPT !.queued = p.queued + 1]
    <2>1. \/ port' = Connected(e, queued)
          \/ \E length \in Lengths : port' = Connected(e, SerialStartWrite(p, length))
      BY <1>3 DEF Write, Update
    <2>2. Calm(p, queued)
      BY <1>1 DEF Port, Calm, Mild, SameRoom, SameSent, SameHeard, Unasked, SameAsked
    <2>3. \A length \in Lengths : Calm(p, SerialStartWrite(p, length))
      BY <1>1, StartWriteCalm
    <2> HIDE DEF queued
    <2> QED
      BY <1>2, <2>1, <2>2, <2>3, CalmKeeps
  <1>4. CASE Immediate(e)
    BY <1>1, <1>2, <1>4, GiveImmediateCalm, CalmKeeps DEF Immediate, Update
  <1>5. CASE SetXoff(e)
    BY <1>1, <1>2, <1>5, PretendXoffCalm, CalmKeeps DEF SetXoff, Update
  <1>6. CASE SetXon(e)
    BY <1>1, <1>2, <1>6, PretendXonCalm, CalmKeeps DEF SetXon, Update
  <1>7. CASE SetBreakOn(e)
    BY <1>1, <1>2, <1>7, TurnOnBreakCalm, CalmKeeps DEF SetBreakOn, Update
  <1>8. CASE SetBreakOff(e)
    BY <1>1, <1>2, <1>8, TurnOffBreakCalm, CalmKeeps DEF SetBreakOff, Update
  <1>9. CASE SetModemLine(e)
    <2>1. PICK line \in {"RTS", "DTR"} :
            /\ p.hf[line] \notin {"handshake", "toggle"}
            /\ port' = Connected(e, Raise(p, line)) \/ port' = Connected(e, Lower(p, line))
      BY <1>9 DEF SetModemLine, Update
    <2>2. line = "DTR" \/ p.hf.RTS # "handshake"
      BY <2>1
    <2>3. Calm(p, Raise(p, line)) /\ Calm(p, Lower(p, line))
      BY <1>1, <2>2, RaiseCalm, LowerCalm
    <2> QED
      BY <1>2, <2>1, <2>3, CalmKeeps
  \* A port that may be given new flow control has no part in a handshake.
  <1>10. CASE SetHandFlow(e)
    <2>1. PICK new : port' = Connected(e, new)
      BY <1>10 DEF SetHandFlow, Update
    <2>2. ~Settled(e)
      BY <1>10 DEF SetHandFlow, Ask, Asked, Counted, Settled
    <2>3. ~Handshaking(e) /\ ~Handshaking(Peer[e])
      BY <2>2, EndsAssumption DEF Handshaking
    <2> QED
      BY <1>2, <2>1, <2>2, <2>3, EndKeeps
  <1> QED
    BY <1>3, <1>4, <1>5, <1>6, <1>7, <1>8, <1>9, <1>10

LEMMA CloseSafe ==
    ASSUME FlowInv, HandshakeInv, NEW e \in Ends,
           SerialFileCloseWorker(e) \/ SerialMarkClose(e) \/ DropDTR(e) \/ DropRTS(e)
    PROVE  HandshakeInv'
  <1> DEFINE p == port[e]
             o == Peer[e]
  <1>1. p \in Port /\ o \in Ends /\ Peer[o] = e /\ phase \in [Ends -> PHASES]
    BY EndsAssumption DEF FlowInv, Fit, TypeOK
  <1>2. CASE SerialFileCloseWorker(e)
    <2> DEFINE ended == [p EXCEPT !.userBuffer = FALSE]
    <2>1. phase' = [phase EXCEPT ![e] = "flushing"]
          /\ port' = Connected(e, SerialTurnOffBreak(ended))
      BY <1>2 DEF SerialFileCloseWorker, Stop, Turn, Update
    <2>2. ended \in Port /\ Calm(p, ended)
      BY <1>1 DEF Port, Calm, Mild, SameRoom, SameSent, SameHeard, Unasked, SameAsked
    <2> HIDE DEF ended
    <2>3. Calm(p, SerialTurnOffBreak(ended))
      BY <2>2, TurnOffBreakCalm, CalmTransitive
    <2> QED
      BY <1>1, <2>1, <2>3, CalmKeeps
  <1>3. CASE SerialMarkClose(e)
    <2> DEFINE marked == [p EXCEPT !.thri = FALSE, !.msi = FALSE, !.rbr = "none"]
               new == IF OwesXon(p) THEN [marked EXCEPT !.thr = "XON"] ELSE marked
    <2>1. HardwareEmpty(p) /\ phase' = [phase EXCEPT ![e] = "marked"]
          /\ port' = Connected(e, new)
      BY <1>3 DEF SerialMarkClose, Enter, Turn, Update
    <2>2. /\ new.hf = p.hf /\ new.rbr = "none" /\ new.Chars = p.Chars /\ new.lines = p.lines
          /\ new.RXHolding = p.RXHolding /\ new.tsr = p.tsr
          /\ new.thr = p.thr \/ new.thr = "XON"
      BY <1>1 DEF Port
    <2> HIDE DEF new
    <2>3. ASSUME Handshaking(e) PROVE Safe(new, "marked", port[o])
      <3>1. Safe(p, phase[e], port[o])
        BY <2>3, HandshakeFacts
      <3>2. Room(new, port[o])
        BY <1>1, <2>2, <3>1, DroppedRoom DEF Safe
      <3> QED
        BY <2>2, <3>1, <3>2 DEF Safe, ReadyIn, RoomForThree
    <2>4. Handshaking(o) => Safe(port[o], phase[o], new)
      <3>1. Coming(port[o], new) = Coming(port[o], p)
        BY <2>1, <2>2 DEF Coming, HardwareEmpty
      <3> QED
        BY <1>1, <3>1, HandshakeFacts DEF Safe, Room
    <2> QED
      BY <1>1, <2>1, <2>2, <2>3, <2>4, EndKeeps
  <1>4. CASE DropDTR(e)
    <2>1. phase' = [phase EXCEPT ![e] = "drained"] /\ port' = Connected(e, Lower(p, "DTR"))
      BY <1>4 DEF DropDTR, Enter, Turn, Update
    <2> QED
      BY <1>1, <2>1, LowerCalm, CalmKeeps
  <1>5. CASE DropRTS(e)
    <2> DEFINE low == Lower(p, "RTS")
               new == [low EXCEPT !.RXHolding = {}, !.TXHolding = {}]
    <2>1. phase' = [phase EXCEPT ![e] = "closed"] /\ port' = Connected(e, new)
      BY <1>5 DEF DropRTS, Enter, Turn, Update
    <2>2. low \in Port /\ Calm(p, low)
      BY <1>1, LowerCalm DEF Port, Lower
    <2> HIDE DEF low
    <2>3. Mild(low, new)
      BY <2>2 DEF Port, Mild, SameRoom, SameSent, SameHeard, Unasked
    <2> HIDE DEF new
    <2> QED
      BY <1>1, <2>1, <2>2, <2>3, MildTransitive, MildKeeps DEF Calm
  <1> QED
    BY <1>2, <1>3, <1>4, <1>5

LEMMA ReopenSafe ==
    ASSUME FlowInv, HandshakeInv, NEW e \in Ends, SerialDeviceFileCreateWorker(e)
    PROVE  HandshakeInv'
  <1> DEFINE p == port[e]
             o == Peer[e]
             fresh == [p EXCEPT !.Chars = 0, !.send = "none", !.told = "XON"]
             new == SerialReset(fresh, Inputs(e))
  <1>1. p \in Port /\ o \in Ends /\ Peer[o] = e /\ phase \in [Ends -> PHASES]
    BY EndsAssumption DEF FlowInv, Fit, TypeOK
  <1>2. phase' = [phase EXCEPT ![e] = "open"] /\ port' = Connected(e, new)
    BY DEF SerialDeviceFileCreateWorker, Enter, Turn, Update
  <1>3. /\ fresh \in Port /\ SameRest(p, fresh) /\ fresh.Chars = 0
        /\ fresh.lines = p.lines /\ fresh.RXHolding = p.RXHolding
    BY <1>1 DEF Port, SameRest, SameSent
  <1> HIDE DEF fresh
  <1>4. /\ SameRest(fresh, new) /\ new.rbr = "none" /\ new.Chars = 0
        /\ fresh.hf.RTS = "handshake" /\ BufferSize >= 3 /\ Ready(fresh) => Ready(new)
    BY <1>3, InputsType, ResetRoom
  <1> HIDE DEF new
  <1>5. SameRest(p, new)
    BY <1>3, <1>4 DEF SameRest, SameSent
  <1>6. ASSUME Handshaking(e) PROVE Safe(new, "open", port[o])
    <2>1. Limits /\ p.hf.RTS = "handshake" /\ Safe(p, phase[e], port[o])
      BY <1>6, HandshakeFacts
    <2>2. BufferSize >= 3
      BY <2>1, LimitsAssumption DEF Limits
    <2>3. Ready(fresh)
      BY <1>3, <2>1, <2>2, LimitsAssumption DEF Safe, ReadyIn, Ready, RoomForThree
    <2>4. Ready(new)
      BY <1>3, <1>4, <2>1, <2>2, <2>3 DEF SameRest
    <2>5. Room(new, port[o])
      <3>1. Coming(new, port[o]) \in 0 .. 3
        BY <1>4 DEF Coming, One
      <3> QED
        BY <1>4, <2>2, <3>1, LimitsAssumption DEF Room
    <2> QED
      BY <2>4, <2>5 DEF Safe, ReadyIn, Ready
  <1>7. Handshaking(o) => Safe(port[o], phase[o], new)
    BY <1>1, <1>5, HandshakeFacts, SameSentSafe DEF SameRest
  <1> QED
    BY <1>1, <1>2, <1>5, <1>6, <1>7, EndKeeps DEF SameRest

\* The lines come back as they were, and nothing has been read or received meanwhile.
LEMMA SuspendSafe ==
    ASSUME FlowInv, HandshakeInv, NEW e \in Ends,
           \/ SerialEvtIoStop(e) \/ SerialEvtDeviceD0Exit(e)
           \/ SerialSaveDeviceState(e) \/ SerialEvtDeviceD0Entry(e)
    PROVE  HandshakeInv'
  <1> DEFINE p == port[e]
             o == Peer[e]
  <1>1. p \in Port /\ o \in Ends /\ Peer[o] = e /\ phase \in [Ends -> PHASES]
    BY EndsAssumption DEF FlowInv, Fit, TypeOK
  <1>2. CASE SerialEvtIoStop(e)
    <2>1. phase' = [phase EXCEPT ![e] = "stopping"] /\ port' = [port EXCEPT ![e] = p]
      BY <1>2 DEF SerialEvtIoStop, Stop, Turn, FlowInv, TypeOK
    <2> QED
      BY <1>1, <2>1, CalmReflexive, CalmKeeps
  <1>3. CASE SerialEvtDeviceD0Exit(e)
    <2>1. phase' = [phase EXCEPT ![e] = "draining"] /\ port' = Connected(e, p)
      BY <1>3 DEF SerialEvtDeviceD0Exit, Enter, Turn, Update
    <2> QED
      BY <1>1, <2>1, CalmReflexive, CalmKeeps
  <1>4. CASE SerialSaveDeviceState(e)
    <2> DEFINE new == PoweredDown(p)
    <2>1. phase[e] = "draining" /\ phase' = [phase EXCEPT ![e] = "asleep"]
          /\ port' = Connected(e, new)
      BY <1>4 DEF SerialSaveDeviceState, Enter, Turn, Update
    <2>2. /\ new.hf = p.hf /\ SameSent(p, new) /\ new.rbr = "none" /\ new.Chars = p.Chars
          /\ new.lines = {} /\ new.saved = p.lines /\ new.RXHolding = p.RXHolding
      BY <1>1 DEF Port, PoweredDown, SameSent
    <2> HIDE DEF new
    <2>3. ASSUME Handshaking(e) PROVE Safe(new, "asleep", port[o])
      <3>1. Safe(p, phase[e], port[o])
        BY <2>3, HandshakeFacts
      <3>2. Room(new, port[o])
        BY <1>1, <2>2, <3>1, DroppedRoom DEF Safe
      <3> QED
        BY <2>2, <3>1, <3>2 DEF Safe, ReadyIn, RoomForThree
    <2>4. Handshaking(o) => Safe(port[o], phase[o], new)
      BY <1>1, <2>2, HandshakeFacts, SameSentSafe
    <2> QED
      BY <1>1, <2>1, <2>2, <2>3, <2>4, EndKeeps
  <1>5. CASE SerialEvtDeviceD0Entry(e)
    <2> DEFINE poked == Poke(p)
               new == [poked EXCEPT !.lines = p.saved, !.saved = {}, !.msi = FALSE,
                                    !.told = "XON"]
    <2>1. phase[e] = "asleep" /\ phase' = [phase EXCEPT ![e] = "open"]
          /\ port' = Connected(e, new)
      BY <1>5 DEF SerialEvtDeviceD0Entry, PoweredUp, Enter, Turn, Update
    <2>2. poked \in Port /\ Calm(p, poked)
      BY <1>1, PokeSteady, PokeCalm DEF Steady
    <2> HIDE DEF poked
    <2>3. /\ new.hf = p.hf /\ SameSent(p, new) /\ new.rbr = p.rbr /\ new.Chars = p.Chars
          /\ new.lines = p.saved
          /\ "RTS" \in new.RXHolding => "RTS" \in p.RXHolding
      BY <2>2 DEF Port, Calm, Mild, SameRoom, SameSent, SameHeard, Unasked, SameAsked
    <2> HIDE DEF new
    <2>4. Handshaking(e) => Safe(new, "open", port[o])
      <3>1. Room(p, port[o]) => Room(new, port[o])
        BY <2>3 DEF Room, Coming, One
      <3> QED
        BY <2>1, <2>3, <3>1, HandshakeFacts DEF Safe, ReadyIn, RoomForThree
    <2>5. Handshaking(o) => Safe(port[o], phase[o], new)
      BY <1>1, <2>3, HandshakeFacts, SameSentSafe
    <2> QED
      BY <1>1, <2>1, <2>3, <2>4, <2>5, EndKeeps
  <1> QED
    BY <1>2, <1>3, <1>4, <1>5

LEMMA HandshakeStarts == Init => HandshakeInv
  <1> SUFFICES ASSUME Init, NEW e \in Ends, Handshaking(e)
               PROVE  Safe(port[e], phase[e], port[Peer[e]])
    BY DEF HandshakeInv
  <1>1. PICK hf \in [Ends -> HandFlow] :
          port = [x \in Ends |-> Opened(hf[x],
                     {line \in OutLines : Wire(line) \in Up(hf[Peer[x]])})]
    BY DEF Init
  <1>2. Peer[e] \in Ends /\ phase[e] = "open"
    BY EndsAssumption DEF Init
  <1>3. /\ port[e].rbr = "none" /\ port[e].Chars = 0 /\ "RTS" \notin port[e].RXHolding
        /\ port[Peer[e]].thr = "none" /\ port[Peer[e]].tsr = "none"
    BY <1>1, <1>2 DEF Opened
  <1>4. 0 + 3 <= BufferSize /\ BufferSize \in Nat
    BY LimitsAssumption DEF Handshaking
  <1> QED
    BY <1>2, <1>3, <1>4 DEF Safe, ReadyIn, RoomForThree, Room, Coming

LEMMA HandshakeKeeps == FlowInv /\ HandshakeInv /\ [Next]_vars => HandshakeInv'
  <1> SUFFICES ASSUME FlowInv, HandshakeInv, [Next]_vars PROVE HandshakeInv'
    OBVIOUS
  <1>1. CASE Next
    BY <1>1, InterruptSafe, HardwareSafe, WorkersSafe, ReadsSafe, RequestsSafe, CloseSafe,
       ReopenSafe, SuspendSafe DEF Next
  <1>2. CASE UNCHANGED vars
    BY <1>2 DEF vars, HandshakeInv, Handshaking, Settled, Safe, ReadyIn, RoomForThree,
                Room,
                Coming, One
  <1> QED
    BY <1>1, <1>2

-------------------------------------------------------------------------------
(* Xoff and Xon as the other end hears them. *)

\* What the routines that are not calm do to what a port hears and asks for.
SameWire(p, q) == SameSent(p, q) /\ SameHeard(p, q) /\ q.rbr = p.rbr
SameLink(p, q) == SameWire(p, q) /\ (q.send = "XOFF" => p.send = "XOFF")

LEMMA MildWire == ASSUME NEW p, NEW q, Mild(p, q) PROVE SameWire(p, q)
  BY DEF Mild, SameRoom, SameWire

LEMMA CalmLink == ASSUME NEW p, NEW q, Calm(p, q) PROVE SameLink(p, q)
  BY MildWire DEF Calm, SameAsked, SameLink

LEMMA WireTransitive ==
    ASSUME NEW p, NEW q, NEW r, SameWire(p, q), SameWire(q, r) PROVE SameWire(p, r)
  BY DEF SameWire, SameSent, SameHeard

LEMMA LinkTransitive ==
    ASSUME NEW p, NEW q, NEW r, SameLink(p, q), SameLink(q, r) PROVE SameLink(p, r)
  BY WireTransitive DEF SameLink

LEMMA SendLink ==
    ASSUME NEW p \in Port, NEW char \in {"data", "XON", "XOFF"}
    PROVE  LET q == Send(p, char)
           IN /\ q \in Port /\ q.thr = char /\ q.tsr = p.tsr /\ q.hf = p.hf
              /\ q.rbr = p.rbr /\ q.told = p.told /\ Unasked(q)
              /\ q.send = p.send /\ q.RXHolding = p.RXHolding
  <1> DEFINE sent == [p EXCEPT !.thr = char, !.HoldingEmpty = FALSE, !.thri = FALSE]
             raised == Raise(sent, "RTS")
             Linked(q) == /\ q.thr = char /\ q.tsr = p.tsr /\ q.hf = p.hf
                          /\ q.rbr = p.rbr /\ q.told = p.told /\ Unasked(q)
                          /\ q.send = p.send /\ q.RXHolding = p.RXHolding
  <1>1. sent \in Port /\ Linked(sent)
    BY DEF Port, Unasked
  <1>2. Send(p, char) = IF Toggles(p) THEN InsertDpc(raised) ELSE sent
    BY DEF Send
  <1> HIDE DEF sent
  <1>3. raised \in Port /\ Linked(raised)
    BY <1>1 DEF Port, Raise, Unasked
  <1> HIDE DEF raised
  <1>4. Linked(InsertDpc(raised))
    BY <1>3 DEF Port, InsertDpc, Unasked
  <1>5. Send(p, char) \in Port
    BY SendKeeps
  <1> HIDE DEF Linked
  <1>6. Linked(Send(p, char))
    BY <1>1, <1>2, <1>4
  <1> QED
    BY <1>5, <1>6 DEF Linked

\* A data character, an Xon that ends what was asked, or the Xoff that was to be sent.
Spoken(p, q) ==
    \/ q.thr \in {p.thr, "data"} /\ SameAsked(p, q)
    \/ q.thr = "XON" /\ q.send = "none"
    \/ q.thr = "XOFF" /\ p.send = "XOFF" /\ SameAsked(p, q)

LEMMA SentXoffSpoken ==
    ASSUME NEW p \in Port, p.send = "XOFF"
    PROVE  SameHeard(p, SentXoff(p)) /\ Spoken(p, SentXoff(p))
  <1> DEFINE s == Send(p, "XOFF")
             sent == [s EXCEPT !.send = "none"]
             held == [sent EXCEPT !.TXHolding = {"XOFF"}]
             Said(q) == q.thr = "XOFF" /\ q.told = p.told /\ Unasked(q) /\ SameAsked(p, q)
  <1>1. SentXoff(p) = IF p.hf.xoffContinue THEN sent
                      ELSE IF Toggles(p) THEN InsertDpc(held) ELSE held
    BY DEF SentXoff
  <1>2. s \in Port /\ Said(s)
    BY SendLink DEF SameAsked
  <1> HIDE DEF s
  <1>3. sent \in Port /\ Said(sent)
    BY <1>2 DEF Port, SameAsked, Unasked
  <1> HIDE DEF sent
  <1>4. held \in Port /\ Said(held)
    BY <1>3 DEF Port, SameAsked, Unasked
  <1> HIDE DEF held
  <1>5. Said(InsertDpc(held))
    <2>1. Calm(held, InsertDpc(held))
      BY <1>4, InsertDpcCalm
    <2> QED
      BY <1>4, <2>1 DEF Calm, Mild, SameSent, SameHeard, SameAsked
  <1> HIDE DEF Said
  <1>6. Said(SentXoff(p))
    BY <1>1, <1>3, <1>4, <1>5
  <1> QED
    BY <1>6 DEF Said, SameHeard, Spoken

LEMMA SendNextSpoken ==
    ASSUME NEW p \in Port
    PROVE  SameHeard(p, SendNext(p)) /\ Spoken(p, SendNext(p))
  <1> DEFINE x == Send(p, "XON")
             d == Send(p, "data")
             xon == [x EXCEPT !.send = "none", !.TXHolding = {}, !.RXHolding = @ \ {"XOFF"}]
             sent == [d EXCEPT !.immediate = "sent"]
             written == [d EXCEPT !.WriteLength = @ - 1]
             Good(q) == SameHeard(p, q) /\ Spoken(p, q)
  <1>1. /\ x \in Port /\ x.thr = "XON" /\ x.told = p.told /\ Unasked(x)
        /\ d \in Port /\ d.thr = "data" /\ d.told = p.told /\ Unasked(d) /\ SameAsked(p, d)
    BY SendLink DEF SameAsked
  <1>2. SendNext(p) =
          IF p.send = "XON" /\ p.TXHolding \subseteq {"XOFF"} THEN xon
          ELSE IF p.send = "XOFF" /\ p.TXHolding = {} THEN SentXoff(p)
          ELSE IF TransmitImmediate(p) /\ p.TXHolding \subseteq {"XOFF"} THEN sent
          ELSE IF p.TXHolding = {} /\ p.WriteLength > 0 THEN written
          ELSE p
    BY DEF SendNext, x, d
  <1> HIDE DEF x, d
  <1>3. Good(xon)
    BY <1>1 DEF Port, SameHeard, Spoken, Unasked
  <1>4. Good(sent)
    BY <1>1 DEF Port, SameHeard, Spoken, SameAsked, Unasked
  <1>5. Good(written)
    BY <1>1 DEF Port, SameHeard, Spoken, SameAsked, Unasked
  <1>6. Good(p)
    BY DEF SameHeard, Spoken, SameAsked
  <1>7. p.send = "XOFF" => Good(SentXoff(p))
    BY SentXoffSpoken
  <1> HIDE DEF Good, xon, sent, written
  <1>8. Good(SendNext(p))
    BY <1>2, <1>3, <1>4, <1>5, <1>6, <1>7
  <1> QED
    BY <1>8 DEF Good

LEMMA TransmitSpoken ==
    ASSUME NEW p \in Port, NEW inputs \in SUBSET OutLines
    PROVE  LET q == SendNext(ReadyToSend(p, inputs))
           IN SameHeard(p, q) /\ Spoken(p, q)
  <1> DEFINE empty == [p EXCEPT !.thri = FALSE, !.HoldingEmpty = TRUE]
             seen == SerialHandleModemUpdate(empty, inputs, TRUE)
             r == ReadyToSend(p, inputs)
  <1>1. empty \in Port /\ Calm(p, empty)
    BY DEF Port, Calm, Mild, SameRoom, SameSent, SameHeard, Unasked, SameAsked
  <1>2. r \in {empty, seen}
    BY DEF ReadyToSend
  <1> HIDE DEF empty
  <1>3. Calm(p, seen)
    BY <1>1, ModemUpdateCalm, CalmTransitive
  <1>4. r \in Port /\ Calm(p, r)
    BY <1>1, <1>2, <1>3, ReadyKeeps
  <1> HIDE DEF r
  <1>5. SameHeard(r, SendNext(r)) /\ Spoken(r, SendNext(r))
    BY <1>4, SendNextSpoken
  <1>6. SameHeard(p, SendNext(r)) /\ Spoken(p, SendNext(r))
    BY <1>4, <1>5 DEF Calm, Mild, SameSent, SameHeard, SameAsked, Spoken
  <1> QED
    BY <1>6 DEF r

\* The other end is asked to stop, or what was asked of it stands.
MoreAsked(p, q) ==
    /\ "XOFF" \in p.RXHolding => "XOFF" \in q.RXHolding
    /\ q.send = "XOFF" => p.send = "XOFF" \/ "XOFF" \in q.RXHolding

LEMMA IntoTypeaheadAsks ==
    ASSUME NEW p \in Port
    PROVE  SameHeard(p, IntoTypeahead(p)) /\ MoreAsked(p, IntoTypeahead(p))
           /\ IntoTypeahead(p).rbr = p.rbr
  <1> DEFINE new == IF Threshold(p) THEN HoldsOff(p.hf) \ p.RXHolding ELSE {}
             held == [p EXCEPT !.RXHolding = @ \cup new, !.lines = @ \ new]
             prod == SerialProdXonXoff(held, "XOFF")
             asked == IF "XOFF" \in new THEN prod ELSE held
             full == [asked EXCEPT !.Chars = asked.Chars + 1]
             Asks(q) == SameHeard(p, q) /\ MoreAsked(p, q) /\ q.rbr = p.rbr
  <1>1. new \subseteq Holds
    BY DEF HoldsOff, Holds
  <1> HIDE DEF new
  <1>2. held \in Port /\ Asks(held) /\ ("XOFF" \in new => "XOFF" \in held.RXHolding)
    <2>1. held \in Port
      BY <1>1 DEF Port
    <2>2. Asks(held) /\ ("XOFF" \in new => "XOFF" \in held.RXHolding)
      BY DEF Port, SameHeard, MoreAsked, Unasked
    <2> QED
      BY <2>1, <2>2
  <1>3. IntoTypeahead(p) \in {asked, full}
    BY DEF IntoTypeahead, asked, held, new
  <1> HIDE DEF held
  <1>4. prod \in Port /\ Mild(held, prod) /\ prod.RXHolding = held.RXHolding
    <2>1. prod.RXHolding = held.RXHolding
      BY <1>2 DEF Port, SerialProdXonXoff, Poke
    <2> QED
      BY <1>2, <2>1, ProdMild, ProdSteady DEF Steady
  <1>5. "XOFF" \in new => Asks(prod)
    BY <1>2, <1>4 DEF Mild, SameRoom, SameHeard, MoreAsked
  <1> HIDE DEF prod
  <1>6. asked \in Port /\ Asks(asked)
    BY <1>2, <1>4, <1>5
  <1> HIDE DEF asked
  <1>7. Asks(full)
    BY <1>6 DEF Port, SameHeard, MoreAsked, Unasked
  <1> HIDE DEF Asks
  <1>8. Asks(IntoTypeahead(p))
    BY <1>3, <1>6, <1>7
  <1> QED
    BY <1>8 DEF Asks

\* What is received is heard, and may make the port ask the other end to stop.
LEMMA ReceivedHears ==
    ASSUME NEW p \in Port, NEW inputs \in SUBSET OutLines, p.rbr # "none"
    PROVE  LET q == Received(p, inputs)
           IN /\ q.rbr = "none" /\ q.told = Heard(p) /\ (Unasked(p) => Unasked(q))
              /\ MoreAsked(p, q)
  <1> DEFINE taken == [p EXCEPT !.rbr = "none",
                                !.told = IF p.rbr = "data" THEN @ ELSE p.rbr]
             seen == IF taken.hf.sensitive
                       THEN SerialHandleModemUpdate(taken, inputs, FALSE) ELSE taken
             given == [seen EXCEPT !.userBuffer = FALSE]
             held == [taken EXCEPT !.TXHolding = @ \cup {"XOFF"}]
             let == [taken EXCEPT !.TXHolding = @ \ {"XOFF"}]
             Hears(q) == /\ q.rbr = "none" /\ q.told = Heard(p) /\ (Unasked(p) => Unasked(q))
                         /\ MoreAsked(p, q)
  <1>1. taken \in Port /\ Hears(taken)
    <2>1. taken \in Port
      BY DEF Port
    <2>2. Hears(taken)
      BY DEF Port, Heard, Unasked, MoreAsked
    <2> QED
      BY <2>1, <2>2
  <1>2. Received(p, inputs) =
          IF p.rbr = "data" \/ ~p.hf.autoTransmit THEN SerialPutChar(taken, inputs)
          ELSE IF p.rbr = "XOFF"
            THEN IF Toggles(p) THEN InsertDpc(held) ELSE held
          ELSE let
    BY DEF Received
  <1> HIDE DEF taken
  <1>3. SerialPutChar(taken, inputs) \in {seen, given, IntoTypeahead(seen)}
    BY DEF SerialPutChar
  <1>4. seen \in Port /\ Calm(taken, seen)
    BY <1>1, ModemUpdateCalm, ModemUpdateKeeps, CalmReflexive DEF Keeps
  <1> HIDE DEF seen
  <1>5. Calm(seen, given)
    BY <1>4 DEF Port, Calm, Mild, SameRoom, SameSent, SameHeard, Unasked, SameAsked
  <1>6. held \in Port /\ Calm(taken, held) /\ Calm(taken, let)
    BY <1>1 DEF Port, Calm, Mild, SameRoom, SameSent, SameHeard, Unasked, SameAsked
  <1> HIDE DEF given, held, let
  <1>7. ASSUME NEW q, Calm(taken, q) PROVE Hears(q)
    BY <1>1, <1>7 DEF Calm, Mild, SameRoom, SameHeard, SameAsked, MoreAsked
  <1>8. Hears(seen) /\ Hears(given) /\ Hears(held) /\ Hears(let) /\ Hears(InsertDpc(held))
    BY <1>4, <1>5, <1>6, <1>7, InsertDpcCalm, CalmTransitive
  <1>9. Hears(IntoTypeahead(seen))
    BY <1>4, <1>8, IntoTypeaheadAsks DEF SameHeard, MoreAsked
  <1> HIDE DEF Hears
  <1>10. Hears(Received(p, inputs))
    BY <1>2, <1>3, <1>8, <1>9
  <1> QED
    BY <1>10 DEF Hears

LEMMA ReducedAsked ==
    ASSUME NEW p \in Port
    PROVE  LET q == SerialHandleReducedIntBuffer(p)
           IN q.rbr = p.rbr /\ SameHeard(p, q) /\ SameAsked(p, q)
  <1> DEFINE let == p.RXHolding \cap {"DTR", "RTS"}
             released == [p EXCEPT !.RXHolding = @ \ let, !.lines = @ \cup let]
             prod == SerialProdXonXoff(released, "XON")
             Like(q) == q.rbr = p.rbr /\ SameHeard(p, q) /\ SameAsked(p, q)
  <1>1. let \subseteq {"DTR", "RTS"}
    OBVIOUS
  <1> HIDE DEF let
  <1>2. released \in Port /\ Like(released)
    BY <1>1 DEF Port, SameHeard, SameAsked, Unasked
  <1>3. SerialHandleReducedIntBuffer(p) \in {p, released, prod}
    BY DEF SerialHandleReducedIntBuffer, released, let
  <1> HIDE DEF released
  <1>4. Calm(released, prod)
    BY <1>2, ProdCalm
  <1>5. Like(p) /\ Like(prod)
    BY <1>2, <1>4 DEF Calm, Mild, SameRoom, SameHeard, SameAsked
  <1> HIDE DEF Like, prod
  <1>6. Like(SerialHandleReducedIntBuffer(p))
    BY <1>2, <1>3, <1>5
  <1> QED
    BY <1>6 DEF Like

\* New flow control, and that of an open, leave what is on the wire alone.
LEMMA HandshakeLink ==
    ASSUME NEW p \in Port, NEW line \in {"RTS", "DTR"} PROVE SameLink(p, Handshake(p, line))
  <1> DEFINE unheld == [p EXCEPT !.RXHolding = @ \ {line}]
             held == [p EXCEPT !.RXHolding = @ \cup {line}]
  <1>1. Handshake(p, line) \in {p, Raise(p, line), Raise(unheld, line), Lower(held, line)}
    BY DEF Handshake
  <1>2. SameLink(p, p) /\ SameLink(p, Raise(p, line)) /\ SameLink(p, Raise(unheld, line))
    BY DEF Port, Raise, SameLink, SameWire, SameSent, SameHeard, Unasked
  <1>3. SameLink(p, Lower(held, line))
    BY DEF Port, Lower, SameLink, SameWire, SameSent, SameHeard, Unasked
  <1> HIDE DEF unheld, held
  <1> QED
    BY <1>1, <1>2, <1>3

LEMMA StartTogglingLink == ASSUME NEW p \in Port PROVE SameLink(p, StartToggling(p))
  <1> DEFINE h == IF "BREAK" \in p.TXHolding THEN p.HoldingEmpty ELSE p.thr = "none"
             t == [p EXCEPT !.hf.RTS = "toggle", !.HoldingEmpty = h]
  <1>1. h \in BOOLEAN
    BY DEF Port
  <1>2. StartToggling(p) \in {Raise(t, "RTS"), TryToLowerRTS(t)}
    BY DEF StartToggling
  <1> HIDE DEF h
  <1>3. t \in Port
    BY <1>1 DEF Port, HandFlow
  <1>4. SameLink(p, t) /\ t.hf.RTS = "toggle"
    BY DEF Port, HandFlow, SameLink, SameWire, SameSent, SameHeard, Unasked
  <1> HIDE DEF t
  <1>5. SameLink(t, Raise(t, "RTS")) /\ SameLink(t, TryToLowerRTS(t))
    BY <1>3, <1>4, RaiseCalm, TryCalm, CalmLink
  <1> QED
    BY <1>2, <1>4, <1>5, LinkTransitive

LEMMA ResetLineLink ==
    ASSUME NEW p \in Port, NEW line \in {"RTS", "DTR"},
           NEW how \in {"off", "control", "handshake", "toggle"}
    PROVE  SameLink(p, ResetLine(p, line, how))
  <1> DEFINE unheld == [p EXCEPT !.RXHolding = @ \ {line}]
  <1>1. unheld \in Port /\ SameLink(p, unheld)
    BY DEF Port, SameLink, SameWire, SameSent, SameHeard, Unasked
  <1>2. ResetLine(p, line, how) \in {Handshake(p, line), Raise(unheld, line),
                                     StartToggling(unheld), Lower(unheld, line)}
    BY DEF ResetLine
  <1> HIDE DEF unheld
  <1>3. SameLink(unheld, Raise(unheld, line))
    BY <1>1 DEF Port, Raise, SameLink, SameWire, SameSent, SameHeard, Unasked
  <1>4. SameLink(unheld, Lower(unheld, line)) /\ SameLink(unheld, StartToggling(unheld))
    BY <1>1, LowerCalm, CalmLink, StartTogglingLink
  <1> QED
    BY <1>1, <1>2, <1>3, <1>4, HandshakeLink, LinkTransitive

LEMMA SetHandFlowWire ==
    ASSUME NEW p \in Port, NEW new \in HandFlow, NEW inputs \in SUBSET OutLines
    PROVE  SameWire(p, SerialSetHandFlow(p, new, inputs))
  <1> DEFINE d == SetLine(p, "DTR", new.DTR)
             r == SetLine(d, "RTS", new.RTS)
             a == SetAutoReceive(r, new.autoReceive)
             let == [a EXCEPT !.TXHolding = @ \ {"XOFF"}]
             t == SetAutoTransmit(a, new.autoTransmit)
             q == [t EXCEPT !.hf = new]
  <1>0. /\ new.DTR \in {"off", "control", "handshake"}
        /\ new.RTS \in {"off", "control", "handshake", "toggle"}
        /\ new.autoReceive \in BOOLEAN /\ new.autoTransmit \in BOOLEAN
    BY DEF HandFlow
  <1>1. d \in Port /\ SameWire(p, d)
    BY <1>0, SetDTRKeeps, ResetLineLink DEF SetLine, SameLink, SameWire, SameSent, SameHeard
  <1>2. r \in Port /\ SameWire(d, r)
    <2> HIDE DEF d
    <2>1. ResetLine(d, "RTS", new.RTS) \in Port /\ SameWire(d, ResetLine(d, "RTS", new.RTS))
      BY <1>0, <1>1, ResetRTSCovers, ResetLineLink DEF SameLink
    <2> QED
      BY <1>1, <2>1 DEF SetLine, SameWire, SameSent, SameHeard
  <1>3. a \in Port /\ Mild(r, a)
    <2> HIDE DEF r
    <2> QED
      BY <1>0, <1>2, SetAutoReceiveSteady, ResetAutoReceiveMild, CalmReflexive
         DEF SetAutoReceive, Steady
  <1>4. t \in Port /\ Mild(a, t)
    <2> HIDE DEF a
    <2>1. let \in Port /\ Mild(a, let)
      BY <1>3 DEF Port, Mild, SameRoom, SameSent, SameHeard, Unasked
    <2>2. t \in {a, SerialProdXonXoff(let, "XON")}
      BY DEF SetAutoTransmit
    <2> HIDE DEF let
    <2>3. Mild(a, SerialProdXonXoff(let, "XON"))
      BY <2>1, ProdMild, MildTransitive
    <2>4. t \in Port
      BY <1>0, <1>3, SetAutoTransmitSteady DEF Steady
    <2> HIDE DEF t
    <2> QED
      BY <2>2, <2>3, <2>4, CalmReflexive
  <1>5. SerialSetupNewHandFlow(p, new) = q
    BY DEF SerialSetupNewHandFlow
  <1> HIDE DEF d, r, a, t
  <1>6. q \in Port /\ SameWire(t, q)
    BY <1>4 DEF Port, SameWire, SameSent, SameHeard, Unasked
  <1> HIDE DEF q
  <1>7. SameWire(p, q)
    BY <1>1, <1>2, <1>3, <1>4, <1>6, MildWire, WireTransitive
  <1>8. SameWire(q, SerialHandleModemUpdate(q, inputs, FALSE))
    BY <1>6, ModemUpdateCalm, MildWire DEF Calm
  <1> QED
    BY <1>5, <1>7, <1>8, WireTransitive DEF SerialSetHandFlow

\* An open that finds no room asks the other end to stop, and knows that it does.
LEMMA ResetAsks ==
    ASSUME NEW p \in Port, NEW inputs \in SUBSET OutLines, p.send = "none"
    PROVE  LET q == SerialReset(p, inputs)
           IN /\ q.told = p.told /\ Unasked(q)
              /\ p.hf.autoReceive /\ q.send = "XOFF" => "XOFF" \in q.RXHolding
  <1> DEFINE quiet == [p EXCEPT !.rbr = "none", !.thri = FALSE]
             d == ResetLine(quiet, "DTR", p.hf.DTR)
             r == ResetLine(d, "RTS", p.hf.RTS)
             a == ResetAutoReceive(r, p.hf.autoReceive)
             m == SerialHandleModemUpdate(a, inputs, FALSE)
             q == [m EXCEPT !.HoldingEmpty = TRUE]
             held == [r EXCEPT !.RXHolding = @ \cup {"XOFF"}]
  <1>0. /\ p.hf.DTR \in {"off", "control", "handshake"}
        /\ p.hf.RTS \in {"off", "control", "handshake", "toggle"}
        /\ p.hf.autoReceive \in BOOLEAN
    BY DEF Port, HandFlow
  <1>1. quiet \in Port /\ quiet.told = p.told /\ Unasked(quiet) /\ quiet.send = "none"
    <2>1. quiet \in Port
      BY DEF Port
    <2> QED
      BY <2>1 DEF Port, Unasked
  <1>2. d \in Port /\ SameLink(quiet, d)
    <2> HIDE DEF quiet
    <2> QED
      BY <1>0, <1>1, ResetDTRKeeps, ResetLineLink
  <1>3. r \in Port /\ SameLink(d, r)
    <2> HIDE DEF d
    <2> QED
      BY <1>0, <1>2, ResetRTSCovers, ResetLineLink
  <1>4. a \in Port /\ Mild(r, a)
    <2> HIDE DEF r
    <2> QED
      BY <1>0, <1>3, ResetAutoReceiveSteady, ResetAutoReceiveMild DEF Steady
  <1>5. r.send # "XOFF"
    BY <1>1, <1>2, <1>3 DEF SameLink
  <1>6. p.hf.autoReceive /\ a.send = "XOFF" => "XOFF" \in a.RXHolding
    <2> HIDE DEF r
    <2>1. "XOFF" \in SerialProdXonXoff(held, "XOFF").RXHolding
      BY <1>3 DEF Port, SerialProdXonXoff, Poke
    <2> QED
      BY <1>5, <2>1 DEF ResetAutoReceive
  <1>7. m \in Port /\ Calm(a, m)
    <2> HIDE DEF a
    <2> QED
      BY <1>4, ModemUpdateKeeps, ModemUpdateCalm DEF Keeps
  <1>8. Calm(m, q)
    <2> HIDE DEF m
    <2> QED
      BY <1>7 DEF Port, Calm, Mild, SameRoom, SameSent, SameHeard, Unasked, SameAsked
  <1>9. SerialReset(p, inputs) = q
    BY DEF SerialReset
  <1> HIDE DEF quiet, d, r, a, m, q, held
  <1>10. Calm(a, q) /\ SameWire(r, q)
    BY <1>4, <1>7, <1>8, CalmTransitive, MildTransitive, MildWire DEF Calm
  <1>11. q.told = p.told /\ Unasked(q)
    BY <1>1, <1>2, <1>3, <1>10 DEF SameLink, SameWire, SameHeard
  <1>12. p.hf.autoReceive /\ q.send = "XOFF" => "XOFF" \in q.RXHolding
    BY <1>6, <1>10 DEF Calm, SameAsked
  <1> QED
    BY <1>9, <1>11, <1>12

-------------------------------------------------------------------------------
(* Whoever has been asked to stop is owed an Xon until it has been sent. *)

IsOpened(ph) == ph \in {"open", "stopping"}
Muted == {"marked", "drained", "closed"}     \* the close has made up for it

\* The last Xon or Xoff on its way from s to r; what is not open forgets what it heard.
Last(s, r, ph) ==
    IF s.thr \in {"XON", "XOFF"} THEN s.thr
    ELSE IF s.tsr \in {"XON", "XOFF"} THEN s.tsr
    ELSE IF IsOpened(ph) THEN Heard(r) ELSE "XON"

Owing(s, phs, r, phr) ==
    IF phs \in Muted THEN Last(s, r, phr) = "XON"
    ELSE Last(s, r, phr) = "XOFF" \/ s.send = "XOFF" => "XOFF" \in s.RXHolding

\* The interrupt asks for no character while the holding register has one; a sleeper has
\* received nothing; a close has let the hardware drain.
Wired(p, ph) ==
    /\ Unasked(p)
    /\ ph = "asleep" => p.rbr = "none"
    /\ ph \in {"drained", "closed"} => HardwareEmpty(p)

Asking(e) == port[e].hf.autoReceive /\ Settled(e)
LetGoInv == \A e \in Ends :
    /\ Wired(port[e], phase[e])
    /\ Asking(e) => Owing(port[e], phase[e], port[Peer[e]], phase[Peer[e]])

\* A debt is kept, or paid with an Xon.
LEMMA StillOwing ==
    ASSUME NEW s, NEW phs, NEW r, NEW phr, NEW q, NEW phq, NEW t, NEW pht,
           Owing(s, phs, r, phr),
           Last(q, t, pht) \in {Last(s, r, phr), "XON"},
           q.send = "XOFF" => s.send = "XOFF" \/ "XOFF" \in q.RXHolding,
           "XOFF" \in s.RXHolding => "XOFF" \in q.RXHolding,
           phq \in Muted <=> phs \in Muted
    PROVE  Owing(q, phq, t, pht)
  BY DEF Owing

\* What a port hears from the other end is as before, or it has forgotten an Xoff.
LEMMA HearsNoMore ==
    ASSUME NEW s, NEW r, NEW ph, NEW t, NEW pht, NEW q, SameSent(s, q),
           IsOpened(pht) => Heard(t) = "XON" \/ (IsOpened(ph) /\ Heard(t) = Heard(r))
    PROVE  Last(q, t, pht) \in {Last(s, r, ph), "XON"}
  BY DEF Last, SameSent

LEMMA CalmHears ==
    ASSUME NEW p, NEW q, Mild(p, q) PROVE Heard(q) = Heard(p)
  BY DEF Mild, SameRoom, SameHeard, Heard

\* What a transmit interrupt sends is no Xoff that nobody knows of.
LEMMA SpokenOwing ==
    ASSUME NEW p, NEW q, NEW ph, NEW r, NEW phr, ph \notin Muted, p.thr = "none",
           q.tsr = p.tsr, Spoken(p, q), Owing(p, ph, r, phr)
    PROVE  Owing(q, ph, r, phr)
  <1>1. CASE q.thr \in {"none", "data"} /\ SameAsked(p, q)
    <2>1. Last(q, r, phr) = Last(p, r, phr)
      BY <1>1 DEF Last
    <2> QED
      BY <1>1, <2>1, StillOwing DEF SameAsked
  <1>2. CASE q.thr = "XON" /\ q.send = "none"
    BY <1>2 DEF Owing, Last
  <1>3. CASE q.thr = "XOFF" /\ p.send = "XOFF" /\ SameAsked(p, q)
    BY <1>3 DEF Owing, SameAsked
  <1> QED
    BY <1>1, <1>2, <1>3 DEF Spoken

\* A step that changes only the two ports of one cable is judged by these two.
LEMMA CableLets ==
    ASSUME FlowInv, LetGoInv, NEW e \in Ends,
           \A x \in Ends \ {e, Peer[e]} : port'[x] = port[x],
           \A x \in Ends \ {e} : phase'[x] = phase[x],
           \A x \in {e, Peer[e]} : Wired(port'[x], phase'[x]),
           \A x \in {e, Peer[e]} : Settled(x) => port'[x].hf = port[x].hf,
           Asking(e) => Owing(port'[e], phase'[e], port'[Peer[e]], phase'[Peer[e]]),
           Asking(Peer[e]) => Owing(port'[Peer[e]], phase'[Peer[e]], port'[e], phase'[e])
    PROVE  LetGoInv'
  <1>1. Peer[e] \in Ends /\ Peer[e] # e /\ Peer[Peer[e]] = e
    BY EndsAssumption
  <1> SUFFICES ASSUME NEW x \in Ends
               PROVE  /\ Wired(port'[x], phase'[x])
                      /\ Settled(x) /\ port'[x].hf.autoReceive
                         => Owing(port'[x], phase'[x], port'[Peer[x]], phase'[Peer[x]])
    BY DEF LetGoInv, Asking, Settled, Wired, Unasked, HardwareEmpty, Owing, Last, Heard,
           IsOpened
  <1>2. Peer[x] \in Ends /\ Peer[Peer[x]] = x
    BY EndsAssumption
  <1>3. CASE x \in {e, Peer[e]}
    <2>1. Settled(x) /\ port'[x].hf.autoReceive => Asking(x)
      BY <1>3 DEF Asking
    <2> QED
      BY <1>1, <1>3, <2>1
  <1>4. CASE x \notin {e, Peer[e]}
    <2>1. Peer[x] \notin {e, Peer[e]}
      BY <1>1, <1>2, <1>4
    <2>2. /\ port'[x] = port[x] /\ port'[Peer[x]] = port[Peer[x]]
          /\ phase'[x] = phase[x] /\ phase'[Peer[x]] = phase[Peer[x]]
      BY <1>1, <1>2, <1>4, <2>1
    <2> QED
      BY <2>2 DEF LetGoInv, Asking
  <1> QED
    BY <1>3, <1>4

\* One that changes one end, by what this has sent and asked for, and has heard.
LEMMA EndLets ==
    ASSUME FlowInv, LetGoInv, NEW e \in Ends, NEW new,
           port' = Connected(e, new) \/ port' = [port EXCEPT ![e] = new],
           \A x \in Ends \ {e} : phase'[x] = phase[x],
           Settled(e) => new.hf = port[e].hf,
           Wired(new, phase'[e]),
           IsOpened(phase'[e]) =>
               Heard(new) = "XON" \/ (IsOpened(phase[e]) /\ Heard(new) = Heard(port[e])),
           Asking(e) => Owing(new, phase'[e], port[Peer[e]], phase[Peer[e]])
    PROVE  LetGoInv'
  <1> DEFINE o == Peer[e]
             m == port[o].msi \/ new.lines # port[e].lines
             heard == [port[o] EXCEPT !.msi = m]
  <1>1. o \in Ends /\ o # e /\ Peer[o] = e
    BY EndsAssumption
  <1>2. port[o] \in Port /\ m \in BOOLEAN
    BY <1>1 DEF FlowInv, Fit, Port
  <1> HIDE DEF o
  <1>3. port' = [port EXCEPT ![e] = new, ![o] = heard] \/ port' = [port EXCEPT ![e] = new]
    BY <1>1 DEF Connected, FlowInv, TypeOK, o
  <1> HIDE DEF m
  <1>4. Calm(port[o], heard)
    BY <1>2 DEF Port, Calm, Mild, SameRoom, SameSent, SameHeard, Unasked, SameAsked
  <1> HIDE DEF heard
  <1>5. /\ port'[e] = new
        /\ Calm(port[o], port'[o])
        /\ \A x \in Ends \ {e, o} : port'[x] = port[x]
    BY <1>1, <1>3, <1>4, CalmReflexive DEF FlowInv, TypeOK
  <1>6. phase'[o] = phase[o] /\ Wired(port[o], phase[o])
    BY <1>1 DEF LetGoInv
  <1>7. Wired(port'[o], phase'[o]) /\ port'[o].hf = port[o].hf
        /\ Heard(port'[o]) = Heard(port[o])
    BY <1>5, <1>6, CalmHears
       DEF Wired, Calm, Mild, SameRoom, SameSent, SameHeard, HardwareEmpty
  <1>8. Asking(e) => Owing(port'[e], phase'[e], port'[o], phase'[o])
    <2>1. Last(new, port'[o], phase[o]) = Last(new, port[o], phase[o])
      BY <1>7 DEF Last
    <2> QED
      BY <1>5, <1>6, <2>1 DEF Owing, o
  <1>9. ASSUME Asking(o) PROVE Owing(port'[o], phase'[o], port'[e], phase'[e])
    <2>1. Owing(port[o], phase[o], port[e], phase[e])
      BY <1>1, <1>9 DEF LetGoInv
    <2>2. Last(port'[o], new, phase'[e]) \in {Last(port[o], port[e], phase[e]), "XON"}
      BY <1>5, HearsNoMore DEF Calm, Mild
    <2> QED
      BY <1>5, <1>6, <2>1, <2>2, StillOwing DEF Calm, SameAsked
  <1> QED
    BY <1>1, <1>5, <1>7, <1>8, <1>9, CableLets DEF o

\* What is known of a port, and of one that asks the other end to stop.
LEMMA LetGoFacts ==
    ASSUME FlowInv, LetGoInv, NEW e \in Ends
    PROVE  /\ port[e] \in Port /\ Wired(port[e], phase[e])
           /\ Asking(e) => Owing(port[e], phase[e], port[Peer[e]], phase[Peer[e]])
  BY DEF FlowInv, Fit, LetGoInv

\* Calm steps, and the turns of a close or a suspend that come with one.
LEMMA CalmLets ==
    ASSUME FlowInv, LetGoInv, NEW e \in Ends, NEW new,
           port' = Connected(e, new) \/ port' = [port EXCEPT ![e] = new],
           \A x \in Ends \ {e} : phase'[x] = phase[x],
           \/ phase'[e] = phase[e]
           \/ phase[e] \in {"open", "stopping"}
              /\ phase'[e] \in {"stopping", "draining", "flushing"},
           Calm(port[e], new)
    PROVE  LetGoInv'
  <1>1. new.hf = port[e].hf /\ Heard(new) = Heard(port[e])
    BY CalmHears DEF Calm, Mild, SameRoom
  <1>2. Wired(new, phase'[e])
    BY LetGoFacts DEF Wired, Calm, Mild, SameRoom, SameSent, SameHeard, HardwareEmpty
  <1>3. IsOpened(phase'[e]) => IsOpened(phase[e])
    BY DEF IsOpened
  <1>4. Last(new, port[Peer[e]], phase[Peer[e]]) = Last(port[e], port[Peer[e]], phase[Peer[e]])
    BY DEF Last, Calm, Mild, SameSent
  <1>5. phase'[e] \in Muted <=> phase[e] \in Muted
    BY DEF Muted
  <1>6. Asking(e) => Owing(new, phase'[e], port[Peer[e]], phase[Peer[e]])
    BY <1>4, <1>5, LetGoFacts, StillOwing DEF Calm, SameAsked
  <1> QED
    BY <1>1, <1>2, <1>3, <1>6, EndLets

LEMMA InterruptLets ==
    ASSUME FlowInv, LetGoInv, NEW e \in Ends, Interrupt(e) PROVE LetGoInv'
  <1> DEFINE p == port[e]
             o == Peer[e]
  <1>1. /\ p \in Port /\ Wired(p, phase[e])
        /\ Asking(e) => Owing(p, phase[e], port[o], phase[o])
    BY LetGoFacts
  <1>2. phase' = phase
    BY DEF Interrupt, InterruptReceive, InterruptTransmit, InterruptModem,
           InterruptClosed, InterruptReturn, Served
  <1>3. CASE InterruptReceive(e)
    <2> DEFINE r == Received(p, Inputs(e))
               l == LineStatus(r)
               new == [l EXCEPT !.inIsr = TRUE]
    <2>1. DeviceIsOpened(e) /\ p.rbr # "none" /\ port' = Connected(e, new)
      BY <1>3 DEF InterruptReceive, Served
    <2>2. r \in Port
      BY <1>1, <2>1, InputsType, ReceivedKeeps DEF Keeps
    <2>3. /\ r.hf = p.hf /\ SameSent(p, r)
          /\ r.rbr = "none" /\ r.told = Heard(p) /\ (Unasked(p) => Unasked(r))
          /\ MoreAsked(p, r)
      BY <1>1, <2>1, InputsType, ReceivedSent, ReceivedHears
    <2> HIDE DEF r
    <2>4. l \in Port /\ Calm(r, l)
      BY <2>2, LineStatusSteady, LineStatusCalm DEF Steady
    <2> HIDE DEF l
    <2>5. Calm(l, new)
      BY <2>4 DEF Port, Calm, Mild, SameRoom, SameSent, SameHeard, Unasked, SameAsked
    <2> HIDE DEF new
    <2>6. Calm(r, new)
      BY <2>4, <2>5, CalmTransitive
    <2>7. new.hf = p.hf /\ SameSent(p, new) /\ MoreAsked(p, new)
      BY <2>3, <2>6 DEF Calm, Mild, SameRoom, SameSent, SameAsked, MoreAsked
    <2>8. Unasked(new) /\ Heard(new) = Heard(p)
      BY <1>1, <2>3, <2>6 DEF Calm, Mild, SameRoom, SameHeard, Wired, Heard
    <2>9. IsOpened(phase[e])
      BY <2>1 DEF DeviceIsOpened, IsOpened
    <2>10. Wired(new, phase[e])
      BY <2>8, <2>9 DEF Wired, IsOpened
    <2>11. Last(new, port[o], phase[o]) = Last(p, port[o], phase[o])
      BY <2>7 DEF Last, SameSent
    <2>12. Asking(e) => Owing(new, phase[e], port[o], phase[o])
      BY <1>1, <2>7, <2>11, StillOwing DEF MoreAsked
    <2> QED
      BY <1>2, <2>1, <2>7, <2>8, <2>9, <2>10, <2>12, EndLets
  <1>4. CASE InterruptTransmit(e)
    <2> DEFINE s == SendNext(ReadyToSend(p, Inputs(e)))
               new == [s EXCEPT !.inIsr = TRUE]
    <2>1. /\ port' = Connected(e, new) /\ DeviceIsOpened(e)
          /\ p.thri \/ Continues(p)
      BY <1>4 DEF InterruptTransmit, Served
    <2>2. s \in Port
      BY <1>1, InputsType, ReadyKeeps, SendNextKeeps DEF Keeps
    <2>3. Sends(p, s) /\ SameHeard(p, s) /\ Spoken(p, s)
      BY <1>1, InputsType, ObeysCTS, TransmitSpoken
    <2> HIDE DEF s
    <2>4. Calm(s, new)
      BY <2>2 DEF Port, Calm, Mild, SameRoom, SameSent, SameHeard, Unasked, SameAsked
    <2>5. new.send = s.send /\ new.RXHolding = s.RXHolding
      BY <2>2 DEF Port
    <2> HIDE DEF new
    <2>6. /\ new.hf = p.hf /\ new.tsr = p.tsr /\ new.rbr = p.rbr
          /\ SameHeard(p, new) /\ Spoken(p, new)
      BY <2>3, <2>4, <2>5
         DEF Sends, Calm, Mild, SameRoom, SameSent, SameHeard, SameAsked, Spoken
    <2>7. p.thr = "none"
      BY <1>1, <2>1 DEF Wired, Unasked, Continues, MayTransmit
    <2>8. IsOpened(phase[e])
      BY <2>1 DEF DeviceIsOpened, IsOpened
    <2>9. Wired(new, phase[e]) /\ Heard(new) = Heard(p)
      BY <1>1, <2>6, <2>8 DEF Wired, SameHeard, Heard, IsOpened
    <2>10. phase[e] \notin Muted
      BY <2>8 DEF IsOpened, Muted
    <2>11. Asking(e) => Owing(new, phase[e], port[o], phase[o])
      BY <1>1, <2>6, <2>7, <2>10, SpokenOwing
    <2> QED
      BY <1>2, <2>1, <2>6, <2>8, <2>9, <2>11, EndLets
  <1>5. CASE InterruptModem(e)
    <2> DEFINE u == SerialHandleModemUpdate(p, Inputs(e), FALSE)
               new == [u EXCEPT !.inIsr = TRUE]
    <2>1. port' = Connected(e, new)
      BY <1>5 DEF InterruptModem, Served
    <2>2. u \in Port /\ Calm(p, u)
      BY <1>1, InputsType, ModemUpdateKeeps, ModemUpdateCalm DEF Keeps
    <2> HIDE DEF u
    <2>3. Calm(u, new)
      BY <2>2 DEF Port, Calm, Mild, SameRoom, SameSent, SameHeard, Unasked, SameAsked
    <2> HIDE DEF new
    <2> QED
      BY <1>2, <2>1, <2>2, <2>3, CalmTransitive, CalmLets
  <1>6. CASE InterruptClosed(e)
    <2> DEFINE h == IF p.thri THEN TRUE ELSE p.HoldingEmpty
               b == TakenBack(p)
               new == [b EXCEPT !.inIsr = TRUE]
    <2>1. port' = Connected(e, new) /\ phase[e] \in {"flushing", "draining"}
      BY <1>6 DEF InterruptClosed, Served
    <2>2. b \in Port
      BY <1>1, TakenBackSteady DEF Steady
    <2>3. b.hf = p.hf /\ SameSent(p, b) /\ SameAsked(p, b) /\ ~b.thri
      <3>1. b = [p EXCEPT !.rbr = "none", !.thri = FALSE, !.msi = FALSE, !.HoldingEmpty = h]
        BY DEF TakenBack
      <3> HIDE DEF b, h
      <3> QED
        BY <1>1, <3>1 DEF Port, SameSent, SameAsked
    <2> HIDE DEF b
    <2>4. new.hf = p.hf /\ SameSent(p, new) /\ SameAsked(p, new) /\ ~new.thri
      BY <2>2, <2>3 DEF Port, SameSent, SameAsked
    <2> HIDE DEF new
    <2>5. Wired(new, phase[e]) /\ ~IsOpened(phase[e])
      BY <2>1, <2>4 DEF Wired, Unasked, IsOpened
    <2>6. Last(new, port[o], phase[o]) = Last(p, port[o], phase[o])
      BY <2>4 DEF Last, SameSent
    <2>7. Asking(e) => Owing(new, phase[e], port[o], phase[o])
      BY <1>1, <2>4, <2>6, StillOwing DEF SameAsked
    <2> QED
      BY <1>2, <2>1, <2>4, <2>5, <2>7, EndLets
  <1>7. CASE InterruptReturn(e)
    <2> DEFINE h == IF DeviceIsOpened(e) THEN p.thr = "none" ELSE p.HoldingEmpty
               new == [p EXCEPT !.inIsr = FALSE, !.HoldingEmpty = h]
    <2>1. port' = [port EXCEPT ![e] = new]
      BY <1>7 DEF InterruptReturn, FlowInv, TypeOK
    <2>2. Calm(p, new)
      BY <1>1 DEF Port, Calm, Mild, SameRoom, SameSent, SameHeard, Unasked, SameAsked
    <2> HIDE DEF new
    <2> QED
      BY <1>2, <2>1, <2>2, CalmLets
  <1> QED
    BY <1>3, <1>4, <1>5, <1>6, <1>7 DEF Interrupt

\* A character that arrives is about to be heard, unless the other end is closing or
\* going to sleep, which forgets all it has heard.
LEMMA HardwareLets ==
    ASSUME FlowInv, LetGoInv, NEW e \in Ends, Shift(e) \/ Arrive(e) \/ Expire(e)
    PROVE  LetGoInv'
  <1> DEFINE p == port[e]
             o == Peer[e]
  <1>1. /\ p \in Port /\ Wired(p, phase[e])
        /\ Asking(e) => Owing(p, phase[e], port[o], phase[o])
    BY LetGoFacts
  <1>2. /\ o \in Ends /\ o # e /\ Peer[o] = e /\ port[o] \in Port /\ Wired(port[o], phase[o])
        /\ Asking(o) => Owing(port[o], phase[o], p, phase[e])
    BY EndsAssumption, LetGoFacts
  <1>3. CASE Shift(e)
    <2> DEFINE new == [p EXCEPT !.tsr = p.thr, !.thr = "none", !.thri = TRUE]
    <2>1. p.thr # "none" /\ p.tsr = "none" /\ port' = [port EXCEPT ![e] = new] /\ phase' = phase
      BY <1>3 DEF Shift, FlowInv, TypeOK
    <2>2. /\ new.tsr = p.thr /\ new.thr = "none" /\ new.hf = p.hf
          /\ SameAsked(p, new) /\ new.rbr = p.rbr /\ new.told = p.told
      BY <1>1 DEF Port, SameAsked
    <2> HIDE DEF new
    <2>3. Wired(new, phase[e]) /\ Heard(new) = Heard(p)
      BY <1>1, <2>1, <2>2 DEF Wired, Unasked, HardwareEmpty, Heard
    <2>4. Last(new, port[o], phase[o]) = Last(p, port[o], phase[o])
      BY <2>1, <2>2 DEF Last
    <2>5. Asking(e) => Owing(new, phase[e], port[o], phase[o])
      BY <1>1, <2>2, <2>4, StillOwing DEF SameAsked
    <2>6. IsOpened(phase[e]) \/ ~IsOpened(phase[e])
      OBVIOUS
    <2> QED
      BY <2>1, <2>2, <2>3, <2>5, <2>6, EndLets
  <1>4. CASE Arrive(e)
    <2> DEFINE c == IF Interrupts(o) THEN p.tsr ELSE "none"
               sent == [p EXCEPT !.tsr = "none"]
               got == [port[o] EXCEPT !.rbr = c]
    <2>1. /\ p.tsr # "none" /\ port[o].rbr = "none"
          /\ port' = [port EXCEPT ![e] = sent, ![o] = got] /\ phase' = phase
      BY <1>2, <1>4 DEF Arrive, FlowInv, TypeOK
    <2>2. /\ IsOpened(phase[o]) => c = p.tsr
          /\ phase[o] = "asleep" => c = "none"
      BY DEF IsOpened, Interrupts, DeviceIsOpened
    <2> HIDE DEF c
    <2>3. /\ sent.thr = p.thr /\ sent.tsr = "none" /\ sent.hf = p.hf /\ sent.thri = p.thri
          /\ SameAsked(p, sent) /\ sent.rbr = p.rbr /\ sent.told = p.told
      BY <1>1 DEF Port, SameAsked
    <2>4. /\ got.hf = port[o].hf /\ SameSent(port[o], got) /\ got.rbr = c
          /\ got.told = port[o].told /\ SameAsked(port[o], got) /\ got.thri = port[o].thri
      BY <1>2 DEF Port, SameSent, SameAsked
    <2> HIDE DEF sent, got, o
    <2>5. port'[e] = sent /\ port'[o] = got /\ \A x \in Ends \ {e, o} : port'[x] = port[x]
      BY <1>2, <2>1 DEF FlowInv, TypeOK
    <2>6. Wired(sent, phase[e]) /\ Wired(got, phase[o])
      BY <1>1, <1>2, <2>1, <2>2, <2>3, <2>4 DEF Wired, Unasked, HardwareEmpty, SameSent
    <2>7. Last(sent, got, phase[o]) \in {Last(p, port[o], phase[o]), "XON"}
      <3>1. p.tsr \in {"data", "XON", "XOFF"}
        BY <1>1, <2>1 DEF Port
      <3> QED
        BY <2>1, <2>2, <2>3, <2>4, <3>1 DEF Last, Heard
    <2>8. Last(got, sent, phase[e]) = Last(port[o], p, phase[e])
      BY <2>3, <2>4 DEF Last, Heard, SameSent
    <2>9. Asking(e) => Owing(sent, phase[e], got, phase[o])
      BY <1>1, <2>3, <2>7, StillOwing DEF SameAsked, o
    <2>10. Asking(o) => Owing(got, phase[o], sent, phase[e])
      BY <1>2, <2>4, <2>8, StillOwing DEF SameAsked
    <2>11. \A x \in {e, o} : port'[x].hf = port[x].hf /\ Wired(port'[x], phase'[x])
      BY <2>1, <2>3, <2>4, <2>5, <2>6
    <2> QED
      BY <2>1, <2>5, <2>9, <2>10, <2>11, CableLets DEF o
  <1>5. CASE Expire(e)
    <2> DEFINE new == [p EXCEPT !.timer = FALSE, !.fired = TRUE]
    <2>1. port' = [port EXCEPT ![e] = new] /\ phase' = phase
      BY <1>5 DEF Expire, FlowInv, TypeOK
    <2>2. Calm(p, new)
      BY <1>1 DEF Port, Calm, Mild, SameRoom, SameSent, SameHeard, Unasked, SameAsked
    <2> HIDE DEF new
    <2> QED
      BY <2>1, <2>2, CalmLets
  <1> QED
    BY <1>3, <1>4, <1>5

LEMMA WorkersLet ==
    ASSUME FlowInv, LetGoInv, NEW e \in Ends,
           SerialCompleteWrite(e) \/ SerialCompleteImmediate(e) \/ EndWrite(e)
             \/ EndImmediate(e) \/ SerialStartTimerLowerRTS(e)
             \/ SerialInvokePerhapsLowerRTS(e)
    PROVE  LetGoInv'
  <1> DEFINE p == port[e]
  <1>1. p \in Port /\ WatchesEmpty[e] \in BOOLEAN /\ Retrieved(e) \subseteq Nat
    BY FlowInputsAssumption DEF FlowInv, Fit, Retrieved
  <1>2. phase' = phase
    BY DEF SerialCompleteWrite, SerialCompleteImmediate, EndWrite, EndImmediate, End,
           Asked, SerialStartTimerLowerRTS, SerialInvokePerhapsLowerRTS
  <1>3. CASE SerialCompleteWrite(e) \/ EndWrite(e)
    <2>1. PICK length \in Retrieved(e), emptied \in BOOLEAN :
            port' = Connected(e, SerialGetNextWrite(p, length, emptied /\ WatchesEmpty[e]))
      BY <1>3 DEF SerialCompleteWrite, EndWrite, Update
    <2>2. PICK told \in BOOLEAN : told = (emptied /\ WatchesEmpty[e])
      BY <1>1
    <2>3. port' = Connected(e, SerialGetNextWrite(p, length, told))
      BY <2>1, <2>2
    <2>4. Calm(p, SerialGetNextWrite(p, length, told))
      BY <1>1, GetNextWriteCalm
    <2> QED
      BY <1>2, <2>3, <2>4, CalmLets
  <1>4. CASE SerialCompleteImmediate(e) \/ EndImmediate(e)
    <2>1. PICK emptied \in BOOLEAN :
            port' = Connected(e, SerialGetNextImmediate(p, emptied /\ WatchesEmpty[e]))
      BY <1>4 DEF SerialCompleteImmediate, EndImmediate, Update
    <2>2. PICK told \in BOOLEAN : told = (emptied /\ WatchesEmpty[e])
      BY <1>1
    <2>3. port' = Connected(e, SerialGetNextImmediate(p, told))
      BY <2>1, <2>2
    <2>4. Calm(p, SerialGetNextImmediate(p, told))
      BY <1>1, GetNextImmediateCalm
    <2> QED
      BY <1>2, <2>3, <2>4, CalmLets
  <1>5. CASE SerialStartTimerLowerRTS(e)
    BY <1>1, <1>2, <1>5, StartTimerCalm, CalmLets DEF SerialStartTimerLowerRTS, Update
  <1>6. CASE SerialInvokePerhapsLowerRTS(e)
    <2> DEFINE ran == [p EXCEPT !.fired = FALSE]
    <2>1. port' = Connected(e, SerialPerhapsLowerRTS(ran))
      BY <1>6 DEF SerialInvokePerhapsLowerRTS, Update
    <2>2. ran \in Port /\ Calm(p, ran)
      BY <1>1 DEF Port, Calm, Mild, SameRoom, SameSent, SameHeard, Unasked, SameAsked
    <2> HIDE DEF ran
    <2> QED
      BY <1>2, <2>1, <2>2, PerhapsCalm, CalmTransitive, CalmLets
  <1> QED
    BY <1>3, <1>4, <1>5, <1>6

LEMMA ReadsLet ==
    ASSUME FlowInv, LetGoInv, NEW e \in Ends, Read(e) \/ ReadWaits(e)
    PROVE  LetGoInv'
  <1> DEFINE p == port[e]
             o == Peer[e]
  <1>1. /\ p \in Port /\ Wired(p, phase[e])
        /\ Asking(e) => Owing(p, phase[e], port[o], phase[o])
    BY LetGoFacts
  <1>2. CASE Read(e)
    <2>1. PICK taken \in 1 .. p.Chars :
            port' = Connected(e, SerialHandleReducedIntBuffer([p EXCEPT !.Chars = @ - taken]))
      BY <1>2 DEF Read, Update
    <2> DEFINE less == [p EXCEPT !.Chars = p.Chars - taken]
               new == SerialHandleReducedIntBuffer(less)
    <2>2. p.Chars - taken \in Nat
      BY <1>1 DEF Port
    <2>3. /\ less \in Port /\ less.hf = p.hf /\ less.rbr = p.rbr /\ SameSent(p, less)
          /\ SameHeard(p, less) /\ SameAsked(p, less)
      BY <1>1, <2>2 DEF Port, SameSent, SameHeard, Unasked, SameAsked
    <2>4. port' = Connected(e, new) /\ phase' = phase /\ phase[e] = "open"
      BY <1>2, <2>1 DEF Read
    <2> HIDE DEF less
    <2>5. /\ new.hf = less.hf /\ SameSent(less, new) /\ new.rbr = less.rbr
          /\ SameHeard(less, new) /\ SameAsked(less, new)
      BY <2>3, ReducedSent, ReducedAsked
    <2> HIDE DEF new
    <2>6. new.hf = p.hf /\ SameSent(p, new) /\ Heard(new) = Heard(p) /\ SameAsked(p, new)
      BY <2>3, <2>5 DEF SameSent, SameHeard, SameAsked, Heard
    <2>7. Wired(new, phase[e]) /\ IsOpened(phase[e])
      BY <1>1, <2>3, <2>4, <2>5 DEF Wired, SameHeard, IsOpened
    <2>8. Last(new, port[o], phase[o]) = Last(p, port[o], phase[o])
      BY <2>6 DEF Last, SameSent
    <2>9. Asking(e) => Owing(new, phase[e], port[o], phase[o])
      BY <1>1, <2>6, <2>8, StillOwing DEF SameAsked
    <2> QED
      BY <2>4, <2>6, <2>7, <2>9, EndLets
  <1>3. CASE ReadWaits(e)
    <2> DEFINE new == [p EXCEPT !.userBuffer = TRUE]
    <2>1. port' = Connected(e, new) /\ phase' = phase
      BY <1>3 DEF ReadWaits, Update
    <2>2. Calm(p, new)
      BY <1>1 DEF Port, Calm, Mild, SameRoom, SameSent, SameHeard, Unasked, SameAsked
    <2> HIDE DEF new
    <2> QED
      BY <2>1, <2>2, CalmLets
  <1> QED
    BY <1>2, <1>3

LEMMA RequestsLet ==
    ASSUME FlowInv, LetGoInv, NEW e \in Ends,
           \/ Write(e) \/ Immediate(e) \/ SetXoff(e) \/ SetXon(e)
           \/ SetBreakOn(e) \/ SetBreakOff(e) \/ SetModemLine(e) \/ SetHandFlow(e)
    PROVE  LetGoInv'
  <1> DEFINE p == port[e]
  <1>1. p \in Port /\ Lengths \subseteq Nat /\ Wired(p, phase[e])
    BY FlowInputsAssumption, LetGoFacts
  <1>2. phase' = phase
    BY DEF Write, Immediate, SetXoff, SetXon, SetBreakOn, SetBreakOff, SetModemLine,
           SetHandFlow, Ask, Asked
  <1>3. CASE Write(e)
    <2> DEFINE queued == [p EXCEPT !.queued = p.queued + 1]
    <2>1. \/ port' = Connected(e, queued)
          \/ \E length \in Lengths : port' = Connected(e, SerialStartWrite(p, length))
      BY <1>3 DEF Write, Update
    <2>2. Calm(p, queued)
      BY <1>1 DEF Port, Calm, Mild, SameRoom, SameSent, SameHeard, Unasked, SameAsked
    <2>3. \A length \in Lengths : Calm(p, SerialStartWrite(p, length))
      BY <1>1, StartWriteCalm
    <2> HIDE DEF queued
    <2> QED
      BY <1>2, <2>1, <2>2, <2>3, CalmLets
  <1>4. CASE Immediate(e)
    BY <1>1, <1>2, <1>4, GiveImmediateCalm, CalmLets DEF Immediate, Update
  <1>5. CASE SetXoff(e)
    BY <1>1, <1>2, <1>5, PretendXoffCalm, CalmLets DEF SetXoff, Update
  <1>6. CASE SetXon(e)
    BY <1>1, <1>2, <1>6, PretendXonCalm, CalmLets DEF SetXon, Update
  <1>7. CASE SetBreakOn(e)
    BY <1>1, <1>2, <1>7, TurnOnBreakCalm, CalmLets DEF SetBreakOn, Update
  <1>8. CASE SetBreakOff(e)
    BY <1>1, <1>2, <1>8, TurnOffBreakCalm, CalmLets DEF SetBreakOff, Update
  <1>9. CASE SetModemLine(e)
    <2>1. PICK line \in {"RTS", "DTR"} :
            /\ p.hf[line] \notin {"handshake", "toggle"}
            /\ port' = Connected(e, Raise(p, line)) \/ port' = Connected(e, Lower(p, line))
      BY <1>9 DEF SetModemLine, Update
    <2>2. line = "DTR" \/ p.hf.RTS # "handshake"
      BY <2>1
    <2>3. Calm(p, Raise(p, line)) /\ Calm(p, Lower(p, line))
      BY <1>1, <2>2, RaiseCalm, LowerCalm
    <2> QED
      BY <1>2, <2>1, <2>3, CalmLets
  \* Of a port that may be given new flow control only what it hears matters.
  <1>10. CASE SetHandFlow(e)
    <2>1. PICK new \in HandFlows[e] :
            port' = Connected(e, SerialSetHandFlow(p, new, Inputs(e)))
      BY <1>10 DEF SetHandFlow, Update
    <2>2. new \in HandFlow
      BY FlowInputsAssumption
    <2> DEFINE q == SerialSetHandFlow(p, new, Inputs(e))
    <2>3. SameWire(p, q)
      BY <1>1, <2>2, InputsType, SetHandFlowWire
    <2> HIDE DEF q
    <2>4. phase[e] = "open" /\ ~Settled(e)
      BY <1>10 DEF SetHandFlow, Ask, Asked, Counted, Settled
    <2>5. Wired(q, phase[e]) /\ IsOpened(phase[e]) /\ Heard(q) = Heard(p)
      BY <1>1, <2>3, <2>4 DEF Wired, SameWire, SameHeard, IsOpened, Heard
    <2>6. port' = Connected(e, q) /\ ~Asking(e)
      BY <2>1, <2>4 DEF q, Asking
    <2> QED
      BY <1>2, <2>4, <2>5, <2>6, EndLets
  <1> QED
    BY <1>3, <1>4, <1>5, <1>6, <1>7, <1>8, <1>9, <1>10

\* The Xon that makes up for an Xoff is given to hardware that has drained; what is then
\* the last the other end hears stays so.
LEMMA CloseLets ==
    ASSUME FlowInv, LetGoInv, NEW e \in Ends,
           SerialFileCloseWorker(e) \/ SerialMarkClose(e) \/ DropDTR(e) \/ DropRTS(e)
    PROVE  LetGoInv'
  <1> DEFINE p == port[e]
             o == Peer[e]
  <1>1. /\ p \in Port /\ Wired(p, phase[e])
        /\ Asking(e) => Owing(p, phase[e], port[o], phase[o])
        /\ port[o] \in Port /\ phase \in [Ends -> PHASES]
    BY LetGoFacts, EndsAssumption DEF FlowInv, TypeOK
  <1>0. p \in Port
    BY <1>1
  <1>2. CASE SerialFileCloseWorker(e)
    <2> DEFINE ended == [p EXCEPT !.userBuffer = FALSE]
    <2>1. phase[e] = "open" /\ phase' = [phase EXCEPT ![e] = "flushing"]
          /\ port' = Connected(e, SerialTurnOffBreak(ended))
      BY <1>2 DEF SerialFileCloseWorker, Stop, Turn, Update
    <2>2. ended \in Port /\ Calm(p, ended)
      BY <1>0 DEF Port, Calm, Mild, SameRoom, SameSent, SameHeard, Unasked, SameAsked
    <2> HIDE DEF ended
    <2>3. Calm(p, SerialTurnOffBreak(ended))
      BY <2>2, TurnOffBreakCalm, CalmTransitive
    <2> QED
      BY <1>1, <2>1, <2>3, CalmLets
  <1>3. CASE SerialMarkClose(e)
    <2> DEFINE marked == [p EXCEPT !.thri = FALSE, !.msi = FALSE, !.rbr = "none"]
               new == IF OwesXon(p) THEN [marked EXCEPT !.thr = "XON"] ELSE marked
    <2>1. HardwareEmpty(p) /\ phase[e] = "flushing" /\ phase' = [phase EXCEPT ![e] = "marked"]
          /\ port' = Connected(e, new)
      BY <1>3 DEF SerialMarkClose, Enter, Turn, Update
    <2>2. /\ new.hf = p.hf /\ new.tsr = p.tsr /\ ~new.thri
          /\ new.thr = IF OwesXon(p) THEN "XON" ELSE p.thr
      BY <1>1 DEF Port
    <2> HIDE DEF new
    <2>3. Wired(new, "marked") /\ ~IsOpened("marked")
      BY <2>2 DEF Wired, Unasked, IsOpened
    <2>4. ASSUME Asking(e) PROVE Owing(new, "marked", port[o], phase[o])
      <3>1. CASE OwesXon(p)
        BY <2>2, <3>1 DEF Owing, Muted, Last
      <3>2. CASE ~OwesXon(p)
        <4>1. Last(p, port[o], phase[o]) # "XOFF"
          BY <1>1, <2>1, <2>4, <3>2 DEF Owing, Muted, OwesXon
        <4>2. Last(p, port[o], phase[o]) \in {"XON", "XOFF"}
          BY <1>1 DEF Last, Heard, Port
        <4>3. Last(new, port[o], phase[o]) = Last(p, port[o], phase[o])
          BY <2>2, <3>2 DEF Last
        <4> QED
          BY <4>1, <4>2, <4>3 DEF Owing, Muted
      <3> QED
        BY <3>1, <3>2
    <2> QED
      BY <1>1, <2>1, <2>2, <2>3, <2>4, EndLets
  <1>4. CASE DropDTR(e)
    <2> DEFINE new == Lower(p, "DTR")
    <2>1. HardwareEmpty(p) /\ phase[e] = "marked" /\ phase' = [phase EXCEPT ![e] = "drained"]
          /\ port' = Connected(e, new)
      BY <1>4 DEF DropDTR, Enter, Turn, Update
    <2>2. Calm(p, new)
      BY <1>1, LowerCalm
    <2> HIDE DEF new
    <2>3. Wired(new, "drained") /\ ~IsOpened("drained") /\ new.hf = p.hf
      BY <1>1, <2>1, <2>2
         DEF Wired, IsOpened, HardwareEmpty, Calm, Mild, SameRoom, SameSent, SameHeard
    <2>4. Asking(e) => Owing(new, "drained", port[o], phase[o])
      BY <1>1, <2>1, <2>2 DEF Owing, Muted, Last, Calm, Mild, SameSent
    <2> QED
      BY <1>1, <2>1, <2>3, <2>4, EndLets
  <1>5. CASE DropRTS(e)
    <2> DEFINE low == Lower(p, "RTS")
               new == [low EXCEPT !.RXHolding = {}, !.TXHolding = {}]
    <2>1. phase[e] = "drained" /\ phase' = [phase EXCEPT ![e] = "closed"]
          /\ port' = Connected(e, new)
      BY <1>5 DEF DropRTS, Enter, Turn, Update
    <2>2. low \in Port /\ Calm(p, low)
      BY <1>1, LowerCalm DEF Port, Lower
    <2> HIDE DEF low
    <2>3. Mild(low, new)
      BY <2>2 DEF Port, Mild, SameRoom, SameSent, SameHeard, Unasked
    <2> HIDE DEF new
    <2>4. Mild(p, new)
      BY <2>2, <2>3, MildTransitive DEF Calm
    <2>5. Wired(new, "closed") /\ ~IsOpened("closed") /\ new.hf = p.hf
      BY <1>1, <2>1, <2>4
         DEF Wired, IsOpened, HardwareEmpty, Mild, SameRoom, SameSent, SameHeard
    <2>6. Asking(e) => Owing(new, "closed", port[o], phase[o])
      BY <1>1, <2>1, <2>4 DEF Owing, Muted, Last, Mild, SameSent
    <2> QED
      BY <1>1, <2>1, <2>5, <2>6, EndLets
  <1> QED
    BY <1>2, <1>3, <1>4, <1>5

\* An open owes nothing from before: the hardware is empty, and an Xon was heard last.
LEMMA ReopenLets ==
    ASSUME FlowInv, LetGoInv, NEW e \in Ends, SerialDeviceFileCreateWorker(e)
    PROVE  LetGoInv'
  <1> DEFINE p == port[e]
             o == Peer[e]
             fresh == [p EXCEPT !.Chars = 0, !.send = "none", !.told = "XON"]
             new == SerialReset(fresh, Inputs(e))
  <1>1. /\ p \in Port /\ Wired(p, phase[e])
        /\ Asking(e) => Owing(p, phase[e], port[o], phase[o])
        /\ phase \in [Ends -> PHASES]
    BY LetGoFacts DEF FlowInv, TypeOK
  <1>2. phase[e] = "closed" /\ phase' = [phase EXCEPT ![e] = "open"]
        /\ port' = Connected(e, new)
    BY DEF SerialDeviceFileCreateWorker, Enter, Turn, Update
  <1>3. /\ fresh \in Port /\ SameRest(p, fresh) /\ fresh.Chars = 0
        /\ fresh.send = "none" /\ fresh.told = "XON"
    BY <1>1 DEF Port, SameRest, SameSent
  <1> HIDE DEF fresh
  <1>4. /\ SameRest(fresh, new) /\ new.rbr = "none"
        /\ new.told = "XON" /\ Unasked(new)
        /\ fresh.hf.autoReceive /\ new.send = "XOFF" => "XOFF" \in new.RXHolding
    BY <1>3, InputsType, ResetRoom, ResetAsks
  <1> HIDE DEF new
  <1>5. new.hf = p.hf /\ SameSent(p, new)
    BY <1>3, <1>4 DEF SameRest, SameSent
  <1>6. Wired(new, "open") /\ Heard(new) = "XON"
    BY <1>4 DEF Wired, Heard
  <1>7. ASSUME Asking(e) PROVE Owing(new, "open", port[o], phase[o])
    <2>1. Last(new, port[o], phase[o]) = "XON"
      BY <1>1, <1>2, <1>5, <1>7 DEF Owing, Muted, Last, SameSent
    <2>2. fresh.hf.autoReceive
      BY <1>3, <1>7 DEF Asking, SameRest
    <2> QED
      BY <1>4, <2>1, <2>2 DEF Owing, Muted
  <1> QED
    BY <1>1, <1>2, <1>5, <1>6, <1>7, EndLets

\* A sleeper forgets what it heard, and is up again as if it had heard an Xon.
LEMMA SuspendLets ==
    ASSUME FlowInv, LetGoInv, NEW e \in Ends,
           \/ SerialEvtIoStop(e) \/ SerialEvtDeviceD0Exit(e)
           \/ SerialSaveDeviceState(e) \/ SerialEvtDeviceD0Entry(e)
    PROVE  LetGoInv'
  <1> DEFINE p == port[e]
             o == Peer[e]
  <1>1. /\ p \in Port /\ Wired(p, phase[e])
        /\ Asking(e) => Owing(p, phase[e], port[o], phase[o])
        /\ phase \in [Ends -> PHASES]
    BY LetGoFacts DEF FlowInv, TypeOK
  <1>2. CASE SerialEvtIoStop(e)
    <2>1. phase[e] = "open" /\ phase' = [phase EXCEPT ![e] = "stopping"]
          /\ port' = [port EXCEPT ![e] = p]
      BY <1>2 DEF SerialEvtIoStop, Stop, Turn, FlowInv, TypeOK
    <2> QED
      BY <1>1, <2>1, CalmReflexive, CalmLets
  <1>3. CASE SerialEvtDeviceD0Exit(e)
    <2>1. phase[e] = "stopping" /\ phase' = [phase EXCEPT ![e] = "draining"]
          /\ port' = Connected(e, p)
      BY <1>3 DEF SerialEvtDeviceD0Exit, Enter, Turn, Update
    <2> QED
      BY <1>1, <2>1, CalmReflexive, CalmLets
  <1>4. CASE SerialSaveDeviceState(e)
    <2> DEFINE new == PoweredDown(p)
    <2>1. phase[e] = "draining" /\ phase' = [phase EXCEPT ![e] = "asleep"]
          /\ port' = Connected(e, new)
      BY <1>4 DEF SerialSaveDeviceState, Enter, Turn, Update
    <2>2. /\ new.hf = p.hf /\ SameSent(p, new) /\ new.rbr = "none" /\ ~new.thri
          /\ SameAsked(p, new)
      BY <1>1 DEF Port, PoweredDown, SameSent, SameAsked
    <2> HIDE DEF new
    <2>3. Wired(new, "asleep") /\ ~IsOpened("asleep")
      BY <2>2 DEF Wired, Unasked, IsOpened
    <2>4. Last(new, port[o], phase[o]) = Last(p, port[o], phase[o])
      BY <2>2 DEF Last, SameSent
    <2>5. Asking(e) => Owing(new, "asleep", port[o], phase[o])
      BY <1>1, <2>1, <2>2, <2>4 DEF Owing, SameAsked, Muted
    <2> QED
      BY <1>1, <2>1, <2>2, <2>3, <2>5, EndLets
  <1>5. CASE SerialEvtDeviceD0Entry(e)
    <2> DEFINE poked == Poke(p)
               new == [poked EXCEPT !.lines = p.saved, !.saved = {}, !.msi = FALSE,
                                    !.told = "XON"]
    <2>1. phase[e] = "asleep" /\ phase' = [phase EXCEPT ![e] = "open"]
          /\ port' = Connected(e, new)
      BY <1>5 DEF SerialEvtDeviceD0Entry, PoweredUp, Enter, Turn, Update
    <2>2. poked \in Port /\ Calm(p, poked)
      BY <1>1, PokeSteady, PokeCalm DEF Steady
    <2>3. Unasked(poked)
      BY <1>1, <2>2 DEF Wired, Calm, Mild, SameHeard
    <2> HIDE DEF poked
    <2>4. /\ new.hf = poked.hf /\ SameSent(poked, new) /\ new.rbr = poked.rbr
          /\ new.told = "XON" /\ Unasked(new) /\ SameAsked(poked, new)
      BY <2>2, <2>3 DEF Port, SameSent, SameAsked, Unasked
    <2> HIDE DEF new
    <2>5. /\ new.hf = p.hf /\ SameSent(p, new) /\ SameAsked(p, new) /\ new.rbr = p.rbr
      BY <2>2, <2>4 DEF Calm, Mild, SameRoom, SameSent, SameAsked
    <2>6. Wired(new, "open") /\ Heard(new) = "XON"
      BY <1>1, <2>1, <2>4, <2>5 DEF Wired, Heard
    <2>7. Last(new, port[o], phase[o]) = Last(p, port[o], phase[o])
      BY <2>5 DEF Last, SameSent
    <2>8. Asking(e) => Owing(new, "open", port[o], phase[o])
      BY <1>1, <2>1, <2>5, <2>7 DEF Owing, SameAsked, Muted
    <2> QED
      BY <1>1, <2>1, <2>5, <2>6, <2>8, EndLets
  <1> QED
    BY <1>2, <1>3, <1>4, <1>5

LEMMA LetGoStarts == Init => LetGoInv
  <1> SUFFICES ASSUME Init, NEW e \in Ends
               PROVE  /\ Wired(port[e], phase[e])
                      /\ Owing(port[e], phase[e], port[Peer[e]], phase[Peer[e]])
    BY DEF LetGoInv
  <1>1. PICK hf \in [Ends -> HandFlow] :
          port = [x \in Ends |-> Opened(hf[x],
                     {line \in OutLines : Wire(line) \in Up(hf[Peer[x]])})]
    BY DEF Init
  <1>2. Peer[e] \in Ends /\ phase[e] = "open"
    BY EndsAssumption DEF Init
  <1>3. /\ ~port[e].thri /\ port[e].thr = "none" /\ port[e].tsr = "none"
        /\ port[e].send = "none"
        /\ port[Peer[e]].rbr = "none" /\ port[Peer[e]].told = "XON"
    BY <1>1, <1>2 DEF Opened
  <1> QED
    BY <1>2, <1>3 DEF Wired, Unasked, Owing, Muted, Last, Heard

LEMMA LetGoKeeps == FlowInv /\ LetGoInv /\ [Next]_vars => LetGoInv'
  <1> SUFFICES ASSUME FlowInv, LetGoInv, [Next]_vars PROVE LetGoInv'
    OBVIOUS
  <1>1. CASE Next
    BY <1>1, InterruptLets, HardwareLets, WorkersLet, ReadsLet, RequestsLet, CloseLets,
       ReopenLets, SuspendLets DEF Next
  <1>2. CASE UNCHANGED vars
    BY <1>2 DEF vars, LetGoInv, Asking, Settled, Wired, Unasked, HardwareEmpty, Owing,
                Last, Heard, IsOpened
  <1> QED
    BY <1>1, <1>2

-------------------------------------------------------------------------------
(* Theorems *)

\* Every reachable state satisfies the inductive invariant.
THEOREM FlowInvariant == Spec => []FlowInv
  BY InitKeeps, NextKeeps, PTL DEF Spec

\* The fields of both ports keep their types.
THEOREM FlowTypes == Spec => []TypeOK
  <1>1. FlowInv => TypeOK
    BY DEF FlowInv
  <1> QED
    BY <1>1, FlowInvariant, PTL

\* CountOfTryingToLowerRTS is the number of DPCs, running timers and expired timers
\* on their way to lower RTS, in every state.
THEOREM CountIsExact == Spec => []CountExact
  <1>1. FlowInv => CountExact
    BY DEF FlowInv, Fit, Exact, CountExact
  <1> QED
    BY <1>1, FlowInvariant, PTL

\* A port that has been closed has no DPC and no timer left that would touch it.
THEOREM ClosedIsQuiet == Spec => []NoPathAfterClose
  <1>1. FlowInv => NoPathAfterClose
    BY DEF FlowInv, Fit, NoPath, NoPathAfterClose
  <1> QED
    BY <1>1, FlowInvariant, PTL

\* A toggling transmitter has RTS up for all it sends, until a close takes over or the
\* power goes.
THEOREM TogglingIsCovered == Spec => []RtsCoversTransmission
  <1>1. FlowInv => RtsCoversTransmission
    BY DEF FlowInv, Fit, Covered, RtsCoversTransmission, Interrupts, DeviceIsOpened
  <1> QED
    BY <1>1, FlowInvariant, PTL

\* A receiver that handshakes with RTS, and whose sender obeys CTS, never finds its
\* typeahead buffer full: characters that are under way when RTS goes down have room.
THEOREM HandshakeHolds == Spec => []HandshakeNeverOverruns
  <1>1. FlowInv /\ HandshakeInv => HandshakeNeverOverruns
    <2> SUFFICES ASSUME FlowInv, HandshakeInv, NEW e \in Ends, Handshaking(e),
                        port[e].rbr = "data"
                 PROVE  port[e].Chars < BufferSize
      BY DEF HandshakeNeverOverruns
    <2>1. port[e] \in Port /\ Room(port[e], port[Peer[e]])
      BY DEF FlowInv, Fit, HandshakeInv, Safe
    <2>2. Coming(port[e], port[Peer[e]]) >= 1 /\ Coming(port[e], port[Peer[e]]) \in Nat
      BY DEF Coming, One
    <2> QED
      BY <2>1, <2>2, LimitsAssumption DEF Room, Port
  <1>2. Spec => [](FlowInv /\ HandshakeInv)
    BY InitKeeps, NextKeeps, HandshakeStarts, HandshakeKeeps, PTL DEF Spec
  <1> QED
    BY <1>1, <1>2, PTL

\* A port that closes leaves the other end, if that is open, with an Xon as the last it
\* has heard: an Xoff sent before is made up for, and nothing is sent after.
THEOREM CloseIsHeard == Spec => []CloseLetsGo
  <1>1. FlowInv /\ LetGoInv => CloseLetsGo
    <2> SUFFICES ASSUME FlowInv, LetGoInv, NEW e \in Ends, phase[e] = "closed", Asking(e),
                        phase[Peer[e]] = "open"
                 PROVE  Heard(port[Peer[e]]) = "XON"
      BY DEF CloseLetsGo, Asking
    <2>1. HardwareEmpty(port[e]) /\ Last(port[e], port[Peer[e]], "open") = "XON"
      BY LetGoFacts DEF Wired, Owing, Muted
    <2> QED
      BY <2>1 DEF HardwareEmpty, Last, IsOpened
  <1>2. Spec => [](FlowInv /\ LetGoInv)
    BY InitKeeps, NextKeeps, LetGoStarts, LetGoKeeps, PTL DEF Spec
  <1> QED
    BY <1>1, <1>2, PTL
===============================================================================
