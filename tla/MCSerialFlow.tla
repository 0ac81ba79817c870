---------------------------- MODULE MCSerialFlow ----------------------------
(* The two ends, and the flow control they may ask for, for TLC. *)
EXTENDS SerialFlow

CONSTANTS a, b

MCEnds == {a, b}
MCPeer == [e \in MCEnds |-> IF e = a THEN b ELSE a]
Both(x, y) == [e \in MCEnds |-> IF e = a THEN x ELSE y]

Plain == [RTS |-> "control", DTR |-> "control", autoReceive |-> FALSE,
          autoTransmit |-> FALSE, xoffContinue |-> FALSE, out |-> {}, sensitive |-> FALSE]

\* The sender obeys CTS and Xoff; the receiver handshakes with RTS, or with Xoff.
MCFlows == Both({[Plain EXCEPT !.out = {"CTS"}, !.autoTransmit = TRUE]},
                {[Plain EXCEPT !.RTS = "handshake"], [Plain EXCEPT !.autoReceive = TRUE]})
MCFlowRequests == Both({"write", "suspend"}, {"close", "suspend"})
MCFlowMax == Both(1, 0)
MCFlowLengths == {4}

\* The sender toggles RTS, or not, and obeys Xoff or an application that says so.
MCToggles == Both({[Plain EXCEPT !.RTS = "toggle", !.autoTransmit = TRUE], Plain},
                  {[Plain EXCEPT !.DTR = "handshake", !.autoReceive = TRUE, !.sensitive = TRUE]})
MCToggleRequests == Both(KINDS \ {"read"}, {"read"})
MCToggleMax == Both(2, 0)
MCToggleLengths == {1}

\* The receiver sends its Xoff and Xon only while CTS is up.
MCStuck == Both({[Plain EXCEPT !.autoTransmit = TRUE]},
                {[Plain EXCEPT !.autoReceive = TRUE, !.out = {"CTS"}]})
MCStuckRequests == Both({"write", "lines"}, {})
MCStuckMax == Both(3, 0)
MCStuckLengths == {1}

MCNoEmpty == Both(FALSE, FALSE)
MCEmpty == Both(TRUE, FALSE)
=============================================================================
