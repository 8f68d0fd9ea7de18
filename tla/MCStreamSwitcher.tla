-------------------------- MODULE MCStreamSwitcher --------------------------
(* Three sources.  A's clocks are about to wrap and it shows a PCR in one  *)
(* frame of three; B's PCR is not behind its pictures like A's, so that it *)
(* fits only soon after one of A's, it has other parameters, and a PES     *)
(* header over two packets; C sends A's parameters a frame early and its   *)
(* PCR in the middle of the key frame.                                     *)
EXTENDS StreamSwitcher
CONSTANTS A, B, C

Plain(k) == [kind |-> k, start |-> TRUE, pay |-> TRUE, pcr |-> FALSE,
             idr |-> FALSE, par |-> FALSE, split |-> FALSE]
Frame    == Plain("video")
KeyFrame == [Frame EXCEPT !.idr = TRUE, !.par = TRUE, !.pcr = TRUE]
Rest(t)  == [t EXCEPT !.start = FALSE]
PcrOnly  == [Rest(Frame) EXCEPT !.pay = FALSE, !.pcr = TRUE]
SplitAudio == [Plain("audio") EXCEPT !.split = TRUE]

MCProgram ==
    A :> [pattern |-> <<Plain("pat"), Plain("pmt"), KeyFrame, Plain("audio"), Frame, Frame>>,
          base |-> 1040000, lead |-> 10000, par |-> "a", version |-> 31, compatible |-> TRUE]
 @@ B :> [pattern |-> <<Plain("pat"), Plain("pmt"), [Frame EXCEPT !.pcr = TRUE],
                        Rest(Plain("audio")), KeyFrame, SplitAudio>>,
          base |-> 5000, lead |-> 0, par |-> "b", version |-> 0, compatible |-> TRUE]
 @@ C :> [pattern |-> <<Plain("pat"), Plain("pmt"), [Frame EXCEPT !.par = TRUE],
                        [Frame EXCEPT !.idr = TRUE], Rest(Frame), PcrOnly,
                        [Rest(Frame) EXCEPT !.pcr = TRUE]>>,
          base |-> 500000, lead |-> 10000, par |-> "a", version |-> 0, compatible |-> TRUE]

(* B shows a key frame at once.                                            *)
MCShortProgram ==
    [MCProgram EXCEPT ![B].pattern = <<Plain("pat"), Plain("pmt"), KeyFrame>>]
=============================================================================
