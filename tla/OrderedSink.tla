---------------------------- MODULE OrderedSink ----------------------------
(* What the multi-threaded halves of the library promise their caller       *)
(* (crates/minlz/src/stream/mt_writer.rs and mt_reader.rs): items are        *)
(* accepted one after the other, whatever happens inside the pipeline they   *)
(* reach the sink in the order of acceptance, and the session ends with      *)
(* "ok" only when every accepted item has reached the sink.  Any failure,    *)
(* anywhere, ends it with "err".                                             *)
EXTENDS Naturals, Sequences

VARIABLES accepted,   \* items accepted so far, in order
          delivered,  \* items that have reached the sink
          result      \* "open", then "ok" or "err"

sinkVars == <<accepted, delivered, result>>

Init == /\ accepted = <<>>
        /\ delivered = <<>>
        /\ result = "open"

\* The caller hands over one more item, whatever it is.
Accept == /\ result = "open"
          /\ Len(accepted') = Len(accepted) + 1
          /\ \A i \in 1..Len(accepted) : accepted'[i] = accepted[i]
          /\ UNCHANGED <<delivered, result>>

\* The next item in order reaches the sink.
Deliver == /\ result = "open"
           /\ Len(delivered) < Len(accepted)
           /\ delivered' = Append(delivered, accepted[Len(delivered) + 1])
           /\ UNCHANGED <<accepted, result>>

\* The session ends well: nothing accepted is missing.
EndOk == /\ result = "open"
         /\ delivered = accepted
         /\ result' = "ok"
         /\ UNCHANGED <<accepted, delivered>>

\* The session ends with an error, or the caller gives it up.
EndErr == /\ result = "open"
          /\ result' = "err"
          /\ UNCHANGED <<accepted, delivered>>

Next == Accept \/ Deliver \/ EndOk \/ EndErr

Spec == Init /\ [][Next]_sinkVars
=============================================================================
