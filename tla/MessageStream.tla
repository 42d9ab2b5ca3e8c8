--------------------------- MODULE MessageStream ---------------------------
(***************************************************************************)
(* What a writer of messages on a TCP connection promises its reader: the  *)
(* messages accepted so far reach the stream in the order of acceptance,   *)
(* each one whole and once, nothing in between.  A reader that counts      *)
(* bytes, as every reader of XRNetwork does, depends on it.                *)
(***************************************************************************)
EXTENDS Naturals, Sequences

CONSTANTS
    MaxMessages,  \* messages accepted in a behaviour (a bound)
    Parts         \* pieces in which the kernel may take a message

VARIABLES
    accepted,     \* how many messages were handed over for writing
    wire          \* the stream: parts <<message, part>> in the order taken

vars == << accepted, wire >>

\* The only stream the first n messages may make.
Stream(n) == [i \in 1 .. n * Parts |-> << ((i - 1) \div Parts) + 1, ((i - 1) % Parts) + 1 >>]

Init == accepted = 0 /\ wire = << >>

Accept == /\ accepted < MaxMessages
          /\ accepted' = accepted + 1
          /\ UNCHANGED wire

Send == /\ \E n \in Len(wire) + 1 .. accepted * Parts : wire' = SubSeq(Stream(accepted), 1, n)
        /\ UNCHANGED accepted

Next == Accept \/ Send
Spec == Init /\ [][Next]_vars
=============================================================================
