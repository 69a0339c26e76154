---------------------------- MODULE LineChannel ----------------------------
(***************************************************************************)
(* What reading lines off the UART promises.  The characters of a line are *)
(* collected one by one; at its end they are handed on.  A line that grows *)
(* to Room characters is forgotten, and what follows of it is collected    *)
(* anew.                                                                   *)
(***************************************************************************)
EXTENDS Naturals, Sequences

CONSTANTS Chars,   \* the characters of a line
          End,     \* the character that ends a C string
          Room     \* a line may have fewer characters than this

VARIABLES collected,  \* the characters of the line so far
          handed      \* the line that was handed on last

Full == Len(collected) = Room

Start == collected = <<>> /\ handed = <<>>

\* A character arrives.
Collect(c) == /\ collected' = IF Full THEN <<c>> ELSE Append(collected, c)
              /\ UNCHANGED handed

\* Something that is no part of a line arrives: room is made for what follows.
Forget == /\ Full /\ collected' = <<>>
          /\ UNCHANGED handed

\* The end of a line arrives: it is handed on as a C string.
HandOn == /\ handed' = IF Full THEN <<>>
                       ELSE LET ended == {i \in DOMAIN collected :
                                            \E j \in 1 .. i : collected[j] = End}
                            IN [i \in DOMAIN collected \ ended |-> collected[i]]
          /\ collected' = <<>>

Step == Forget \/ HandOn \/ \E c \in Chars : Collect(c)
ChannelSpec == Start /\ [][Step]_<<collected, handed>>
=============================================================================
