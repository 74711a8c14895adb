--------------------------- MODULE ObjectDelivery ---------------------------
(***************************************************************************)
(* What the receive side of a carousel promises, whatever the channel      *)
(* loses, repeats, reorders or mixes: one object at a time is assembled,   *)
(* from symbols of that object only; it is announced when, and only when   *)
(* it may be, enough different symbols of each of its blocks have come     *)
(* since its assembly began; and the object that was announced last is not *)
(* assembled again before another one has been tried.                      *)
(***************************************************************************)
EXTENDS Integers, FiniteSets

CONSTANTS
    Otis,       \* the objects, by what identifies them on the air
    Symbols,    \* Symbols[o][b]: how many symbols block b of o needs
    MaxEsi,     \* symbols are numbered 0 .. MaxEsi in each block
    NoOti       \* no object

VARIABLES
    object,     \* the object being assembled, or NoOti
    got,        \* got[b]: the symbols of its block b collected so far
    announced   \* the object announced last, NoOti once another was begun

vars == <<object, got, announced>>

Nothing == [b \in {} |-> {}]
NothingOf(o) == [b \in DOMAIN Symbols[o] |-> {}]
Enough(o, g) == \A b \in DOMAIN Symbols[o] : Cardinality(g[b]) >= Symbols[o][b]

\* What has been collected of o, when a symbol of o comes.
Collected(o) == IF object = o THEN got ELSE NothingOf(o)
MayAssemble(o) == object # NoOti \/ announced # o

Init == object = NoOti /\ got = Nothing /\ announced = NoOti

\* A symbol of o, new or not, or a block o does not have.
Collect(o, g) ==
    /\ MayAssemble(o)
    /\ object' = o
    /\ got' = g
    /\ announced' = NoOti

Announce(o, g) ==
    /\ MayAssemble(o)
    /\ Enough(o, g)
    /\ object' = NoOti
    /\ got' = Nothing
    /\ announced' = o

Symbol(o) ==
    \E b \in DOMAIN Symbols[o], e \in 0 .. MaxEsi :
        LET g == [Collected(o) EXCEPT ![b] = @ \union {e}]
        IN  Collect(o, g) \/ Announce(o, g)

Other(o) == Collect(o, Collected(o))

\* The assembly is given up.
GiveUp == object' = NoOti /\ got' = Nothing /\ UNCHANGED announced

Next == (\E o \in Otis : Symbol(o) \/ Other(o)) \/ GiveUp

Spec == Init /\ [][Next]_vars
=============================================================================
