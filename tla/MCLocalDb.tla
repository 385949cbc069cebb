----------------------------- MODULE MCLocalDb ------------------------------
(* Instances of LocalDb for TLC. *)
EXTENDS LocalDb, Murmur

CONSTANTS a

\* The bytes of a list: nothing, one entry, or two and the comma between them.  Both
\* lists together take from one to seven bytes, so that the hash goes through the loop
\* and through every case of its switch.
TextOf(list) ==
    LET entry == 97 + list.ver
    IN  IF list = Empty THEN <<>> ELSE IF list.size = Part THEN <<entry>>
        ELSE <<entry, 44, entry>>

\* What is hashed: the scouter list, a line feed and the team list.
Bytes(x) == TextOf(x.scouters) \o <<10>> \o TextOf(x.teams)

\* murmurHash gives no two of the instance's contents the same hash.  The model only
\* asks whether two hashes are equal, so the contents can stand for their hashes.
ASSUME NoCollision ==
    Cardinality({murmurHash(Bytes(x)) : x \in Snapshot}) = Cardinality(Snapshot)

HashOfFiles == [x \in Snapshot |-> x]
=============================================================================
