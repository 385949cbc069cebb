------------------------------- MODULE Murmur -------------------------------
(***************************************************************************)
(* murmurHash: the hash of the local database that tells a tablet whether  *)
(* its copy is current.  An int is a word of four bytes, the lowest first, *)
(* which is also how the hash is sent; multiplication wraps (the signed    *)
(* overflow of the code is undefined, and the builds wrap), char is signed *)
(* and >> keeps the sign.                                                  *)
(***************************************************************************)
EXTENDS Integers, Bitwise, SequencesExt

Word(byte(_)) == <<byte(1), byte(2), byte(3), byte(4)>>

multVal == <<149, 233, 209, 91>>        \* 0x5bd1e995
seed == <<114, 4, 0, 0>>                \* 1138

XorWord(u, v) == Word(LAMBDA i : u[i] ^^ v[i])
OrWord(u, v) == Word(LAMBDA i : u[i] | v[i])

\* u * v modulo 2^32: the sums of the columns of byte products, and their carries.
Times(u, v) ==
    LET column(k) == FoldLeft(LAMBDA sum, i : sum + u[i] * v[k + 1 - i], 0,
                              [i \in 1..k |-> i])
        total[k \in 0..4] == IF k = 0 THEN 0 ELSE column(k) + total[k - 1] \div 256
    IN  Word(LAMBDA k : total[k] % 256)

\* The bytes above the highest: copies of the sign.
Sign(b) == IF b >= 128 THEN 255 ELSE 0

\* u >> n of a signed int.
ShiftRight(u, n) ==
    LET byte(i) == IF i <= 4 THEN u[i] ELSE Sign(u[4])
        whole == n \div 8
        rest == 2^(n % 8)
    IN  Word(LAMBDA i :
            (byte(i + whole) \div rest + byte(i + whole + 1) * (256 \div rest)) % 256)

\* (int)c << 8 * k for a char c: a negative one fills every byte above its own.
Shifted(c, k) == Word(LAMBDA i : IF i <= k THEN 0 ELSE IF i = k + 1 THEN c ELSE Sign(c))

\* curr, before it is mixed: the four bytes of a block ORed together.
Gathered(block) ==
    FoldLeft(LAMBDA curr, k : OrWord(curr, Shifted(block[k + 1], k)),
             <<0, 0, 0, 0>>, <<0, 1, 2, 3>>)

Mixed(curr) ==
    LET once == Times(curr, multVal)
    IN  Times(XorWord(once, ShiftRight(once, 24)), multVal)

\* One turn of the loop.
AddBlock(hash, block) == XorWord(Times(hash, multVal), Mixed(Gathered(block)))

\* The switch, each case of which falls through to the next.
AddTail(hash, rest) ==
    IF rest = <<>> THEN hash
    ELSE Times(FoldRight(LAMBDA k, h : XorWord(h, Shifted(rest[k + 1], k)),
                         [i \in 1..Len(rest) |-> i - 1], hash),
               multVal)

Finished(hash) ==
    LET once == Times(XorWord(hash, ShiftRight(hash, 13)), multVal)
    IN  XorWord(once, ShiftRight(once, 15))

\* The size of the data as an int (the data here are short).
Size(data) == <<Len(data) % 256, Len(data) \div 256, 0, 0>>

murmurHash(data) ==
    LET blocks == Len(data) \div 4
        hashed[n \in 0..blocks] ==
            IF n = 0 THEN XorWord(seed, Size(data))
            ELSE AddBlock(hashed[n - 1], SubSeq(data, 4 * n - 3, 4 * n))
    IN  Finished(AddTail(hashed[blocks], SubSeq(data, 4 * blocks + 1, Len(data))))

-----------------------------------------------------------------------------
\* What the compiled function returns for data that end in each case of the switch,
\* with and without bytes above 127, in a block and in the rest.
ASSUME TestVectors ==
    /\ murmurHash(<<10>>) = <<91, 58, 237, 124>>
    /\ murmurHash(<<97, 10>>) = <<157, 199, 249, 119>>
    /\ murmurHash(<<97, 10, 98>>) = <<214, 113, 175, 125>>
    /\ murmurHash(<<97, 44, 97, 10>>) = <<233, 174, 73, 89>>
    /\ murmurHash(<<97, 44, 97, 10, 98, 44, 98>>) = <<80, 32, 66, 65>>
    /\ murmurHash(<<97, 98, 99, 100, 195, 10>>) = <<164, 15, 31, 103>>
    /\ murmurHash(<<97, 44, 98, 10, 98, 44, 99, 10, 120>>) = <<84, 88, 2, 69>>
    /\ murmurHash(<<195, 169, 97, 10>>) = <<21, 14, 185, 108>>
    /\ murmurHash(<<97, 10, 195>>) = <<217, 100, 123, 103>>
    /\ murmurHash(<<97, 10, 195, 169, 99>>) = <<64, 42, 149, 65>>

\* Where the hash is blind: a byte above 127 that begins a block sets all the higher
\* bytes of curr, so the three characters that follow it do not count.  In UTF-8 such a
\* byte begins every letter with an accent: an acute accent may become a grave one without
\* a change of the hash.  Elsewhere in a block it hides what follows it in the block.
ASSUME AccentsCollide ==
    /\ murmurHash(<<195, 169, 97, 10>>) = murmurHash(<<195, 168, 98, 44>>)
    /\ murmurHash(<<97, 195, 169, 10>>) = murmurHash(<<97, 195, 168, 10>>)
    /\ murmurHash(<<97, 98, 195, 169>>) = murmurHash(<<97, 98, 195, 168>>)
=============================================================================
