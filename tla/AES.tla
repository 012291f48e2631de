-------------------------------- MODULE AES --------------------------------
(***************************************************************************)
(* toe-arduino/sketch_slowAes/aes.c: the cipher of the target, as          *)
(* operators.  A state has sixteen bytes, row by row as in the code; the   *)
(* expanded key w is a sequence of four byte words.  Nk and Nr follow from *)
(* the key, as in setup() of the sketch.                                   *)
(***************************************************************************)
EXTENDS Integers, Sequences, FiniteSets, Bitwise

Nb == 4
Nk(key) == Len(key) \div 4
Nr(key) == Nk(key) + 6

s_box ==
    <<  99, 124, 119, 123, 242, 107, 111, 197,  48,   1, 103,  43, 254, 215, 171, 118,
       202, 130, 201, 125, 250,  89,  71, 240, 173, 212, 162, 175, 156, 164, 114, 192,
       183, 253, 147,  38,  54,  63, 247, 204,  52, 165, 229, 241, 113, 216,  49,  21,
         4, 199,  35, 195,  24, 150,   5, 154,   7,  18, 128, 226, 235,  39, 178, 117,
         9, 131,  44,  26,  27, 110,  90, 160,  82,  59, 214, 179,  41, 227,  47, 132,
        83, 209,   0, 237,  32, 252, 177,  91, 106, 203, 190,  57,  74,  76,  88, 207,
       208, 239, 170, 251,  67,  77,  51, 133,  69, 249,   2, 127,  80,  60, 159, 168,
        81, 163,  64, 143, 146, 157,  56, 245, 188, 182, 218,  33,  16, 255, 243, 210,
       205,  12,  19, 236,  95, 151,  68,  23, 196, 167, 126,  61, 100,  93,  25, 115,
        96, 129,  79, 220,  34,  42, 144, 136,  70, 238, 184,  20, 222,  94,  11, 219,
       224,  50,  58,  10,  73,   6,  36,  92, 194, 211, 172,  98, 145, 149, 228, 121,
       231, 200,  55, 109, 141, 213,  78, 169, 108,  86, 244, 234, 101, 122, 174,   8,
       186, 120,  37,  46,  28, 166, 180, 198, 232, 221, 116,  31,  75, 189, 139, 138,
       112,  62, 181, 102,  72,   3, 246,  14,  97,  53,  87, 185, 134, 193,  29, 158,
       225, 248, 152,  17, 105, 217, 142, 148, 155,  30, 135, 233, 206,  85,  40, 223,
       140, 161, 137,  13, 191, 230,  66, 104,  65, 153,  45,  15, 176,  84, 187,  22 >>

inv_s_box ==
    <<  82,   9, 106, 213,  48,  54, 165,  56, 191,  64, 163, 158, 129, 243, 215, 251,
       124, 227,  57, 130, 155,  47, 255, 135,  52, 142,  67,  68, 196, 222, 233, 203,
        84, 123, 148,  50, 166, 194,  35,  61, 238,  76, 149,  11,  66, 250, 195,  78,
         8,  46, 161, 102,  40, 217,  36, 178, 118,  91, 162,  73, 109, 139, 209,  37,
       114, 248, 246, 100, 134, 104, 152,  22, 212, 164,  92, 204,  93, 101, 182, 146,
       108, 112,  72,  80, 253, 237, 185, 218,  94,  21,  70,  87, 167, 141, 157, 132,
       144, 216, 171,   0, 140, 188, 211,  10, 247, 228,  88,   5, 184, 179,  69,   6,
       208,  44,  30, 143, 202,  63,  15,   2, 193, 175, 189,   3,   1,  19, 138, 107,
        58, 145,  17,  65,  79, 103, 220, 234, 151, 242, 207, 206, 240, 180, 230, 115,
       150, 172, 116,  34, 231, 173,  53, 133, 226, 249,  55, 232,  28, 117, 223, 110,
        71, 241,  26, 113,  29,  41, 197, 137, 111, 183,  98,  14, 170,  24, 190,  27,
       252,  86,  62,  75, 198, 210, 121,  32, 154, 219, 192, 254, 120, 205,  90, 244,
        31, 221, 168,  51, 136,   7, 199,  49, 177,  18,  16,  89,  39, 128, 236,  95,
        96,  81, 127, 169,  25, 181,  74,  13,  45, 229, 122, 159, 147, 201, 156, 239,
       160, 224,  59,  77, 174,  42, 245, 176, 200, 235, 187,  60, 131,  83, 153,  97,
        23,  43,   4, 126, 186, 119, 214,  38, 225, 105,  20,  99,  85,  33,  12, 125 >>

-----------------------------------------------------------------------------
\* One turn of the loop of gmult: a <<= 1, reduced by x^8 + x^4 + x^3 + x + 1.
xtime(a) == IF a >= 128 THEN ((2 * a) % 256) ^^ 27 ELSE 2 * a

RECURSIVE gmultFrom(_, _, _)
gmultFrom(i, a, b) ==
    IF i = 8 THEN 0
    ELSE (IF b % 2 = 1 THEN a ELSE 0) ^^ gmultFrom(i + 1, xtime(a), b \div 2)

gmult(a, b) == gmultFrom(0, a, b)

\* A sequence with its elements computed once, not at every use.
Tuple(f) == SubSeq(f, 1, Len(f))

coef_add(a, b) == Tuple([i \in 1 .. 4 |-> a[i] ^^ b[i]])

\* a(x) * b(x) modulo x^4 + 1.
coef_mult(a, b) ==
    LET Term(d, i) == gmult(a[((d - i) % 4) + 1], b[i])
    IN  Tuple([d \in 1 .. 4 |-> (Term(d, 1) ^^ Term(d, 2)) ^^ (Term(d, 3) ^^ Term(d, 4))])

RECURSIVE RconFirst(_)
RconFirst(i) == IF i = 1 THEN 1 ELSE IF i = 2 THEN 2 ELSE gmult(RconFirst(i - 1), 2)

Rcon(i) == <<RconFirst(i), 0, 0, 0>>

-----------------------------------------------------------------------------
\* Where the byte of row i and column j is, and which row and column x is in.
At(i, j) == Nb * (i - 1) + j
Row(x) == ((x - 1) \div Nb) + 1
Col(x) == ((x - 1) % Nb) + 1

add_round_key(state, w, r) ==
    Tuple([x \in 1 .. 16 |-> state[x] ^^ w[Nb * r + Col(x)][Row(x)]])

\* Each column of the state times a.
Columns(state, a) ==
    LET res == Tuple([j \in 1 .. 4 |-> coef_mult(a, [i \in 1 .. 4 |-> state[At(i, j)]])])
    IN  Tuple([x \in 1 .. 16 |-> res[Col(x)][Row(x)]])

mix_columns(state) == Columns(state, <<2, 1, 1, 3>>)
inv_mix_columns(state) == Columns(state, <<14, 9, 13, 11>>)

\* The state with row i rotated to the left by[i] times.
Rotated(state, by) ==
    Tuple([x \in 1 .. 16 |-> state[At(Row(x), ((Col(x) - 1 + by[Row(x)]) % Nb) + 1)]])

\* Variant: every row is rotated once.
shift_rowsOnce(state) == Rotated(state, <<0, 1, 1, 1>>)

shift_rows(state) == Rotated(state, <<0, 1, 2, 3>>)
inv_shift_rows(state) == Rotated(state, <<0, 3, 2, 1>>)

\* Variant: row and column of the table are swapped.
sub_bytesSwapped(state) ==
    Tuple([x \in 1 .. 16 |-> s_box[16 * (state[x] % 16) + (state[x] \div 16) + 1]])

sub_bytes(state) == Tuple([x \in 1 .. 16 |-> s_box[state[x] + 1]])
inv_sub_bytes(state) == Tuple([x \in 1 .. 16 |-> inv_s_box[state[x] + 1]])

sub_word(w) == Tuple([i \in 1 .. 4 |-> s_box[w[i] + 1]])
rot_word(w) == <<w[2], w[3], w[4], w[1]>>

-----------------------------------------------------------------------------
KeyWords(key) == [i \in 1 .. Nk(key) |-> SubSeq(key, 4 * i - 3, 4 * i)]

\* tmp, on its way from word i - 1 to word i.
Temporary(key, tmp, i) ==
    IF i % Nk(key) = 0 THEN coef_add(sub_word(rot_word(tmp)), Rcon(i \div Nk(key)))
    ELSE IF Nk(key) > 6 /\ i % Nk(key) = 4 THEN sub_word(tmp)
    ELSE tmp

\* The first words of the expanded key.
RECURSIVE Expanded(_, _)
Expanded(key, words) ==
    IF words = Nk(key) THEN KeyWords(key)
    ELSE LET w == Expanded(key, words - 1)
             i == words - 1
         IN  Append(w, coef_add(w[i - Nk(key) + 1], Temporary(key, w[i], i)))

key_expansion(key) == Expanded(key, Nb * (Nr(key) + 1))

\* cipher and inv_cipher copy the block in and out column by column.
Load(in) == Tuple([x \in 1 .. 16 |-> in[At(Col(x), Row(x))]])
Store(state) == Tuple([n \in 1 .. 16 |-> state[At(Col(n), Row(n))]])

\* Round r of cipher, the one without mix_columns included.
Round(state, w, r, last) ==
    LET shifted == shift_rows(sub_bytes(state))
    IN  add_round_key(IF r = last THEN shifted ELSE mix_columns(shifted), w, r)

\* The part of inv_cipher that undoes round r.
InvRound(state, w, r, last) ==
    LET keyed == add_round_key(state, w, r)
    IN  inv_sub_bytes(inv_shift_rows(IF r = last THEN keyed ELSE inv_mix_columns(keyed)))

-----------------------------------------------------------------------------
\* Reference: GF(2^8) as FIPS 197 defines it, bytes as polynomials over
\* {0, 1}, given by their exponents.
Exponents(b) == {e \in 0 .. 7 : (b \div 2^e) % 2 = 1}

\* The exponents of a product, before it is reduced.
Product(a, b) == {e \in 0 .. 14 : Cardinality({x \in a : e - x \in b}) % 2 = 1}

\* x^e is x^(e-4) + x^(e-5) + x^(e-7) + x^(e-8), from the top down.
RECURSIVE Reduce(_, _)
Reduce(p, e) ==
    IF e < 8 THEN p
    ELSE LET fold == {e, e - 4, e - 5, e - 7, e - 8}
         IN  Reduce(IF e \in p THEN (p \ fold) \cup (fold \ p) ELSE p, e - 1)

Times(a, b) == Reduce(Product(a, b), 14)

\* The polynomial whose image under the affine map of the standard is s.
Unmapped(s) ==
    {e \in 0 .. 7 : Cardinality(s \cap {(e + n) % 8 : n \in {2, 5, 7}}) % 2
                        # (IF e \in {0, 2} THEN 1 ELSE 0)}

\* s is the substitute of b: the image of its inverse, 0 being its own.
Substitutes(b, s) == IF b = {} THEN Unmapped(s) = {} ELSE Times(b, Unmapped(s)) = {0}
=============================================================================
