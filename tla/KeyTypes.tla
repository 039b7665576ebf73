------------------------------ MODULE KeyTypes ------------------------------
(***************************************************************************)
(* The key types of MDHIM: the order the comparators of ds_leveldb.c give  *)
(* the keys, and the number partitioner.c makes of a key.  Statistics keep *)
(* these numbers, and slices are cut out of them.                          *)
(*                                                                         *)
(* A key is its place in the order of the store; Val says what it is: an   *)
(* integer, a float in halves, a string of characters without the null at  *)
(* its end, or a string of bytes.  A long is an int and a double a float.  *)
(* Fractions are whole multiples of 2^-Scale: a long double has 64 bits,   *)
(* enough for ten characters or eight bytes.                               *)
(***************************************************************************)
EXTENDS Integers, Sequences, FiniteSets

CONSTANTS
  KeyType,                  \* "int", "float", "string" or "byte"
  Val,                      \* Val[k]: the contents of key k
  Alphabet,                 \* the characters build_alphabet adds
  MDHIM_ALPHABET_EXPONENT,  \* 6 in the code
  ByteBits,                 \* 8 in the code
  MaxKeyLen,                \* bound: length of a string or of bytes
  NegativeFloat             \* a negative float as uint64_t: "wraps" or "zero"

Keyed == DOMAIN Val

is_float_key == KeyType # "int"

-----------------------------------------------------------------------------
(* The comparators: is a before b? *)

Lexicographic(a, b) ==
  \E i \in DOMAIN b : /\ i \in DOMAIN a => a[i] < b[i]
                      /\ \A j \in 1 .. i - 1 : j \in DOMAIN a /\ a[j] = b[j]

cmp_int_compare(a, b) == a < b
cmp_float_compare(a, b) == a < b

cmp_string_compare(a, b) == Lexicographic(a, b)

(* cmp_empty orders keys of different lengths. *)
cmp_byte_compare(a, b) ==
  Len(a) < Len(b) \/ (Len(a) = Len(b) /\ Lexicographic(a, b))

Before(a, b) ==
  CASE KeyType = "int" -> cmp_int_compare(a, b)
    [] KeyType = "float" -> cmp_float_compare(a, b)
    [] KeyType = "string" -> cmp_string_compare(a, b)
    [] KeyType = "byte" -> cmp_byte_compare(a, b)

ASSUME KeyTypesAssumption ==
  /\ KeyType \in {"int", "float", "string", "byte"}
  /\ Alphabet \subseteq Nat /\ IsFiniteSet(Alphabet)
  /\ Cardinality(Alphabet) <= 2^MDHIM_ALPHABET_EXPONENT
  /\ MDHIM_ALPHABET_EXPONENT \in Nat \ {0} /\ ByteBits \in Nat \ {0}
  /\ MaxKeyLen \in Nat
  /\ NegativeFloat \in {"wraps", "zero"}
  /\ Keyed \subseteq Nat
  /\ \A k \in Keyed :
       CASE KeyType = "int" -> Val[k] \in Nat
         [] KeyType = "float" -> Val[k] \in Int
         [] KeyType = "string" -> Val[k] \in Seq(Nat) /\ Len(Val[k]) \in 1 .. MaxKeyLen
         [] KeyType = "byte" -> Val[k] \in Seq(0 .. 2^ByteBits - 1) /\ Len(Val[k]) \in 1 .. MaxKeyLen
  /\ \A j, k \in Keyed : j < k => Before(Val[j], Val[k])

-----------------------------------------------------------------------------
(* Numbers. *)

(* Digits of w bits each behind the binary point. *)
Fraction(digits, w) ==
  LET sum[i \in 0 .. Len(digits)] ==
        IF i = 0 THEN 0 ELSE sum[i - 1] + digits[i] * 2^(w * (MaxKeyLen - i))
  IN  sum[Len(digits)]

(* add_char numbers the characters of the alphabet in their order. *)
pos(char) == Cardinality({c \in Alphabet : c < char})

get_str_num(s) == Fraction([i \in DOMAIN s |-> pos(s[i])], MDHIM_ALPHABET_EXPONENT)
get_byte_num(s) == Fraction(s, ByteBits)

Scale == MaxKeyLen * (IF KeyType = "string" THEN MDHIM_ALPHABET_EXPONENT ELSE ByteBits)

(* What statistics keep of a key and cursor operations compare them with. *)
StatNum ==
  [key \in Keyed |->
     CASE KeyType \in {"int", "float"} -> Val[key]
       [] KeyType = "string" -> get_str_num(Val[key])
       [] KeyType = "byte" -> get_byte_num(Val[key])]

Abs(n) == IF n < 0 THEN -n ELSE n

(* The number of a key in the range of total keys. *)
key_num(key, total) ==
  CASE KeyType = "int" -> Val[key]
    [] KeyType = "float" -> Abs(Val[key]) \div 2
    [] KeyType \in {"string", "byte"} -> (StatNum[key] * total) \div 2^Scale

(* Does verify_key take a key that has room for limit integers?  A float up  *)
(* to -1 as uint64_t is undefined; strings and bytes pass as the integer 0.  *)
InRange(key, limit) ==
  CASE KeyType = "int" -> Val[key] < limit
    [] KeyType = "float" -> IF Val[key] > -2 THEN Val[key] \div 2 < limit
                            ELSE NegativeFloat = "zero"
    [] KeyType = "string" -> \A i \in DOMAIN Val[key] : Val[key][i] \in Alphabet
    [] KeyType = "byte" -> TRUE
=============================================================================
