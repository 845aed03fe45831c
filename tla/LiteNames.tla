------------------------------ MODULE LiteNames ------------------------------
(***************************************************************************)
(* How the lite format stores names (sources/lite_fs.cpp and the base32    *)
(* functions of sources/mystring.cpp). A name is a sequence of bytes, an   *)
(* encoded name a sequence of characters: an index into the alphabet, or   *)
(* any other number for a character that is not in it. A path is what lies *)
(* between its slashes: "/a" is << <<>>, a >> and "/" is << <<>>, <<>> >>. *)
(***************************************************************************)
EXTENDS Integers, Sequences, FiniteSets, FiniteSetsExt, Functions

CONSTANTS
    Names,      \* names callers use
    Foreign,    \* other names in the underlying directory
    IV_SIZE,    \* bytes of the synthetic IV before a name, 16 in the code
    MAX_SLICE   \* the longest name encrypt_path takes, 2000 in the code

ASSUME NamesAssumption == IV_SIZE \in Nat \ {0} /\ MAX_SLICE \in Nat

Dot == 46

-----------------------------------------------------------------------------
(* Mutant: the bits that the next byte adds are shifted once too often. *)
AlphabetIndexShifted(b, next, i) ==
    IF i <= 3 THEN (b \div 2^(3 - i)) % 32
    ELSE (b % 2^(8 - i)) * 2^(i - 3) + (next \div 2^(12 - i))

(* The five bits that begin at bit i of b. *)
get_alphabet_index(b, next, i) ==
    IF i <= 3 THEN (b \div 2^(3 - i)) % 32
    ELSE (b % 2^(8 - i)) * 2^(i - 3) + (next \div 2^(11 - i))

base32_encode(bytes) ==
    [k \in 1..((Len(bytes) * 8 + 4) \div 5) |->
        LET bit == (k - 1) * 5
            at  == bit \div 8 + 1
        IN  get_alphabet_index(bytes[at], IF at < Len(bytes) THEN bytes[at + 1] ELSE 0, bit % 8)]

(* What five bits that begin at bit i add to a byte and to the next one. *)
get_base32_pair(group, i) ==
    IF i <= 3 THEN <<group * 2^(3 - i), 0>>
    ELSE <<group \div 2^(i - 3), (group % 2^(i - 3)) * 2^(11 - i)>>

(* A character outside the alphabet and a length that leaves a character
   without a byte of its own make base32_decode throw.                       *)
CanDecode(s) ==
    /\ Range(s) \subseteq 0..31
    /\ s # <<>> => ((Len(s) - 1) * 5) \div 8 < (Len(s) * 5) \div 8

base32_decode(s) ==
    [j \in 1..((Len(s) * 5) \div 8) |->
        SumFunction([k \in DOMAIN s |->
            LET bit  == (k - 1) * 5
                pair == get_base32_pair(s[k], bit % 8)
            IN  IF bit \div 8 + 1 = j THEN pair[1]
                ELSE IF bit \div 8 + 2 = j THEN pair[2] ELSE 0])]

-----------------------------------------------------------------------------
(* AES_SIV: the IV is computed from the name, and the name decrypts exactly
   under the IV computed from it. The bytes stand for any such cipher.       *)
SivOf(name) ==
    [k \in 1..IV_SIZE |-> (k + 3 * Len(name) + SumFunction([i \in DOMAIN name |-> i * name[i]])) % 256]

Siv(name) == SivOf(name) \o [i \in DOMAIN name |-> 255 - name[i]]

Opened(bytes) == [i \in 1..(Len(bytes) - IV_SIZE) |-> 255 - bytes[IV_SIZE + i]]

Verifies(bytes) == SubSeq(bytes, 1, IV_SIZE) = SivOf(Opened(bytes))

NameDecrypts(s) ==
    /\ CanDecode(s)
    /\ Len(base32_decode(s)) > IV_SIZE
    /\ Verifies(base32_decode(s))

(* The encoded names, and what the ones that can lie in a directory decode to. *)
Encoded == [n \in Names |-> base32_encode(Siv(n))]

UnderNames == Range(Encoded) \cup Foreign

Decrypted == [s \in {u \in UnderNames : NameDecrypts(u)} |-> Opened(base32_decode(s))]

-----------------------------------------------------------------------------
TooLong(path) == \E i \in DOMAIN path : Len(path[i]) > MAX_SLICE

(* Mutant: names that begin with a dot are left as they are. *)
EncryptPathKeepsDots(path) ==
    [i \in DOMAIN path |-> IF path[i] = <<>> THEN <<>>
                           ELSE IF path[i][1] = Dot THEN path[i] ELSE Encoded[path[i]]]

(* What is between two slashes is encrypted; nothing stays nothing. *)
encrypt_path(path) ==
    [i \in DOMAIN path |-> IF path[i] = <<>> THEN <<>> ELSE Encoded[path[i]]]

CanDecryptPath(path) == \A i \in DOMAIN path : path[i] = <<>> \/ path[i] \in DOMAIN Decrypted

decrypt_path(path) ==
    [i \in DOMAIN path |-> IF path[i] = <<>> THEN <<>> ELSE Decrypted[path[i]]]

(* transform: case folding of ASCII letters, for which normalization to NFC does
   nothing.                                                                  *)
Fold(case_fold, name) ==
    [i \in DOMAIN name |-> IF case_fold /\ name[i] \in 65..90 THEN name[i] + 32 ELSE name[i]]

(* translate_path without the normalization; Slash is "/". *)
Slash == << <<>>, <<>> >>

translate_path(path, preserve_leading_slash) ==
    IF path = << <<>> >> THEN path
    ELSE IF path = Slash THEN (IF preserve_leading_slash THEN Slash ELSE << <<Dot>> >>)
    ELSE LET e == encrypt_path(path)
         IN  IF ~preserve_leading_slash /\ Len(e) > 1 /\ e[1] = <<>> THEN Tail(e) ELSE e

(* The length of a path as a string. *)
StringLength(path) == SumFunction([i \in DOMAIN path |-> Len(path[i])]) + Len(path) - 1

(* statfs: the longest name the mounted file system takes. *)
namemax(f_namemax) == (f_namemax * 5) \div 8 - IV_SIZE

=============================================================================
