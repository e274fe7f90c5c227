----------------------------- MODULE MvpRecords -----------------------------
(***************************************************************************)
(* The strings that python/wrapper.cc makes of results.  A product is one  *)
(* record for each row block: the length of a ciphertext, with a high bit  *)
(* set so that it always has the same number of decimal digits, and the    *)
(* ciphertext.  A string is a sequence of cells: a digit, the head of a    *)
(* serialized ciphertext (SEAL begins with '^', no digit) or its rest.     *)
(*                                                                         *)
(* Scaled: 2 digits for 10, flag 16 for 1 << 30, mask 7 for 0xfffff.       *)
(***************************************************************************)
EXTENDS WrapperBlocks, Sequences

Ext == INSTANCE SequencesExt

CONSTANT CtSizes  \* the lengths of the ciphertexts in a string, over and over

HdrLen == 2
Flag   == 16
Mask   == 7

ASSUME CtSizesAssumption == CtSizes \in Seq((HdrLen + 1)..Mask) \ {<<>>}

(* SEAL compresses what it saves, so that each ciphertext has a length of  *)
(* its own; this is the one of the r-th.                                   *)
CtSize(r) == CtSizes[(r % Len(CtSizes)) + 1]

Digit(d) == <<"digit", d>>

(* std::to_string, of a number below 100.                                  *)
to_string(n) ==
  IF n < 10 THEN <<Digit(n)>> ELSE <<Digit(n \div 10), Digit(n % 10)>>

(* atoi: the digits at the beginning, 0 if there is none.                  *)
atoi(s) ==
  LET ends  == {i \in 1..Len(s) : s[i][1] # "digit"}
      value[i \in 0..Len(s)] ==
        IF i = 0 THEN 0
        ELSE IF \E e \in ends : e <= i THEN value[i - 1]
        ELSE 10 * value[i - 1] + s[i][2]
  IN value[Len(s)]

(* std::string::substr: count cells at most from pos on.  Past the end it  *)
(* throws; an empty string here, which makes the call that asked fail too. *)
substr(s, pos, count) == SubSeq(s, pos + 1, Least(pos + count, Len(s)))

(* The head tells SEAL how long the ciphertext is.                         *)
Serialize(ct, r) ==
  [i \in 1..CtSize(r) |-> IF i = 1 THEN <<"ct", ct, CtSize(r)>> ELSE <<"rest">>]

(* SEAL's load: a whole ciphertext, whatever follows it.                   *)
LoadOk(s) == s # <<>> /\ s[1][1] = "ct" /\ Len(s) >= s[1][3]
Load(s)   == s[1][2]

header_unflagged(r) == to_string(CtSize(r))   \* mutant: digits vary in number

header(r) == to_string(CtSize(r) + Flag)   \* str_tmp.size() | (1 << 30)

Record(ct, r) == header(r) \o Serialize(ct, r)

(* mvp_merge *)
Merge(cts) == Ext!FlattenSeq([r \in DOMAIN cts |-> Record(cts[r], r)])

(* The row blocks of a result of len rows, as each loop over them counts.  *)
RowBlocks(len) ==
  LET from[i \in 0..len] ==
        IF i = len THEN <<>>
        ELSE <<RowDims(len, i)>> \o from[i + RowDims(len, i)]
  IN from[0]

rec_length(data, ptr) == atoi(substr(data, ptr, ptr + HdrLen)) % (Mask + 1)

(* The strings that UpdateVector and Decrypt cut out for the row blocks;   *)
(* the second argument of substr is a length there, not an end.            *)
Cut(data, len) ==
  LET buffer_ptr[r \in 0..Len(RowBlocks(len))] ==
        IF r = 0 THEN 0
        ELSE buffer_ptr[r - 1] + HdrLen + rec_length(data, buffer_ptr[r - 1])
  IN [r \in 1..Len(RowBlocks(len)) |->
        LET ptr == buffer_ptr[r - 1]
        IN substr(data, ptr + HdrLen, ptr + HdrLen + rec_length(data, ptr))]

(* An encrypted vector block travels as a tuple of four strings, the       *)
(* missing ones empty; reading it stops at the first empty one.            *)
Pickle(cts)  == [i \in 1..4 |-> IF i \in DOMAIN cts THEN Serialize(cts[i], i)
                                ELSE <<>>]
Unpickle(t) ==
  LET n == CHOOSE k \in 0..4 : /\ \A i \in 1..k : t[i] # <<>>
                               /\ k = 4 \/ t[k + 1] = <<>>
  IN [i \in 1..n |-> Load(t[i])]
=============================================================================
