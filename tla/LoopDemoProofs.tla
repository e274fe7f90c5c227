--------------------------- MODULE LoopDemoProofs ---------------------------
(***************************************************************************)
(* The two ends of the demo never lose a message in a stream that turns    *)
(* from reading to writing, never leave one in a buffer and never wait for *)
(* one that nobody means to send; and what the client has in the end adds  *)
(* up to the product: for all inputs, and however many of the processes,   *)
(* ports and cards fail.                                                   *)
(***************************************************************************)
EXTENDS LoopDemo, SdkShapeProofs, SequenceTheorems, TLAPS

(* An end that is in its program, before it, or through it.                *)
Live(p) == pc[p] \notin {Failed, Spins}

(* The messages of each end's program, in the order it expects them.       *)
Expected == [client |-> <<"sync", "response", "share">>,
             server |-> <<"evk", "query">>]

(* How many messages an end has taken, and how many it has flushed.        *)
Taken(p) ==
  IF p = "client"
  THEN IF pc[p] > 7 THEN 3 ELSE IF pc[p] > 6 THEN 2 ELSE IF pc[p] > 3 THEN 1 ELSE 0
  ELSE IF pc[p] > 5 THEN 2 ELSE IF pc[p] > 1 THEN 1 ELSE 0

Put(p) ==
  IF p = "client"
  THEN IF pc[p] > 5 THEN 2 ELSE IF pc[p] > 2 THEN 1 ELSE 0
  ELSE IF pc[p] > 10 THEN 3 ELSE IF pc[p] > 8 THEN 2 ELSE IF pc[p] > 4 THEN 1 ELSE 0

(* The most that the other end can have flushed: it does not go on before  *)
(* it has an answer.                                                       *)
Limit(p) ==
  IF p = "client"
  THEN IF pc[p] > 5 THEN 3 ELSE IF pc[p] > 2 THEN 1 ELSE 0
  ELSE IF pc[p] > 4 THEN 2 ELSE 1

(* The messages that wait for an end, in the socket or read ahead.         *)
Way(p) == ahead[p] \o net[p]

(* They are the ones the other end has flushed and this one has not taken. *)
WayRight(p) ==
  Live(p) =>
    /\ Taken(p) + Len(Way(p)) <= Limit(p)
    /\ Live(Peer(p)) => Taken(p) + Len(Way(p)) = Put(Peer(p))
    /\ \A i \in 1..Len(Way(p)) : Way(p)[i][1] = Expected[p][Taken(p) + i]

(* A buffer holds a message between a send and the flush that follows.     *)
BufferRight(p) ==
  Live(p) =>
    IF At(p, "flush")
    THEN Len(unsent[p]) = 1 /\ unsent[p][1][1] = Expected[Peer(p)][Put(p) + 1]
    ELSE unsent[p] = <<>>

IsSeq(s) == Len(s) \in Nat /\ s = [i \in 1..Len(s) |-> s[i]]

StreamShape ==
  /\ DOMAIN pc = Ends /\ DOMAIN unsent = Ends /\ DOMAIN net = Ends
  /\ DOMAIN ahead = Ends /\ DOMAIN got = Ends
  /\ \A p \in Ends : IsSeq(unsent[p]) /\ IsSeq(net[p]) /\ IsSeq(ahead[p])

DInv ==
  /\ TypeOK /\ StreamShape /\ SpinsOnlyAlone
  /\ \A p \in Ends : BufferRight(p) /\ WayRight(p)

-----------------------------------------------------------------------------
(* Sequences *)

(* The empty sequence.                                                     *)
LEMMA NoElements == IsSeq(<<>>) /\ Len(<<>>) = 0
  BY DEF IsSeq

(* IsSeq(s) says that s is in Seq(S) for some S.                           *)
LEMMA SeqIsSeq == ASSUME NEW S, NEW s \in Seq(S) PROVE IsSeq(s)
  BY DEF IsSeq

(* An element more.                                                        *)
LEMMA SeqAppend ==
  ASSUME NEW s, IsSeq(s), NEW e
  PROVE  /\ IsSeq(Append(s, e)) /\ Len(Append(s, e)) = Len(s) + 1
         /\ Append(s, e)[Len(s) + 1] = e
  <1> DEFINE S == {s[i] : i \in 1..Len(s)} \cup {e}
  <1>1. s \in Seq(S) /\ e \in S
    BY DEF IsSeq
  <1> HIDE DEF S
  <1>2. Append(s, e) \in Seq(S)
    BY <1>1
  <1>3. IsSeq(Append(s, e))
    BY <1>2, SeqIsSeq
  <1>4. Len(Append(s, e)) = Len(s) + 1 /\ Append(s, e)[Len(s) + 1] = e
    BY <1>1
  <1> QED BY <1>3, <1>4

(* A first element.                                                        *)
LEMMA SeqOne ==
  ASSUME NEW e
  PROVE  LET s == Append(<<>>, e) IN IsSeq(s) /\ Len(s) = 1 /\ s[1] = e
  BY DEF IsSeq

(* One sequence after another.                                             *)
LEMMA SeqConcat ==
  ASSUME NEW s, IsSeq(s), NEW u, IsSeq(u)
  PROVE  /\ IsSeq(s \o u) /\ Len(s \o u) = Len(s) + Len(u)
         /\ \A i \in 1..Len(s) : (s \o u)[i] = s[i]
         /\ \A i \in 1..Len(u) : (s \o u)[Len(s) + i] = u[i]
  <1> DEFINE S == {s[i] : i \in 1..Len(s)} \cup {u[i] : i \in 1..Len(u)}
  <1>1. s \in Seq(S) /\ u \in Seq(S)
    BY DEF IsSeq
  <1> HIDE DEF S
  <1>2. /\ s \o u \in Seq(S) /\ Len(s \o u) = Len(s) + Len(u)
        /\ \A i \in 1..Len(s) + Len(u) :
             (s \o u)[i] = IF i <= Len(s) THEN s[i] ELSE u[i - Len(s)]
    BY <1>1, ConcatProperties
  <1>3. IsSeq(s \o u)
    BY <1>2, SeqIsSeq
  <1>4. Len(s) \in Nat /\ Len(u) \in Nat
    BY DEF IsSeq
  <1> QED BY <1>2, <1>3, <1>4

(* All but the first.                                                      *)
LEMMA SeqTail ==
  ASSUME NEW s, IsSeq(s), s # <<>>
  PROVE  /\ Len(s) >= 1 /\ IsSeq(Tail(s)) /\ Len(Tail(s)) = Len(s) - 1
         /\ Head(s) = s[1] /\ \A i \in 1..(Len(s) - 1) : Tail(s)[i] = s[i + 1]
  <1> DEFINE S == {s[i] : i \in 1..Len(s)}
  <1>1. s \in Seq(S)
    BY DEF IsSeq
  <1> HIDE DEF S
  <1>2. /\ Tail(s) \in Seq(S) /\ Len(Tail(s)) = Len(s) - 1
        /\ \A i \in 1..Len(Tail(s)) : Tail(s)[i] = s[i + 1]
    BY <1>1, HeadTailProperties
  <1>3. IsSeq(Tail(s))
    BY <1>2, SeqIsSeq
  <1>4. Len(s) \in Nat \ {0}
    BY <1>1, EmptySeq
  <1>5. Head(s) = s[1]
    BY <1>1
  <1> QED BY <1>2, <1>3, <1>4, <1>5

(* A sequence cut in two.                                                  *)
LEMMA SeqCut ==
  ASSUME NEW s, IsSeq(s), NEW n \in 1..Len(s)
  PROVE  LET a == SubSeq(s, 1, n)
             b == SubSeq(s, n + 1, Len(s))
         IN IsSeq(a) /\ IsSeq(b) /\ a \o b = s
  <1> DEFINE S == {s[i] : i \in 1..Len(s)}
  <1>1. s \in Seq(S) /\ Len(s) \in Nat
    BY DEF IsSeq
  <1> HIDE DEF S
  <1>2. \A i \in 1..Len(s) : s[i] \in S
    BY <1>1
  <1>3. SubSeq(s, 1, n) \in Seq(S)
    BY <1>1, <1>2, SubSeqProperties
  <1>4. SubSeq(s, n + 1, Len(s)) \in Seq(S)
    <2>1. n + 1 \in Int /\ Len(s) \in Int
          /\ \A i \in (n + 1)..Len(s) : s[i] \in S
      BY <1>1, <1>2
    <2> QED BY <2>1, SubSeqProperties
  <1>5. SubSeq(s, 1, n) \o SubSeq(s, n + 1, Len(s)) = SubSeq(s, 1, Len(s))
    BY <1>1, ConcatAdjacentSubSeq
  <1> QED BY <1>1, <1>3, <1>4, <1>5, SeqIsSeq, SubSeqFull

(* What comes first of a concatenation.                                    *)
LEMMA SeqFirst ==
  ASSUME NEW s, IsSeq(s), s # <<>>, NEW u, IsSeq(u)
  PROVE  (s \o u)[1] = Head(s) /\ Len(s \o u) >= 1
         /\ Tail(s) \o u = Tail(s \o u)
  <1> DEFINE w == s \o u
             x == Tail(s) \o u
  <1>1. /\ IsSeq(w) /\ Len(w) = Len(s) + Len(u)
        /\ \A i \in 1..Len(s) : w[i] = s[i]
        /\ \A i \in 1..Len(u) : w[Len(s) + i] = u[i]
    BY SeqConcat
  <1>2. /\ Len(s) >= 1 /\ IsSeq(Tail(s)) /\ Len(Tail(s)) = Len(s) - 1
        /\ Head(s) = s[1] /\ \A i \in 1..(Len(s) - 1) : Tail(s)[i] = s[i + 1]
    BY SeqTail
  <1>3. /\ IsSeq(x) /\ Len(x) = Len(Tail(s)) + Len(u)
        /\ \A i \in 1..Len(Tail(s)) : x[i] = Tail(s)[i]
        /\ \A i \in 1..Len(u) : x[Len(Tail(s)) + i] = u[i]
    BY <1>2, SeqConcat
  <1> HIDE DEF w, x
  <1>4. Len(s) \in Nat /\ Len(u) \in Nat
    BY DEF IsSeq
  <1>5. w # <<>>
    BY <1>1, <1>2, <1>4, NoElements
  <1>6. /\ IsSeq(Tail(w)) /\ Len(Tail(w)) = Len(w) - 1
        /\ \A i \in 1..(Len(w) - 1) : Tail(w)[i] = w[i + 1]
    BY <1>1, <1>5, SeqTail
  <1>7. \A i \in 1..Len(x) : x[i] = Tail(w)[i]
    <2> SUFFICES ASSUME NEW i \in 1..Len(x) PROVE x[i] = Tail(w)[i]
      OBVIOUS
    <2>1. i \in Nat /\ i >= 1 /\ i <= Len(s) + Len(u) - 1
      BY <1>2, <1>3, <1>4
    <2>2. Tail(w)[i] = w[i + 1]
      BY <1>1, <1>4, <1>6, <2>1
    <2>3. CASE i <= Len(s) - 1
      BY <1>1, <1>2, <1>3, <1>4, <2>1, <2>2, <2>3
    <2>4. CASE i > Len(s) - 1
      <3> DEFINE j == i - (Len(s) - 1)
      <3>1. j \in 1..Len(u) /\ i = Len(Tail(s)) + j /\ i + 1 = Len(s) + j
        BY <1>2, <1>4, <2>1, <2>4
      <3> HIDE DEF j
      <3> QED BY <1>1, <1>3, <2>2, <3>1
    <2>5. i <= Len(s) - 1 \/ i > Len(s) - 1
      BY <1>4, <2>1
    <2> QED BY <2>3, <2>4, <2>5
  <1>8. x = Tail(w)
    BY <1>1, <1>2, <1>3, <1>4, <1>6, <1>7 DEF IsSeq
  <1> QED BY <1>1, <1>2, <1>4, <1>8 DEF w, x

(* Concatenation is associative,                                           *)
LEMMA SeqAssoc ==
  ASSUME NEW s, IsSeq(s), NEW u, IsSeq(u), NEW w, IsSeq(w)
  PROVE  s \o (u \o w) = (s \o u) \o w
  <1> DEFINE S == {s[i] : i \in 1..Len(s)} \cup {u[i] : i \in 1..Len(u)}
                    \cup {w[i] : i \in 1..Len(w)}
  <1>1. s \in Seq(S) /\ u \in Seq(S) /\ w \in Seq(S)
    BY SMTT(60) DEF IsSeq
  <1> HIDE DEF S
  <1> QED BY <1>1, ConcatAssociative

(* and the empty sequence its unit.                                        *)
LEMMA SeqUnit ==
  ASSUME NEW s, IsSeq(s)
  PROVE  s \o <<>> = s /\ <<>> \o s = s /\ (Len(s) = 0 => s = <<>>)
  <1> DEFINE S == {s[i] : i \in 1..Len(s)}
  <1>1. s \in Seq(S)
    BY DEF IsSeq
  <1> HIDE DEF S
  <1>2. s \o <<>> = s /\ <<>> \o s = s
    BY <1>1, ConcatEmptySeq
  <1>3. Len(s) = 0 => s = <<>>
    BY <1>1, EmptySeq
  <1> QED BY <1>2, <1>3

-----------------------------------------------------------------------------
(* The programs *)

(* There are two ends.                                                     *)
LEMMA TheEnds ==
  /\ Ends = {"client", "server"} /\ "client" # "server"
  /\ Peer("client") = "server" /\ Peer("server") = "client"
  /\ \A p \in Ends : Peer(p) \in Ends /\ Peer(p) # p /\ Peer(Peer(p)) = p
  BY DEF Ends, Peer

(* The lengths of their programs.                                          *)
LEMMA Lengths == Len(Program["client"]) = 7 /\ Len(Program["server"]) = 10
  BY DEF Program, ClientProgram, ServerProgram

(* The steps, one by one.                                                 *)
LEMMA ClientSteps ==
  LET c == Program["client"]
  IN /\ c[1][1] = "send" /\ c[1][2] = "evk"
     /\ c[2][1] = "flush"
     /\ c[3][1] = "recv" /\ c[3][2] = "sync"
     /\ c[4][1] = "send" /\ c[4][2] = "query"
     /\ c[5][1] = "flush"
     /\ c[6][1] = "recv" /\ c[6][2] = "response"
     /\ c[7][1] = "recv" /\ c[7][2] = "share"
  BY DEF Program, ClientProgram

(* The same for the server.                                                *)
LEMMA ServerSteps ==
  LET s == Program["server"]
  IN /\ s[1][1] = "recv" /\ s[1][2] = "evk"
     /\ s[2][1] = "card"
     /\ s[3][1] = "send" /\ s[3][2] = "sync"
     /\ s[4][1] = "flush"
     /\ s[5][1] = "recv" /\ s[5][2] = "query"
     /\ s[6][1] = "card"
     /\ s[7][1] = "send" /\ s[7][2] = "response"
     /\ s[8][1] = "flush"
     /\ s[9][1] = "send" /\ s[9][2] = "share"
     /\ s[10][1] = "flush"
  BY DEF Program, ServerProgram

(* The operation of each step.                                             *)
LEMMA ClientOps ==
  ASSUME NEW n \in 1..7
  PROVE  /\ Program["client"][n][1] = "send" <=> n \in {1, 4}
         /\ Program["client"][n][1] = "flush" <=> n \in {2, 5}
         /\ Program["client"][n][1] = "recv" <=> n \in {3, 6, 7}
         /\ Program["client"][n][1] # "card"
  <1>1. n = 1 \/ n = 2 \/ n = 3 \/ n = 4 \/ n = 5 \/ n = 6 \/ n = 7
    OBVIOUS
  <1> QED BY <1>1, ClientSteps

(* The same for the server.                                                *)
LEMMA ServerOps ==
  ASSUME NEW n \in 1..10
  PROVE  /\ Program["server"][n][1] = "send" <=> n \in {3, 7, 9}
         /\ Program["server"][n][1] = "flush" <=> n \in {4, 8, 10}
         /\ Program["server"][n][1] = "recv" <=> n \in {1, 5}
         /\ Program["server"][n][1] = "card" <=> n \in {2, 6}
  <1>1. \/ n = 1 \/ n = 2 \/ n = 3 \/ n = 4 \/ n = 5
        \/ n = 6 \/ n = 7 \/ n = 8 \/ n = 9 \/ n = 10
    OBVIOUS
  <1> QED BY <1>1, ServerSteps

(* The messages each end waits for.                                        *)
LEMMA Expectations ==
  /\ Expected["client"][1] = "sync" /\ Expected["client"][2] = "response"
  /\ Expected["client"][3] = "share"
  /\ Expected["server"][1] = "evk" /\ Expected["server"][2] = "query"
  BY DEF Expected

(* Where an end can be.                                                    *)
Placed(p) == pc[p] \in 0..Len(Program[p]) \cup {Done, Failed, Spins}

(* Where an end that takes a step of its program is, and where it goes.    *)
LEMMA Moves ==
  ASSUME DOMAIN pc = Ends, NEW p \in Ends, Placed(p), pc[p] < 100, Advance(p)
  PROVE  /\ pc[p] \in 0..Len(Program[p])
         /\ pc'[p] = IF pc[p] = Len(Program[p]) THEN 100 ELSE pc[p] + 1
         /\ pc'[Peer(p)] = pc[Peer(p)]
         /\ Placed(p)' /\ Live(p)'
  <1>1. pc[p] \in 0..Len(Program[p])
    BY DEF Placed, Done, Failed, Spins
  <1>2. Len(Program[p]) \in Nat /\ Len(Program[p]) < 100
    <2>1. CASE p = "client"
      BY <2>1, Lengths
    <2>2. CASE p = "server"
      BY <2>2, Lengths
    <2> QED BY <2>1, <2>2, TheEnds
  <1>3. pc'[p] = IF pc[p] = Len(Program[p]) THEN 100 ELSE pc[p] + 1
    BY <1>1 DEF Advance, Done
  <1>4. pc'[Peer(p)] = pc[Peer(p)]
    BY TheEnds DEF Advance
  <1> QED BY <1>1, <1>2, <1>3, <1>4 DEF Placed, Live, Done, Failed, Spins

(* A client's step by its number.                                          *)
LEMMA ClientAt ==
  /\ At("client", "send") <=> pc["client"] \in {1, 4}
  /\ At("client", "flush") <=> pc["client"] \in {2, 5}
  /\ At("client", "recv") <=> pc["client"] \in {3, 6, 7}
  /\ ~At("client", "card")
  BY ClientOps, Lengths DEF At

(* The same for the server.                                                *)
LEMMA ServerAt ==
  /\ At("server", "send") <=> pc["server"] \in {3, 7, 9}
  /\ At("server", "flush") <=> pc["server"] \in {4, 8, 10}
  /\ At("server", "recv") <=> pc["server"] \in {1, 5}
  /\ At("server", "card") <=> pc["server"] \in {2, 6}
  BY ServerOps, Lengths DEF At

(* Whether a flush comes next, after a step of the client                  *)
LEMMA ClientAtNext ==
  (At("client", "flush") <=> pc["client"] \in {2, 5})'
  BY ClientOps, Lengths DEF At

(* or of the server.                                                       *)
LEMMA ServerAtNext ==
  (At("server", "flush") <=> pc["server"] \in {4, 8, 10})'
  BY ServerOps, Lengths DEF At

(* A step keeps what the other end is known to have done.                  *)
LEMMA PeerStays ==
  ASSUME NEW p \in Ends, pc'[p] = pc[p]
  PROVE  /\ Live(p)' = Live(p) /\ Taken(p)' = Taken(p) /\ Put(p)' = Put(p)
         /\ Limit(p)' = Limit(p) /\ \A op : At(p, op)' = At(p, op)
  BY DEF Live, Taken, Put, Limit, At

(* The counts are small numbers.                                           *)
LEMMA Counts ==
  ASSUME NEW p \in Ends
  PROVE  Taken(p) \in 0..3 /\ Put(p) \in 0..3 /\ Limit(p) \in 0..3
  BY DEF Taken, Put, Limit

(* Who sends has taken all that can be on the way to it, and the buffer    *)
(* will hold the message that the other end expects next.                  *)
LEMMA SendFacts ==
  ASSUME DOMAIN pc = Ends, NEW p \in Ends, Placed(p), At(p, "send"), Advance(p)
  PROVE  /\ Live(p) /\ Live(p)' /\ Placed(p)' /\ pc'[Peer(p)] = pc[Peer(p)]
         /\ At(p, "flush")' /\ ~At(p, "flush")
         /\ Taken(p)' = Taken(p) /\ Put(p)' = Put(p) /\ Limit(p)' >= Limit(p)
         /\ Limit(p) = Taken(p) /\ Limit(p)' = Taken(p)
         /\ Arg(p) = Expected[Peer(p)][Put(p) + 1]
  <1>1. CASE p = "client"
    <2>1. pc[p] \in {1, 4} /\ pc[p] < 100
      BY <1>1, ClientAt
    <2>2. /\ pc'[p] = IF pc[p] = Len(Program[p]) THEN 100 ELSE pc[p] + 1
          /\ pc'[Peer(p)] = pc[Peer(p)] /\ Placed(p)' /\ Live(p)'
      BY <2>1, Moves
    <2>3. pc'[p] \in {2, 5}
      BY <1>1, <2>1, <2>2, Lengths
    <2>4. At(p, "flush")' /\ ~At(p, "flush")
      BY <1>1, <2>1, <2>3, ClientAtNext, ClientAt
    <2>5. Arg(p) = Expected[Peer(p)][Put(p) + 1]
      BY <1>1, <2>1, ClientSteps, Expectations, TheEnds DEF Arg, Put
    <2> QED BY <1>1, <2>1, <2>2, <2>3, <2>4, <2>5, Lengths
            DEF Taken, Put, Limit, Live, Failed, Spins
  <1>2. CASE p = "server"
    <2>1. pc[p] \in {3, 7, 9} /\ pc[p] < 100
      BY <1>2, ServerAt
    <2>2. /\ pc'[p] = IF pc[p] = Len(Program[p]) THEN 100 ELSE pc[p] + 1
          /\ pc'[Peer(p)] = pc[Peer(p)] /\ Placed(p)' /\ Live(p)'
      BY <2>1, Moves
    <2>3. pc'[p] \in {4, 8, 10}
      BY <1>2, <2>1, <2>2, Lengths
    <2>4. At(p, "flush")' /\ ~At(p, "flush")
      BY <1>2, <2>1, <2>3, ServerAtNext, ServerAt
    <2>5. Arg(p) = Expected[Peer(p)][Put(p) + 1]
      BY <1>2, <2>1, ServerSteps, Expectations, TheEnds DEF Arg, Put
    <2> QED BY <1>2, <2>1, <2>2, <2>3, <2>4, <2>5, Lengths
            DEF Taken, Put, Limit, Live, Failed, Spins
  <1> QED BY <1>1, <1>2, TheEnds

(* Who flushes has taken all that can be on the way to it; the other end,  *)
(* if this one has taken no more than it put, may now have one more.       *)
LEMMA FlushFacts ==
  ASSUME DOMAIN pc = Ends, NEW p \in Ends, Placed(p), At(p, "flush"), Advance(p)
  PROVE  /\ Live(p) /\ Live(p)' /\ Placed(p)' /\ pc'[Peer(p)] = pc[Peer(p)]
         /\ ~At(p, "flush")'
         /\ Taken(p)' = Taken(p) /\ Put(p)' = Put(p) + 1 /\ Limit(p)' >= Limit(p)
         /\ Limit(p) = Taken(p)
         /\ Placed(Peer(p)) /\ Taken(p) <= Put(Peer(p))
              => Put(p) + 1 <= Limit(Peer(p))
         /\ pc[Peer(p)] = Done => Taken(Peer(p)) > Put(p)
  <1>1. CASE p = "client"
    <2>1. pc[p] \in {2, 5} /\ pc[p] < 100
      BY <1>1, ClientAt
    <2>2. /\ pc'[p] = IF pc[p] = Len(Program[p]) THEN 100 ELSE pc[p] + 1
          /\ pc'[Peer(p)] = pc[Peer(p)] /\ Placed(p)' /\ Live(p)'
      BY <2>1, Moves
    <2>3. pc'[p] = pc[p] + 1
      BY <1>1, <2>1, <2>2, Lengths
    <2>4. ~At(p, "flush")'
      BY <1>1, <2>1, <2>3, ClientAtNext
    <2>5. Taken(p)' = Taken(p) /\ Put(p)' = Put(p) + 1 /\ Limit(p)' >= Limit(p)
          /\ Limit(p) = Taken(p)
      BY <1>1, <2>1, <2>3 DEF Taken, Put, Limit
    <2>6. Placed(Peer(p)) /\ Taken(p) <= Put(Peer(p))
              => Put(p) + 1 <= Limit(Peer(p))
      BY <1>1, <2>1, TheEnds, Lengths
         DEF Placed, Taken, Put, Limit, Done, Failed, Spins
    <2>7. pc[Peer(p)] = Done => Taken(Peer(p)) > Put(p)
      BY <1>1, <2>1, TheEnds DEF Taken, Put, Done
    <2> QED BY <2>1, <2>2, <2>4, <2>5, <2>6, <2>7 DEF Live, Failed, Spins
  <1>2. CASE p = "server"
    <2>1. pc[p] \in {4, 8, 10} /\ pc[p] < 100
      BY <1>2, ServerAt
    <2>2. /\ pc'[p] = IF pc[p] = Len(Program[p]) THEN 100 ELSE pc[p] + 1
          /\ pc'[Peer(p)] = pc[Peer(p)] /\ Placed(p)' /\ Live(p)'
      BY <2>1, Moves
    <2>3. pc'[p] = IF pc[p] = 10 THEN 100 ELSE pc[p] + 1
      BY <1>2, <2>1, <2>2, Lengths
    <2>4. ~At(p, "flush")'
      BY <1>2, <2>1, <2>3, ServerAtNext
    <2>5. Taken(p)' = Taken(p) /\ Put(p)' = Put(p) + 1 /\ Limit(p)' >= Limit(p)
          /\ Limit(p) = Taken(p)
      BY <1>2, <2>1, <2>3 DEF Taken, Put, Limit
    <2>6. Placed(Peer(p)) /\ Taken(p) <= Put(Peer(p))
              => Put(p) + 1 <= Limit(Peer(p))
      BY <1>2, <2>1, TheEnds, Lengths
         DEF Placed, Taken, Put, Limit, Done, Failed, Spins
    <2>7. pc[Peer(p)] = Done => Taken(Peer(p)) > Put(p)
      BY <1>2, <2>1, TheEnds DEF Taken, Put, Done
    <2> QED BY <2>1, <2>2, <2>4, <2>5, <2>6, <2>7 DEF Live, Failed, Spins
  <1> QED BY <1>1, <1>2, TheEnds

(* Who receives asks for what it expects next, and after all messages were *)
(* put there is one for it.                                                *)
LEMMA RecvFacts ==
  ASSUME DOMAIN pc = Ends, NEW p \in Ends, At(p, "recv")
  PROVE  /\ Live(p) /\ ~At(p, "flush") /\ ~At(p, "send")
         /\ Arg(p) = Expected[p][Taken(p) + 1]
         /\ pc[Peer(p)] = Done => Put(Peer(p)) > Taken(p)
         /\ Placed(p) /\ Advance(p) =>
              /\ Live(p)' /\ Placed(p)' /\ pc'[Peer(p)] = pc[Peer(p)]
              /\ ~At(p, "flush")' /\ Taken(p)' = Taken(p) + 1
              /\ Put(p)' = Put(p) /\ Limit(p)' >= Limit(p)
  <1>1. CASE p = "client"
    <2>1. pc[p] \in {3, 6, 7} /\ pc[p] < 100
      BY <1>1, ClientAt
    <2>2. ~At(p, "flush") /\ ~At(p, "send") /\ Live(p)
      BY <1>1, <2>1, ClientAt DEF Live, Failed, Spins
    <2>3. Arg(p) = Expected[p][Taken(p) + 1]
      BY <1>1, <2>1, ClientSteps, Expectations, TheEnds DEF Arg, Taken
    <2>4. pc[Peer(p)] = Done => Put(Peer(p)) > Taken(p)
      BY <1>1, <2>1, TheEnds DEF Taken, Put, Done
    <2>5. ASSUME Placed(p), Advance(p)
          PROVE  /\ Live(p)' /\ Placed(p)' /\ pc'[Peer(p)] = pc[Peer(p)]
                 /\ ~At(p, "flush")' /\ Taken(p)' = Taken(p) + 1
                 /\ Put(p)' = Put(p) /\ Limit(p)' >= Limit(p)
      <3>1. /\ pc'[p] = IF pc[p] = Len(Program[p]) THEN 100 ELSE pc[p] + 1
            /\ pc'[Peer(p)] = pc[Peer(p)] /\ Placed(p)' /\ Live(p)'
        BY <2>1, <2>5, Moves
      <3>2. pc'[p] = IF pc[p] = 7 THEN 100 ELSE pc[p] + 1
        BY <1>1, <2>1, <3>1, Lengths
      <3>3. ~At(p, "flush")'
        BY <1>1, <2>1, <3>2, ClientAtNext
      <3>4. Taken(p)' = Taken(p) + 1 /\ Put(p)' = Put(p) /\ Limit(p)' >= Limit(p)
        BY <1>1, <2>1, <3>2 DEF Taken, Put, Limit
      <3> QED BY <3>1, <3>3, <3>4
    <2> QED BY <2>2, <2>3, <2>4, <2>5
  <1>2. CASE p = "server"
    <2>1. pc[p] \in {1, 5} /\ pc[p] < 100
      BY <1>2, ServerAt
    <2>2. ~At(p, "flush") /\ ~At(p, "send") /\ Live(p)
      BY <1>2, <2>1, ServerAt DEF Live, Failed, Spins
    <2>3. Arg(p) = Expected[p][Taken(p) + 1]
      BY <1>2, <2>1, ServerSteps, Expectations, TheEnds DEF Arg, Taken
    <2>4. pc[Peer(p)] = Done => Put(Peer(p)) > Taken(p)
      BY <1>2, <2>1, TheEnds DEF Taken, Put, Done
    <2>5. ASSUME Placed(p), Advance(p)
          PROVE  /\ Live(p)' /\ Placed(p)' /\ pc'[Peer(p)] = pc[Peer(p)]
                 /\ ~At(p, "flush")' /\ Taken(p)' = Taken(p) + 1
                 /\ Put(p)' = Put(p) /\ Limit(p)' >= Limit(p)
      <3>1. /\ pc'[p] = IF pc[p] = Len(Program[p]) THEN 100 ELSE pc[p] + 1
            /\ pc'[Peer(p)] = pc[Peer(p)] /\ Placed(p)' /\ Live(p)'
        BY <2>1, <2>5, Moves
      <3>2. pc'[p] = pc[p] + 1
        BY <1>2, <2>1, <3>1, Lengths
      <3>3. ~At(p, "flush")'
        BY <1>2, <2>1, <3>2, ServerAtNext
      <3>4. Taken(p)' = Taken(p) + 1 /\ Put(p)' = Put(p) /\ Limit(p)' >= Limit(p)
        BY <1>2, <2>1, <3>2 DEF Taken, Put, Limit
      <3> QED BY <3>1, <3>3, <3>4
    <2> QED BY <2>2, <2>3, <2>4, <2>5
  <1> QED BY <1>1, <1>2, TheEnds

(* The steps that touch no stream: the beginning and the card.             *)
LEMMA QuietFacts ==
  ASSUME DOMAIN pc = Ends, NEW p \in Ends, Placed(p), Advance(p),
         pc[p] = 0 \/ At(p, "card")
  PROVE  /\ Live(p) /\ Live(p)' /\ Placed(p)' /\ pc'[Peer(p)] = pc[Peer(p)]
         /\ ~At(p, "flush") /\ ~At(p, "flush")'
         /\ Taken(p)' = Taken(p) /\ Put(p)' = Put(p) /\ Limit(p)' = Limit(p)
  <1>1. CASE p = "client"
    <2>1. pc[p] = 0 /\ pc[p] < 100
      BY <1>1, ClientAt
    <2>2. /\ pc'[p] = IF pc[p] = Len(Program[p]) THEN 100 ELSE pc[p] + 1
          /\ pc'[Peer(p)] = pc[Peer(p)] /\ Placed(p)' /\ Live(p)'
      BY <2>1, Moves
    <2>3. pc'[p] = 1
      BY <1>1, <2>1, <2>2, Lengths
    <2>4. ~At(p, "flush") /\ ~At(p, "flush")'
      BY <1>1, <2>1, <2>3, ClientAt, ClientAtNext
    <2> QED BY <1>1, <2>1, <2>2, <2>3, <2>4
            DEF Taken, Put, Limit, Live, Failed, Spins
  <1>2. CASE p = "server"
    <2>1. pc[p] \in {0, 2, 6} /\ pc[p] < 100
      BY <1>2, ServerAt
    <2>2. /\ pc'[p] = IF pc[p] = Len(Program[p]) THEN 100 ELSE pc[p] + 1
          /\ pc'[Peer(p)] = pc[Peer(p)] /\ Placed(p)' /\ Live(p)'
      BY <2>1, Moves
    <2>3. pc'[p] = pc[p] + 1
      BY <1>2, <2>1, <2>2, Lengths
    <2>4. ~At(p, "flush") /\ ~At(p, "flush")'
      BY <1>2, <2>1, <2>3, ServerAt, ServerAtNext
    <2> QED BY <1>2, <2>1, <2>2, <2>3, <2>4
            DEF Taken, Put, Limit, Live, Failed, Spins
  <1> QED BY <1>1, <1>2, TheEnds

-----------------------------------------------------------------------------
(* The steps *)

(* The parts of TypeOK that speak of one end.                              *)
Linked(p) ==
  pc[p] \in {0, Failed} \/ link = "accepted" \/ (p = "client" /\ link = "connected")
OneWay(p) == ahead[p] = <<>> \/ unsent[p] = <<>>

(* TypeOK, by ends.                                                        *)
LEMMA TypeIs ==
  TypeOK <=>
    /\ case \in Cases
    /\ link \in {"none", "listening", "connected", "accepted"}
    /\ \A p \in Ends : Placed(p) /\ Linked(p) /\ OneWay(p)
    /\ has_sent \in [Ends -> BOOLEAN] /\ faults \in 0..MaxFaults
  BY DEF TypeOK, Placed, Linked, OneWay

(* The same after a step.                                                  *)
LEMMA TypeIsNext ==
  TypeOK' <=>
    /\ case' \in Cases
    /\ link' \in {"none", "listening", "connected", "accepted"}
    /\ \A p \in Ends : Placed(p)' /\ Linked(p)' /\ OneWay(p)'
    /\ has_sent' \in [Ends -> BOOLEAN] /\ faults' \in 0..MaxFaults
  BY DEF TypeOK, Placed, Linked, OneWay

(* What waits for an end is a sequence, empty only if both parts are.      *)
LEMMA WayIsSeq ==
  ASSUME StreamShape, NEW p \in Ends
  PROVE  /\ IsSeq(Way(p)) /\ Len(Way(p)) \in Nat
         /\ Len(Way(p)) = Len(ahead[p]) + Len(net[p])
         /\ Len(Way(p)) = 0 => ahead[p] = <<>> /\ net[p] = <<>>
  <1>1. IsSeq(ahead[p]) /\ IsSeq(net[p])
    BY DEF StreamShape
  <1>2. IsSeq(Way(p)) /\ Len(Way(p)) = Len(ahead[p]) + Len(net[p])
    BY <1>1, SeqConcat DEF Way
  <1>3. Len(ahead[p]) \in Nat /\ Len(net[p]) \in Nat /\ Len(Way(p)) \in Nat
    BY <1>1, <1>2 DEF IsSeq
  <1>4. Len(Way(p)) = 0 => Len(ahead[p]) = 0 /\ Len(net[p]) = 0
    <2>1. \A a, b \in Nat : a + b = 0 => a = 0 /\ b = 0
      OBVIOUS
    <2> QED BY <1>2, <1>3, <2>1
  <1> QED BY <1>1, <1>2, <1>3, <1>4, SeqUnit

(* An end that a step of the other one does not reach.                     *)
LEMMA OtherEnd ==
  ASSUME NEW x \in Ends, WayRight(x), BufferRight(x), pc'[x] = pc[x],
         ahead'[x] = ahead[x], net'[x] = net[x], unsent'[x] = unsent[x],
         Live(Peer(x))' => Live(Peer(x)) /\ Put(Peer(x))' = Put(Peer(x))
  PROVE  WayRight(x)' /\ BufferRight(x)'
  <1>1. /\ Live(x)' = Live(x) /\ Taken(x)' = Taken(x) /\ Put(x)' = Put(x)
        /\ Limit(x)' = Limit(x) /\ At(x, "flush")' = At(x, "flush")
    BY PeerStays
  <1>2. Way(x)' = Way(x)
    BY DEF Way
  <1>3. WayRight(x)'
    BY <1>1, <1>2 DEF WayRight
  <1>4. BufferRight(x)'
    BY <1>1 DEF BufferRight
  <1> QED BY <1>3, <1>4

(* The frame of a step of p: what has to be shown of it.                   *)
LEMMA StepOf ==
  ASSUME DInv, NEW p \in Ends,
         case' = case, link' = link, pc'[Peer(p)] = pc[Peer(p)],
         pc[p] \notin {0, Failed} \/ pc'[p] = Failed,
         Placed(p)', StreamShape', has_sent' \in [Ends -> BOOLEAN],
         faults' \in 0..MaxFaults,
         OneWay(p)', OneWay(Peer(p))', SpinsOnlyAlone',
         WayRight(p)', BufferRight(p)',
         WayRight(Peer(p))', BufferRight(Peer(p))'
  PROVE  DInv'
  <1>1. \A x \in Ends : x = p \/ x = Peer(p)
    BY TheEnds
  <1>2. case \in Cases /\ link \in {"none", "listening", "connected", "accepted"}
        /\ \A x \in Ends : Placed(x) /\ Linked(x)
    BY TypeIs DEF DInv
  <1>3. Placed(Peer(p))' /\ Linked(Peer(p))' /\ Linked(p)'
    <2>1. Placed(Peer(p)) /\ Linked(Peer(p)) /\ Linked(p)
      BY <1>2, TheEnds
    <2>2. Placed(Peer(p))'
      BY <2>1 DEF Placed
    <2>3. Linked(Peer(p))'
      BY <2>1 DEF Linked
    <2>4. Linked(p)'
      BY <2>1 DEF Linked
    <2> QED BY <2>2, <2>3, <2>4
  <1>4. TypeOK'
    BY <1>1, <1>2, <1>3, TypeIsNext
  <1> QED BY <1>1, <1>4 DEF DInv

(* Somebody fails, in whatever way.                                        *)
LEMMA FailKeeps ==
  ASSUME DInv, NEW p \in Ends, pc[p] # Failed, Fail(p), UNCHANGED <<case, link, streams>>,
         faults' \in 0..MaxFaults
  PROVE  DInv'
  <1>1. pc'[p] = Failed /\ pc'[Peer(p)] = pc[Peer(p)]
    BY TheEnds DEF Fail, DInv, StreamShape
  <1>2. ~Live(p)' /\ Placed(p)'
    BY <1>1 DEF Live, Placed
  <1>3. WayRight(p)' /\ BufferRight(p)'
    BY <1>2 DEF WayRight, BufferRight
  <1>4. WayRight(Peer(p)) /\ BufferRight(Peer(p)) /\ Peer(Peer(p)) = p
        /\ Peer(p) \in Ends
    BY TheEnds DEF DInv
  <1>5. WayRight(Peer(p))' /\ BufferRight(Peer(p))'
    BY <1>1, <1>2, <1>4, OtherEnd DEF streams
  <1>6. StreamShape'
    BY DEF streams, DInv, StreamShape, Fail
  <1>7. OneWay(p)' /\ OneWay(Peer(p))' /\ has_sent' \in [Ends -> BOOLEAN]
    BY TypeIs, TheEnds DEF DInv, streams, OneWay
  <1>8. SpinsOnlyAlone'
    BY <1>1, TheEnds DEF SpinsOnlyAlone, DInv, Spins, Failed
  <1> QED BY <1>1, <1>2, <1>3, <1>5, <1>6, <1>7, <1>8, StepOf

(* An end stops at the end of its stream: the other one has failed, since  *)
(* with all of its messages put one would be there.                        *)
LEMMA EofKeeps ==
  ASSUME DInv, NEW p \in Ends, Eof(p) PROVE DInv'
  <1>1. /\ At(p, "recv") /\ ahead[p] = <<>> /\ net[p] = <<>> /\ Gone(Peer(p))
        /\ pc' = [pc EXCEPT ![p] = Spins] /\ UNCHANGED <<case, link, streams, faults>>
    BY DEF Eof
  <1>2. DOMAIN pc = Ends /\ StreamShape /\ WayRight(p)
    BY DEF DInv, StreamShape
  <1>3. Live(p) /\ (pc[Peer(p)] = Done => Put(Peer(p)) > Taken(p))
    BY <1>1, <1>2, RecvFacts
  <1>4. Len(Way(p)) = 0
    <2>1. <<>> \o <<>> = <<>>
      BY NoElements, SeqUnit
    <2> QED BY <1>1, <2>1, NoElements DEF Way
  <1>5. pc[Peer(p)] # Done
    <2> SUFFICES ASSUME pc[Peer(p)] = Done PROVE FALSE
      OBVIOUS
    <2>1. Live(Peer(p))
      BY DEF Live, Done, Failed, Spins
    <2>2. Taken(p) + 0 = Put(Peer(p))
      BY <1>2, <1>3, <1>4, <2>1 DEF WayRight
    <2> QED BY <1>3, <2>2, Counts, TheEnds
  <1>6. pc[Peer(p)] = Failed
    BY <1>1, <1>5 DEF Gone
  <1>7. pc'[p] = Spins /\ pc'[Peer(p)] = Failed
    BY <1>1, <1>2, <1>6, TheEnds
  <1>8. ~Live(p)' /\ ~Live(Peer(p))' /\ Placed(p)'
    BY <1>7 DEF Live, Placed
  <1>9. WayRight(p)' /\ BufferRight(p)' /\ WayRight(Peer(p))' /\ BufferRight(Peer(p))'
    BY <1>8 DEF WayRight, BufferRight
  <1>10. StreamShape'
    BY <1>1, <1>2 DEF streams, StreamShape
  <1>11. /\ OneWay(p)' /\ OneWay(Peer(p))' /\ has_sent' \in [Ends -> BOOLEAN]
         /\ faults' \in 0..MaxFaults
    BY <1>1, TypeIs, TheEnds DEF DInv, streams, OneWay
  <1>12. SpinsOnlyAlone'
    BY <1>7, TheEnds DEF SpinsOnlyAlone, Spins, Failed
  <1>13. pc[p] \notin {0, Failed}
    BY <1>1, <1>3 DEF At, Live
  <1> QED BY <1>1, <1>6, <1>7, <1>8, <1>9, <1>10, <1>11, <1>12, <1>13, StepOf

(* A step of the program that touches no stream.                           *)
LEMMA QuietKeeps ==
  ASSUME DInv, NEW p \in Ends, pc[p] = 0 \/ At(p, "card"), Advance(p),
         UNCHANGED streams
  PROVE  /\ Placed(p)' /\ pc'[Peer(p)] = pc[Peer(p)] /\ StreamShape'
         /\ WayRight(p)' /\ BufferRight(p)'
         /\ WayRight(Peer(p))' /\ BufferRight(Peer(p))' /\ SpinsOnlyAlone'
         /\ OneWay(p)' /\ OneWay(Peer(p))' /\ has_sent' \in [Ends -> BOOLEAN]
  <1>1. DOMAIN pc = Ends /\ StreamShape /\ Placed(p)
        /\ \A x \in Ends : WayRight(x) /\ BufferRight(x)
    BY TypeIs DEF DInv, StreamShape
  <1>2. /\ Live(p) /\ Live(p)' /\ Placed(p)' /\ pc'[Peer(p)] = pc[Peer(p)]
        /\ ~At(p, "flush") /\ ~At(p, "flush")'
        /\ Taken(p)' = Taken(p) /\ Put(p)' = Put(p) /\ Limit(p)' = Limit(p)
    BY <1>1, QuietFacts
  <1>3. Peer(p) \in Ends /\ Peer(Peer(p)) = p
    BY TheEnds
  <1>4. WayRight(Peer(p))' /\ BufferRight(Peer(p))'
    BY <1>1, <1>2, <1>3, OtherEnd DEF streams
  <1>5. Way(p)' = Way(p)
    BY DEF streams, Way
  <1>6. Live(Peer(p))' = Live(Peer(p)) /\ Put(Peer(p))' = Put(Peer(p))
    BY <1>2, <1>3, PeerStays
  <1>7. WayRight(p)' /\ BufferRight(p)'
    <2>1. WayRight(p)'
      BY <1>1, <1>2, <1>5, <1>6 DEF WayRight
    <2>2. BufferRight(p)'
      BY <1>1, <1>2 DEF BufferRight, streams
    <2> QED BY <2>1, <2>2
  <1>8. StreamShape'
    BY <1>1 DEF streams, StreamShape, Advance
  <1>9. OneWay(p)' /\ OneWay(Peer(p))' /\ has_sent' \in [Ends -> BOOLEAN]
    BY <1>3, TypeIs DEF DInv, streams, OneWay
  <1>10. SpinsOnlyAlone'
    <2>1. pc[Peer(p)] # Spins
      BY <1>2, <1>3 DEF DInv, SpinsOnlyAlone, Live
    <2>2. \A x \in Ends : pc'[x] # Spins
      BY <1>2, <2>1, TheEnds DEF Live
    <2> QED BY <2>2 DEF SpinsOnlyAlone
  <1> QED BY <1>2, <1>4, <1>7, <1>8, <1>9, <1>10

(* The connection is made.                                                 *)
LEMMA LinkKeeps ==
  ASSUME DInv, Listen \/ Connect \/ Accept PROVE DInv'
  <1>1. /\ case \in Cases
        /\ link \in {"none", "listening", "connected", "accepted"}
        /\ \A p \in Ends : Placed(p) /\ Linked(p) /\ OneWay(p)
        /\ has_sent \in [Ends -> BOOLEAN] /\ faults \in 0..MaxFaults
    BY TypeIs DEF DInv
  <1>2. CASE Listen
    <2>1. UNCHANGED <<case, pc, streams, faults>> /\ link = "none"
          /\ link' = "listening"
      BY <1>2 DEF Listen
    <2>2. \A p \in Ends : Placed(p)' /\ Linked(p)' /\ OneWay(p)'
      BY <1>1, <2>1 DEF Placed, Linked, OneWay, streams
    <2>3. TypeOK'
      BY <1>1, <2>1, <2>2, TypeIsNext DEF streams
    <2>4. StreamShape' /\ SpinsOnlyAlone'
      BY <2>1 DEF DInv, StreamShape, SpinsOnlyAlone, streams
    <2>5. \A p \in Ends : WayRight(p)' /\ BufferRight(p)'
      BY <2>1, OtherEnd, PeerStays, TheEnds DEF DInv, streams
    <2> QED BY <2>3, <2>4, <2>5 DEF DInv
  <1>3. ASSUME NEW p \in Ends, pc[p] = 0, Advance(p),
               UNCHANGED <<case, streams, faults>>,
               \/ p = "client" /\ link = "listening" /\ link' = "connected"
               \/ link' = "accepted"
        PROVE  DInv'
    <2>1. /\ Placed(p)' /\ pc'[Peer(p)] = pc[Peer(p)] /\ StreamShape'
          /\ WayRight(p)' /\ BufferRight(p)'
          /\ WayRight(Peer(p))' /\ BufferRight(Peer(p))' /\ SpinsOnlyAlone'
          /\ OneWay(p)' /\ OneWay(Peer(p))' /\ has_sent' \in [Ends -> BOOLEAN]
      BY <1>3, QuietKeeps
    <2>2. \A x \in Ends : x = p \/ x = Peer(p)
      BY TheEnds
    <2>3. Placed(Peer(p))'
      BY <1>1, <2>1, TheEnds DEF Placed
    <2>4. \A x \in Ends : Linked(x)'
      BY <1>1, <1>3, <2>1, <2>2 DEF Linked
    <2>5. TypeOK'
      BY <1>1, <1>3, <2>1, <2>2, <2>3, <2>4, TypeIsNext
    <2> QED BY <2>1, <2>2, <2>5 DEF DInv
  <1>4. CASE Connect
    BY <1>3, <1>4 DEF Connect, Ends
  <1>5. CASE Accept
    BY <1>3, <1>5 DEF Accept, Ends
  <1> QED BY <1>2, <1>4, <1>5

(* The card, which may refuse the matrix.                                  *)
LEMMA CardKeeps ==
  ASSUME DInv, NEW p \in Ends, Card(p) PROVE DInv'
  <1>1. At(p, "card") /\ UNCHANGED <<case, link, streams, faults>>
        /\ (Fail(p) \/ Advance(p))
    BY DEF Card
  <1>2. pc[p] \notin {0, Failed}
    <2>1. p = "server"
      BY <1>1, ClientAt, TheEnds
    <2>2. pc[p] \in {2, 6}
      BY <1>1, <2>1, ServerAt
    <2> QED BY <2>2 DEF Failed
  <1>3. faults' \in 0..MaxFaults
    BY <1>1, TypeIs DEF DInv
  <1>4. CASE Fail(p)
    BY <1>1, <1>2, <1>3, <1>4, FailKeeps
  <1>5. CASE Advance(p)
    BY <1>1, <1>2, <1>3, <1>5, QuietKeeps, StepOf
  <1> QED BY <1>1, <1>4, <1>5

(* What holds of the ends in all of the following steps.                   *)
LEMMA Now ==
  ASSUME DInv, NEW p \in Ends
  PROVE  /\ DOMAIN pc = Ends /\ StreamShape /\ Placed(p) /\ Placed(Peer(p))
         /\ WayRight(p) /\ BufferRight(p) /\ OneWay(p) /\ OneWay(Peer(p))
         /\ WayRight(Peer(p)) /\ BufferRight(Peer(p))
         /\ Peer(p) \in Ends /\ Peer(p) # p /\ Peer(Peer(p)) = p
         /\ has_sent \in [Ends -> BOOLEAN] /\ faults \in 0..MaxFaults
         /\ DOMAIN unsent = Ends /\ DOMAIN net = Ends /\ DOMAIN ahead = Ends
         /\ IsSeq(unsent[p]) /\ IsSeq(net[p]) /\ IsSeq(ahead[p])
         /\ IsSeq(net[Peer(p)]) /\ IsSeq(ahead[Peer(p)])
         /\ Live(p) => pc[Peer(p)] # Spins
  BY TypeIs, TheEnds DEF DInv, StreamShape, SpinsOnlyAlone, Live

(* Nobody spins after a step of a live end.                                *)
LEMMA NobodySpins ==
  ASSUME DInv, NEW p \in Ends, Live(p), Live(p)', pc'[Peer(p)] = pc[Peer(p)]
  PROVE  SpinsOnlyAlone'
  <1>1. \A x \in Ends : pc'[x] # Spins
    BY Now, TheEnds DEF Live
  <1> QED BY <1>1 DEF SpinsOnlyAlone

(* A sender has nothing read ahead that it could lose.                     *)
LEMMA NothingWaits ==
  ASSUME DInv, NEW p \in Ends, Live(p), Limit(p) = Taken(p)
  PROVE  Len(Way(p)) = 0 /\ ahead[p] = <<>> /\ net[p] = <<>>
  <1>1. Taken(p) + Len(Way(p)) <= Taken(p) /\ Taken(p) \in Nat
    BY Now, Counts DEF WayRight
  <1>2. Len(Way(p)) \in Nat /\ (Len(Way(p)) = 0 => ahead[p] = <<>> /\ net[p] = <<>>)
    BY Now, WayIsSeq
  <1>3. Len(Way(p)) = 0
    <2>1. \A a, b \in Nat : a + b <= a => b = 0
      OBVIOUS
    <2> QED BY <1>1, <1>2, <2>1
  <1> QED BY <1>2, <1>3

(* A message goes into the buffer.                                         *)
LEMMA SendKeeps ==
  ASSUME DInv, NEW p \in Ends, Send(p) PROVE DInv'
  <1> DEFINE m == <<Arg(p), Content(Arg(p))>>
  <1>1. /\ At(p, "send") /\ Advance(p) /\ UNCHANGED <<case, link, net, got, faults>>
        /\ unsent' = [unsent EXCEPT ![p] = Append(unsent[p], m)]
        /\ has_sent' = [has_sent EXCEPT ![p] = TRUE]
        /\ ahead' = [ahead EXCEPT ![p] = <<>>]
    BY DEF Send
  <1>2. m[1] = Arg(p)
    OBVIOUS
  <1> HIDE DEF m
  <1>3. /\ Live(p) /\ Live(p)' /\ Placed(p)' /\ pc'[Peer(p)] = pc[Peer(p)]
        /\ At(p, "flush")' /\ ~At(p, "flush")
        /\ Taken(p)' = Taken(p) /\ Put(p)' = Put(p) /\ Limit(p)' >= Limit(p)
        /\ Limit(p) = Taken(p) /\ Limit(p)' = Taken(p)
        /\ Arg(p) = Expected[Peer(p)][Put(p) + 1]
    BY <1>1, Now, SendFacts
  <1>4. Len(Way(p)) = 0 /\ ahead[p] = <<>>
    BY <1>3, NothingWaits
  <1>5. ahead'[p] = <<>> /\ ahead'[Peer(p)] = ahead[Peer(p)]
        /\ unsent'[p] = Append(unsent[p], m) /\ unsent'[Peer(p)] = unsent[Peer(p)]
    BY <1>1, Now
  <1>6. unsent[p] = <<>>
    BY <1>3, Now DEF BufferRight
  <1>7. IsSeq(unsent'[p]) /\ Len(unsent'[p]) = 1 /\ unsent'[p][1] = m
    BY <1>5, <1>6, SeqOne
  <1>8. BufferRight(p)'
    BY <1>2, <1>3, <1>7 DEF BufferRight
  <1>9. Way(p)' = Way(p)
    BY <1>1, <1>4, <1>5 DEF Way
  <1>10. Live(Peer(p))' = Live(Peer(p)) /\ Put(Peer(p))' = Put(Peer(p))
    BY <1>3, Now, PeerStays
  <1>11. WayRight(p)'
    <2>1. Taken(p) \in Nat /\ WayRight(p)
      BY Counts, Now
    <2>2. Len(Way(p)') = 0 /\ Taken(p)' + Len(Way(p)') = Taken(p)
      BY <1>3, <1>4, <1>9, <2>1
    <2>3. Live(Peer(p)) => Taken(p) = Put(Peer(p))
      BY <1>3, <1>4, <2>1 DEF WayRight
    <2> QED BY <1>3, <1>10, <2>1, <2>2, <2>3 DEF WayRight
  <1>12. WayRight(Peer(p))' /\ BufferRight(Peer(p))'
    BY <1>1, <1>3, <1>5, Now, OtherEnd
  <1>13. StreamShape'
    <2>1. DOMAIN pc' = Ends /\ DOMAIN unsent' = Ends /\ DOMAIN ahead' = Ends
      BY <1>1, Now DEF Advance
    <2>2. \A x \in Ends : x = p \/ x = Peer(p)
      BY TheEnds
    <2>3. IsSeq(unsent'[Peer(p)]) /\ IsSeq(ahead'[Peer(p)]) /\ IsSeq(ahead'[p])
      BY <1>5, Now, NoElements DEF StreamShape
    <2> QED BY <1>1, <1>7, <2>1, <2>2, <2>3, Now DEF StreamShape
  <1>14. OneWay(p)' /\ OneWay(Peer(p))' /\ has_sent' \in [Ends -> BOOLEAN]
    BY <1>1, <1>5, Now DEF OneWay
  <1>15. pc[p] \notin {0, Failed}
    BY <1>1, <1>3 DEF At, Live
  <1> QED BY <1>1, <1>3, <1>8, <1>11, <1>12, <1>13, <1>14, <1>15, Now,
             NobodySpins, StepOf

(* What a flush adds to the way of an end that is alive.                   *)
LEMMA WayGrows ==
  ASSUME DInv, NEW p \in Ends, At(p, "flush"), Flush(p), Live(Peer(p))
  PROVE  WayRight(Peer(p))'
  <1> DEFINE x == Peer(p)
             n == Len(Way(x))
  <1>1. /\ Advance(p) /\ ahead' = ahead
        /\ net' = IF Gone(x) THEN net ELSE [net EXCEPT ![x] = net[x] \o unsent[p]]
    BY DEF Flush, Flushed
  <1>2. /\ Live(p) /\ Live(p)' /\ pc'[x] = pc[x] /\ Put(p)' = Put(p) + 1
        /\ Limit(p) = Taken(p)
        /\ Placed(x) /\ Taken(p) <= Put(x) => Put(p) + 1 <= Limit(x)
        /\ pc[x] = Done => Taken(x) > Put(p)
    BY <1>1, Now, FlushFacts
  <1>3. /\ Live(x)' = Live(x) /\ Taken(x)' = Taken(x) /\ Limit(x)' = Limit(x)
    BY <1>2, Now, PeerStays
  <1>4. Taken(x) \in Nat /\ Put(p) \in Nat /\ Taken(p) \in Nat /\ Put(x) \in Nat
        /\ Limit(x) \in Nat
    BY Counts, Now
  <1>5. n \in Nat /\ IsSeq(Way(x))
    BY Now, WayIsSeq
  <1>6. /\ Taken(x) + n = Put(p)
        /\ \A i \in 1..n : Way(x)[i][1] = Expected[x][Taken(x) + i]
    BY <1>2, Now DEF WayRight
  <1>7. ~Gone(x)
    <2>1. pc[x] # Done
      BY <1>2, <1>4, <1>5, <1>6
    <2> QED BY <2>1 DEF Gone, Live
  <1>8. Put(p) + 1 <= Limit(x)
    <2>1. Taken(p) + Len(Way(p)) = Put(x) /\ Len(Way(p)) \in Nat
      BY <1>2, Now, WayIsSeq DEF WayRight
    <2>2. Taken(p) <= Put(x)
      BY <1>4, <2>1
    <2> QED BY <1>2, <2>2, Now
  <1>9. Way(x)' = Way(x) \o unsent[p]
    <2>1. Way(x)' = ahead[x] \o (net[x] \o unsent[p])
      BY <1>1, <1>7, Now DEF Way
    <2> DEFINE a == ahead[x]
               b == net[x]
               u == unsent[p]
    <2>2. IsSeq(a) /\ IsSeq(b) /\ IsSeq(u)
      BY Now
    <2> HIDE DEF a, b, u
    <2>3. a \o (b \o u) = (a \o b) \o u
      BY <2>2, SeqAssoc
    <2> QED BY <2>1, <2>3 DEF Way, a, b, u
  <1>10. Len(unsent[p]) = 1 /\ unsent[p][1][1] = Expected[x][Put(p) + 1]
         /\ IsSeq(unsent[p])
    BY <1>2, Now DEF BufferRight
  <1>11. /\ Len(Way(x)') = n + 1
         /\ \A i \in 1..n : Way(x)'[i] = Way(x)[i]
         /\ Way(x)'[n + 1] = unsent[p][1]
    <2> DEFINE w == Way(x)
               u == unsent[p]
    <2>1. IsSeq(w) /\ IsSeq(u)
      BY <1>5, <1>10
    <2>2. Len(u) = 1 /\ Way(x)' = w \o u
      BY <1>9, <1>10
    <2> HIDE DEF w, u
    <2>3. /\ Len(w \o u) = Len(w) + Len(u)
          /\ \A i \in 1..Len(w) : (w \o u)[i] = w[i]
          /\ \A i \in 1..Len(u) : (w \o u)[Len(w) + i] = u[i]
      BY <2>1, SeqConcat
    <2>4. Way(x)'[Len(w) + 1] = u[1]
      BY <2>2, <2>3
    <2> QED BY <2>2, <2>3, <2>4 DEF w, u
  <1>12. Way(x)'[n + 1][1] = Expected[x][Taken(x) + (n + 1)]
    <2>1. Put(p) + 1 = Taken(x) + (n + 1)
      BY <1>4, <1>5, <1>6
    <2> QED BY <1>10, <1>11, <2>1
  <1> HIDE DEF x, n
  <1>13. \A i \in 1..(n + 1) : Way(x)'[i][1] = Expected[x][Taken(x) + i]
    <2> SUFFICES ASSUME NEW i \in 1..(n + 1)
                 PROVE  Way(x)'[i][1] = Expected[x][Taken(x) + i]
      OBVIOUS
    <2>1. i \in 1..n \/ i = n + 1
      BY <1>5
    <2>2. CASE i \in 1..n
      BY <1>6, <1>11, <2>2
    <2>3. CASE i = n + 1
      BY <1>12, <2>3
    <2> QED BY <2>1, <2>2, <2>3
  <1>14. Taken(x) + (n + 1) <= Limit(x) /\ Taken(x) + (n + 1) = Put(p) + 1
    BY <1>4, <1>5, <1>6, <1>8
  <1>15. WayRight(x)'
    <2>1. Peer(x) = p
      BY Now DEF x
    <2> QED BY <1>2, <1>3, <1>11, <1>13, <1>14, <2>1 DEF WayRight
  <1> QED BY <1>15 DEF x

(* The buffer goes to the other end, or nowhere.                           *)
LEMMA FlushKeeps ==
  ASSUME DInv, NEW p \in Ends, Flush(p) PROVE DInv'
  <1>1. /\ At(p, "flush") /\ Advance(p)
        /\ UNCHANGED <<case, link, has_sent, ahead, got, faults>>
        /\ unsent' = [unsent EXCEPT ![p] = <<>>]
        /\ net' = IF Gone(Peer(p)) THEN net
                  ELSE [net EXCEPT ![Peer(p)] = net[Peer(p)] \o unsent[p]]
    BY DEF Flush, Flushed
  <1>2. /\ Live(p) /\ Live(p)' /\ Placed(p)' /\ pc'[Peer(p)] = pc[Peer(p)]
        /\ ~At(p, "flush")'
        /\ Taken(p)' = Taken(p) /\ Limit(p)' >= Limit(p)
        /\ Limit(p) = Taken(p)
    BY <1>1, Now, FlushFacts
  <1>3. unsent'[p] = <<>> /\ unsent'[Peer(p)] = unsent[Peer(p)]
        /\ net'[p] = net[p]
    BY <1>1, Now
  <1>4. /\ Live(Peer(p))' = Live(Peer(p)) /\ Put(Peer(p))' = Put(Peer(p))
        /\ At(Peer(p), "flush")' = At(Peer(p), "flush")
    BY <1>2, Now, PeerStays
  <1>5. BufferRight(p)' /\ BufferRight(Peer(p))'
    BY <1>2, <1>3, <1>4, Now DEF BufferRight
  <1>6. WayRight(p)'
    <2>1. Way(p)' = Way(p)
      BY <1>1, <1>3 DEF Way
    <2>2. Taken(p) \in Nat /\ Limit(p)' \in Int /\ Len(Way(p)) = 0
      BY <1>2, Counts, NothingWaits DEF Limit
    <2>3. Live(Peer(p)) => Taken(p) + Len(Way(p)) = Put(Peer(p))
      BY <1>2, Now DEF WayRight
    <2> QED BY <1>2, <1>4, <2>1, <2>2, <2>3 DEF WayRight
  <1>7. WayRight(Peer(p))'
    <2>1. CASE Live(Peer(p))
      BY <1>1, <2>1, WayGrows
    <2>2. CASE ~Live(Peer(p))
      BY <1>4, <2>2 DEF WayRight
    <2> QED BY <2>1, <2>2
  <1>8. StreamShape'
    <2>1. DOMAIN pc' = Ends /\ DOMAIN unsent' = Ends /\ DOMAIN net' = Ends
      BY <1>1, Now DEF Advance
    <2>2. \A x \in Ends : x = p \/ x = Peer(p)
      BY TheEnds
    <2>3. IsSeq(net[Peer(p)] \o unsent[p])
      BY Now, SeqConcat
    <2>4. IsSeq(net'[Peer(p)])
      BY <1>1, <2>3, Now
    <2>5. IsSeq(unsent'[p]) /\ IsSeq(unsent'[Peer(p)]) /\ IsSeq(net'[p])
      BY <1>3, Now, NoElements DEF StreamShape
    <2> QED BY <1>1, <2>1, <2>2, <2>4, <2>5, Now DEF StreamShape
  <1>9. OneWay(p)' /\ OneWay(Peer(p))'
    BY <1>1, <1>3, Now DEF OneWay
  <1>10. pc[p] \notin {0, Failed}
    BY <1>1, <1>2 DEF At, Live
  <1> QED BY <1>1, <1>2, <1>5, <1>6, <1>7, <1>8, <1>9, <1>10, Now,
             NobodySpins, StepOf

(* The flush of a receive finds nothing to write.                          *)
LEMMA RecvFlushKeeps ==
  ASSUME DInv, NEW p \in Ends, RecvFlush(p) PROVE DInv'
  <1>1. /\ At(p, "recv") /\ UNCHANGED <<case, link, pc, ahead, got, faults>>
        /\ unsent' = [unsent EXCEPT ![p] = <<>>]
        /\ net' = IF Gone(Peer(p)) THEN net
                  ELSE [net EXCEPT ![Peer(p)] = net[Peer(p)] \o unsent[p]]
        /\ has_sent' = [has_sent EXCEPT ![p] = FALSE]
    BY DEF RecvFlush, Flushed
  <1>2. Live(p) /\ ~At(p, "flush")
    BY <1>1, Now, RecvFacts
  <1>3. unsent[p] = <<>>
    BY <1>2, Now DEF BufferRight
  <1>4. net[Peer(p)] \o unsent[p] = net[Peer(p)]
    <2> DEFINE s == net[Peer(p)]
    <2>1. IsSeq(s)
      BY Now
    <2> HIDE DEF s
    <2>2. s \o <<>> = s
      BY <2>1, SeqUnit
    <2> QED BY <1>3, <2>2 DEF s
  <1>5. \A x \in Ends : unsent'[x] = unsent[x] /\ net'[x] = net[x]
    BY <1>1, <1>3, <1>4, Now
  <1>6. \A x \in Ends : WayRight(x)' /\ BufferRight(x)'
    <2> SUFFICES ASSUME NEW x \in Ends PROVE WayRight(x)' /\ BufferRight(x)'
      OBVIOUS
    <2>1. Live(Peer(x))' => Live(Peer(x)) /\ Put(Peer(x))' = Put(Peer(x))
      BY <1>1, TheEnds, PeerStays
    <2> QED BY <1>1, <1>5, <2>1, OtherEnd, Now
  <1>7. StreamShape'
    BY <1>1, <1>5, Now DEF StreamShape
  <1>8. OneWay(p)' /\ OneWay(Peer(p))' /\ has_sent' \in [Ends -> BOOLEAN]
    BY <1>1, <1>5, Now DEF OneWay
  <1>9. SpinsOnlyAlone' /\ Placed(p)'
    BY <1>1, Now DEF DInv, SpinsOnlyAlone, Placed
  <1>10. pc[p] \notin {0, Failed} /\ pc'[Peer(p)] = pc[Peer(p)]
    BY <1>1, <1>2 DEF At, Live
  <1> QED BY <1>1, <1>6, <1>7, <1>8, <1>9, <1>10, Now, StepOf

(* Reading ahead moves messages on their way.                              *)
LEMMA FillKeeps ==
  ASSUME DInv, NEW p \in Ends, Fill(p) PROVE DInv'
  <1>1. /\ At(p, "recv") /\ ahead[p] = <<>>
        /\ UNCHANGED <<case, link, pc, unsent, has_sent, got, faults>>
    BY DEF Fill
  <1>2. PICK n \in 1..Len(net[p]) :
          /\ ahead' = [ahead EXCEPT ![p] = SubSeq(net[p], 1, n)]
          /\ net' = [net EXCEPT ![p] = SubSeq(net[p], n + 1, Len(net[p]))]
    BY DEF Fill
  <1>3. Live(p) /\ ~At(p, "flush")
    BY <1>1, Now, RecvFacts
  <1>4. unsent[p] = <<>>
    BY <1>3, Now DEF BufferRight
  <1>5. /\ ahead'[p] = SubSeq(net[p], 1, n)
        /\ net'[p] = SubSeq(net[p], n + 1, Len(net[p]))
        /\ ahead'[Peer(p)] = ahead[Peer(p)] /\ net'[Peer(p)] = net[Peer(p)]
    BY <1>2, Now
  <1>6. IsSeq(ahead'[p]) /\ IsSeq(net'[p]) /\ ahead'[p] \o net'[p] = net[p]
        /\ <<>> \o net[p] = net[p]
    <2> DEFINE s == net[p]
    <2>1. IsSeq(s)
      BY Now
    <2> HIDE DEF s
    <2>2. n \in 1..Len(s)
      BY DEF s
    <2>3. IsSeq(SubSeq(s, 1, n)) /\ IsSeq(SubSeq(s, n + 1, Len(s)))
          /\ SubSeq(s, 1, n) \o SubSeq(s, n + 1, Len(s)) = s
      BY <2>1, <2>2, SeqCut
    <2>4. <<>> \o s = s
      BY <2>1, SeqUnit
    <2> QED BY <1>5, <2>3, <2>4 DEF s
  <1>7. Way(p)' = Way(p)
    BY <1>1, <1>6 DEF Way
  <1>8. \A x \in Ends : /\ Live(x)' = Live(x) /\ Taken(x)' = Taken(x)
                        /\ Put(x)' = Put(x) /\ Limit(x)' = Limit(x)
                        /\ At(x, "flush")' = At(x, "flush")
    BY <1>1, PeerStays
  <1>9. WayRight(p)' /\ BufferRight(p)'
    <2>1. WayRight(p)'
      BY <1>7, <1>8, Now DEF WayRight
    <2>2. BufferRight(p)'
      BY <1>1, <1>8, Now DEF BufferRight
    <2> QED BY <2>1, <2>2
  <1>10. WayRight(Peer(p))' /\ BufferRight(Peer(p))'
    BY <1>1, <1>5, <1>8, Now, OtherEnd
  <1>11. StreamShape'
    <2>1. DOMAIN net' = Ends /\ DOMAIN ahead' = Ends
      BY <1>2, Now
    <2>2. \A x \in Ends : x = p \/ x = Peer(p)
      BY TheEnds
    <2> QED BY <1>1, <1>5, <1>6, <2>1, <2>2, Now DEF StreamShape
  <1>12. OneWay(p)' /\ OneWay(Peer(p))' /\ has_sent' \in [Ends -> BOOLEAN]
    BY <1>1, <1>4, <1>5, Now DEF OneWay
  <1>13. SpinsOnlyAlone' /\ Placed(p)'
    BY <1>1, Now DEF DInv, SpinsOnlyAlone, Placed
  <1>14. pc[p] \notin {0, Failed} /\ pc'[Peer(p)] = pc[Peer(p)]
    BY <1>1, <1>3 DEF At, Live
  <1> QED BY <1>1, <1>9, <1>10, <1>11, <1>12, <1>13, <1>14, Now, StepOf

(* The first message on the way is taken.                                  *)
LEMMA RecvKeeps ==
  ASSUME DInv, NEW p \in Ends, Recv(p) PROVE DInv'
  <1> DEFINE n == Len(Way(p))
  <1>1. /\ At(p, "recv") /\ ahead[p] # <<>> /\ Advance(p)
        /\ ahead' = [ahead EXCEPT ![p] = Tail(ahead[p])]
        /\ DOMAIN got' = DOMAIN got
        /\ UNCHANGED <<case, link, unsent, has_sent, net, faults>>
    BY DEF Recv
  <1>2. /\ Live(p) /\ Live(p)' /\ Placed(p)' /\ pc'[Peer(p)] = pc[Peer(p)]
        /\ ~At(p, "flush") /\ ~At(p, "flush")' /\ Taken(p)' = Taken(p) + 1
        /\ Put(p)' = Put(p) /\ Limit(p)' >= Limit(p)
    BY <1>1, Now, RecvFacts
  <1>3. ahead'[p] = Tail(ahead[p]) /\ ahead'[Peer(p)] = ahead[Peer(p)]
    BY <1>1, Now
  <1>4. /\ IsSeq(Tail(ahead[p])) /\ IsSeq(Way(p)) /\ n \in Nat /\ n >= 1
        /\ Tail(ahead[p]) \o net[p] = Tail(Way(p))
        /\ Len(Tail(Way(p))) = n - 1
        /\ \A i \in 1..(n - 1) : Tail(Way(p))[i] = Way(p)[i + 1]
    <2> DEFINE s == ahead[p]
               u == net[p]
               w == s \o u
    <2>1. IsSeq(s) /\ IsSeq(u) /\ s # <<>>
      BY <1>1, Now
    <2> HIDE DEF s, u
    <2>2. Len(w) >= 1 /\ Tail(s) \o u = Tail(w)
      BY <2>1, SeqFirst
    <2>3. IsSeq(Tail(s))
      BY <2>1, SeqTail
    <2>4. IsSeq(w)
      BY <2>1, SeqConcat
    <2>5. w # <<>> /\ Len(w) \in Nat
      BY <2>2, <2>4, NoElements DEF IsSeq
    <2> HIDE DEF w
    <2>6. /\ Len(Tail(w)) = Len(w) - 1
          /\ \A i \in 1..(Len(w) - 1) : Tail(w)[i] = w[i + 1]
      BY <2>4, <2>5, SeqTail
    <2>7. Way(p) = w
      BY DEF Way, w, s, u
    <2> QED BY <2>2, <2>3, <2>4, <2>5, <2>6, <2>7 DEF s, u
  <1>5. Way(p)' = Tail(Way(p))
    BY <1>1, <1>3, <1>4 DEF Way
  <1>6. Live(Peer(p))' = Live(Peer(p)) /\ Put(Peer(p))' = Put(Peer(p))
    BY <1>2, Now, PeerStays
  <1> HIDE DEF n
  <1>7. Taken(p) \in Nat /\ Limit(p) \in Nat /\ Limit(p)' \in Int
    BY Counts DEF Limit
  <1>8. /\ Taken(p) + n <= Limit(p)
        /\ Live(Peer(p)) => Taken(p) + n = Put(Peer(p))
        /\ \A i \in 1..n : Way(p)[i][1] = Expected[p][Taken(p) + i]
    BY <1>2, Now DEF WayRight, n
  <1>9. WayRight(p)'
    <2>1. Len(Way(p)') = n - 1
      BY <1>4, <1>5
    <2>2. Taken(p)' + Len(Way(p)') = Taken(p) + n
      BY <1>2, <1>4, <1>7, <2>1
    <2>3. ASSUME NEW i \in 1..(n - 1)
          PROVE  Way(p)'[i][1] = Expected[p][Taken(p)' + i]
      <3>1. i + 1 \in 1..n /\ Taken(p)' + i = Taken(p) + (i + 1)
        BY <1>2, <1>4, <1>7
      <3>2. Way(p)'[i] = Way(p)[i + 1]
        BY <1>4, <1>5
      <3>3. Way(p)[i + 1][1] = Expected[p][Taken(p) + (i + 1)]
        BY <1>8, <3>1
      <3> QED BY <3>1, <3>2, <3>3
    <2>4. Taken(p) + n <= Limit(p)'
      BY <1>2, <1>4, <1>7, <1>8
    <2> QED BY <1>2, <1>6, <1>8, <2>1, <2>2, <2>3, <2>4 DEF WayRight
  <1>10. BufferRight(p)'
    BY <1>1, <1>2, Now DEF BufferRight
  <1>11. WayRight(Peer(p))' /\ BufferRight(Peer(p))'
    BY <1>1, <1>2, <1>3, Now, OtherEnd
  <1>12. StreamShape'
    <2>1. DOMAIN ahead' = Ends /\ DOMAIN pc' = Ends
      BY <1>1, Now DEF Advance
    <2>2. \A x \in Ends : x = p \/ x = Peer(p)
      BY TheEnds
    <2> QED BY <1>1, <1>3, <1>4, <2>1, <2>2, Now DEF StreamShape
  <1>13. OneWay(p)' /\ OneWay(Peer(p))'
    <2>1. unsent[p] = <<>>
      BY <1>2, Now DEF BufferRight
    <2> QED BY <1>1, <1>3, <2>1, Now DEF OneWay
  <1>14. pc[p] \notin {0, Failed}
    BY <1>1, <1>2 DEF At, Live
  <1> QED BY <1>1, <1>2, <1>9, <1>10, <1>11, <1>12, <1>13, <1>14, Now,
             NobodySpins, StepOf

(* What is read ahead begins with the message that is waited for.          *)
LEMMA HeadExpected ==
  ASSUME DInv, NEW p \in Ends, At(p, "recv"), ahead[p] # <<>>
  PROVE  Head(ahead[p])[1] = Arg(p)
  <1>1. Live(p) /\ Arg(p) = Expected[p][Taken(p) + 1]
    BY Now, RecvFacts
  <1>2. Way(p)[1] = Head(ahead[p]) /\ Len(Way(p)) >= 1
    <2> DEFINE s == ahead[p]
               u == net[p]
    <2>1. IsSeq(s) /\ IsSeq(u) /\ s # <<>>
      BY Now
    <2> HIDE DEF s, u
    <2>2. (s \o u)[1] = Head(s) /\ Len(s \o u) >= 1
      BY <2>1, SeqFirst
    <2> QED BY <2>2 DEF Way, s, u
  <1>3. Len(Way(p)) \in Nat
    BY Now, WayIsSeq
  <1>4. Way(p)[1][1] = Expected[p][Taken(p) + 1]
    <2>1. WayRight(p) /\ 1 \in 1..Len(Way(p))
      BY <1>2, <1>3, Now
    <2> QED BY <1>1, <2>1 DEF WayRight
  <1> QED BY <1>1, <1>2, <1>4

-----------------------------------------------------------------------------
(* The theorems *)

(* At first all streams are empty.                                         *)
LEMMA DInvInit == Init => DInv
  <1> SUFFICES ASSUME Init PROVE DInv
    OBVIOUS
  <1>1. /\ case \in Cases /\ link = "none" /\ faults = 0
        /\ has_sent = [p \in Ends |-> FALSE] /\ pc = [p \in Ends |-> 0]
        /\ unsent = [p \in Ends |-> <<>>] /\ net = [p \in Ends |-> <<>>]
        /\ ahead = [p \in Ends |-> <<>>] /\ got = [p \in Ends |-> {}]
    BY DEF Init
  <1>2. \A p \in Ends : pc[p] = 0 /\ unsent[p] = <<>> /\ net[p] = <<>>
                        /\ ahead[p] = <<>>
    BY <1>1
  <1>3. StreamShape
    BY <1>1, <1>2, NoElements DEF StreamShape
  <1>4. \A p \in Ends : Placed(p) /\ Linked(p) /\ OneWay(p)
    <2> SUFFICES ASSUME NEW p \in Ends PROVE Placed(p) /\ Linked(p) /\ OneWay(p)
      OBVIOUS
    <2>1. CASE p = "client"
      BY <1>2, <2>1, Lengths DEF Placed, Linked, OneWay
    <2>2. CASE p = "server"
      BY <1>2, <2>2, Lengths DEF Placed, Linked, OneWay
    <2> QED BY <2>1, <2>2, TheEnds
  <1>5. TypeOK
    BY <1>1, <1>4, FaultsAssumption, TypeIs
  <1>6. SpinsOnlyAlone
    BY <1>2 DEF SpinsOnlyAlone, Spins
  <1>7. \A p \in Ends : ~At(p, "flush")
    BY <1>2 DEF At
  <1>8. \A p \in Ends : Len(Way(p)) = 0
    <2>1. <<>> \o <<>> = <<>>
      BY NoElements, SeqUnit
    <2> QED BY <1>2, <2>1, NoElements DEF Way
  <1>9. \A p \in Ends : Taken(p) = 0 /\ Put(p) = 0 /\ Limit(p) \in Nat
    BY <1>2 DEF Taken, Put, Limit
  <1>10. \A p \in Ends : BufferRight(p) /\ WayRight(p)
    <2> SUFFICES ASSUME NEW p \in Ends PROVE BufferRight(p) /\ WayRight(p)
      OBVIOUS
    <2>1. BufferRight(p)
      BY <1>2, <1>7 DEF BufferRight
    <2>2. Taken(p) + Len(Way(p)) = 0 /\ Put(Peer(p)) = 0 /\ Limit(p) >= 0
      BY <1>8, <1>9, TheEnds
    <2>3. WayRight(p)
      BY <1>8, <2>2 DEF WayRight
    <2> QED BY <2>1, <2>3
  <1> QED BY <1>3, <1>5, <1>6, <1>10 DEF DInv

(* DInv is inductive.                                                      *)
LEMMA DInvStep == DInv /\ [Next]_vars => DInv'
  <1> SUFFICES ASSUME DInv, [Next]_vars PROVE DInv'
    OBVIOUS
  <1>1. CASE UNCHANGED vars
    <2>1. UNCHANGED <<case, link, pc, unsent, has_sent, net, ahead, got, faults>>
      BY <1>1 DEF vars
    <2>2. \A p \in Ends : BufferRight(p)' /\ WayRight(p)'
      BY <2>1, OtherEnd, PeerStays, TheEnds DEF DInv
    <2>3. TypeOK' /\ StreamShape' /\ SpinsOnlyAlone'
      BY <2>1 DEF DInv, TypeOK, StreamShape, SpinsOnlyAlone
    <2> QED BY <2>2, <2>3 DEF DInv
  <1>2. faults \in 0..MaxFaults
    BY TypeIs DEF DInv
  <1>3. Fault => faults' \in 0..MaxFaults
    BY <1>2, FaultsAssumption DEF Fault
  <1>4. CASE BindFails
    <2>1. "server" \in Ends /\ pc["server"] # Failed
      BY <1>4, TheEnds DEF BindFails, Failed
    <2> QED BY <1>3, <1>4, <2>1, FailKeeps DEF BindFails
  <1>5. ASSUME NEW p \in Ends, BrokenPipe(p) PROVE DInv'
    <2>1. At(p, "flush") \/ At(p, "recv")
      BY <1>5 DEF BrokenPipe
    <2>2. pc[p] # Failed
      <3>1. CASE p = "client"
        BY <2>1, <3>1, ClientAt DEF Failed
      <3>2. CASE p = "server"
        BY <2>1, <3>2, ServerAt DEF Failed
      <3> QED BY <3>1, <3>2, TheEnds
    <2> QED BY <1>2, <1>5, <2>2, FailKeeps DEF BrokenPipe
  <1>6. ASSUME NEW p \in Ends, CardFails(p) PROVE DInv'
    <2>1. p = "server"
      BY <1>6, ClientAt, TheEnds DEF CardFails
    <2>2. pc[p] # Failed
      BY <1>6, <2>1, ServerAt DEF CardFails, Failed
    <2> QED BY <1>3, <1>6, <2>2, FailKeeps DEF CardFails
  <1>7. ASSUME NEW p \in Ends, Killed(p) PROVE DInv'
    BY <1>3, <1>7, FailKeeps DEF Killed
  <1>8. ASSUME NEW p \in Ends, Step(p) PROVE DInv'
    BY <1>8, LinkKeeps, SendKeeps, FlushKeeps, RecvFlushKeeps, FillKeeps,
       RecvKeeps, EofKeeps, CardKeeps DEF Step
  <1> QED BY <1>1, <1>4, <1>5, <1>6, <1>7, <1>8 DEF Next

(* And so it always holds.                                                 *)
LEMMA DInvAlways == Spec => []DInv
  BY DInvInit, DInvStep, PTL DEF Spec

(* The type invariant of the demo: for all inputs and any number of        *)
(* failures nobody runs on a stream that is not connected, and a stream's  *)
(* buffer serves one direction at a time.                                  *)
THEOREM DemoTypeCorrect == Spec => []TypeOK
  <1>1. DInv => TypeOK
    BY DEF DInv
  <1> QED BY <1>1, DInvAlways, PTL

(* No message is lost in a stream that turns from reading to writing, and  *)
(* each is received as the one it was sent as, for all inputs and however  *)
(* the processes are interleaved, cut off or killed.                       *)
THEOREM NothingEverLostInTurn == Spec => []NothingLostInTurn
  <1>1. ASSUME DInv, NEW p \in Ends, At(p, "send") PROVE ahead[p] = <<>>
    <2>1. Live(p) /\ Limit(p) = Taken(p)
      <3>1. CASE p = "client"
        <4>1. pc[p] \in {1, 4}
          BY <1>1, <3>1, ClientAt
        <4> QED BY <3>1, <4>1 DEF Live, Limit, Taken, Failed, Spins
      <3>2. CASE p = "server"
        <4>1. pc[p] \in {3, 7, 9}
          BY <1>1, <3>2, ServerAt
        <4> QED BY <3>2, <4>1 DEF Live, Limit, Taken, Failed, Spins
      <3> QED BY <3>1, <3>2, TheEnds
    <2> QED BY <1>1, <2>1, NothingWaits
  <1>2. ASSUME DInv, NEW p \in Ends, At(p, "recv"), ahead[p] # <<>>
        PROVE  Head(ahead[p])[1] = Arg(p)
    BY <1>2, HeadExpected
  <1>3. DInv => NothingLostInTurn
    BY <1>1, <1>2 DEF NothingLostInTurn
  <1> QED BY <1>3, DInvAlways, PTL

(* Who returns has flushed all that it sent.                               *)
THEOREM NothingEverUnflushedAtEnd == Spec => []NothingUnflushedAtEnd
  <1>1. ASSUME DInv, NEW p \in Ends, pc[p] = Done PROVE unsent[p] = <<>>
    <2>1. Live(p)
      BY <1>1 DEF Live, Done, Failed, Spins
    <2>2. ~At(p, "flush")
      <3>1. CASE p = "client"
        BY <1>1, <3>1, ClientAt DEF Done
      <3>2. CASE p = "server"
        BY <1>1, <3>2, ServerAt DEF Done
      <3> QED BY <3>1, <3>2, TheEnds
    <2> QED BY <1>1, <2>1, <2>2, Now DEF BufferRight
  <1>2. DInv => NothingUnflushedAtEnd
    BY <1>1 DEF NothingUnflushedAtEnd
  <1> QED BY <1>2, DInvAlways, PTL

(* Nobody falls into the endless loop of recv_data unless the other end    *)
(* has failed.                                                             *)
THEOREM SpinsAlwaysAlone == Spec => []SpinsOnlyAlone
  <1>1. DInv => SpinsOnlyAlone
    BY DEF DInv
  <1> QED BY <1>1, DInvAlways, PTL

-----------------------------------------------------------------------------
(* Congruence *)

(* x and y differ by a multiple of p.                                      *)
Cong(x, y, p) == \E k \in Int : x = y + k * p

(* A number and its remainder.                                             *)
LEMMA CongMod ==
  ASSUME NEW x \in Int, NEW p \in Nat, p >= 1
  PROVE  x % p \in 0..(p - 1) /\ Cong(x % p, x, p) /\ Cong(x, x % p, p)
  <1>1. x % p \in 0..(p - 1) /\ x \div p \in Int /\ x = (x % p) + (x \div p) * p
    OBVIOUS
  <1>2. x % p = x + (-(x \div p)) * p /\ -(x \div p) \in Int
    BY <1>1
  <1> QED BY <1>1, <1>2, Zenon DEF Cong

(* Equal numbers.                                                          *)
LEMMA CongSelf == ASSUME NEW x \in Int, NEW p \in Nat PROVE Cong(x, x, p)
  <1>1. x = x + 0 * p /\ 0 \in Int
    OBVIOUS
  <1> QED BY <1>1, Zenon DEF Cong

(* The order does not matter.                                              *)
LEMMA CongBack ==
  ASSUME NEW x \in Int, NEW y \in Int, NEW p \in Nat, Cong(x, y, p)
  PROVE  Cong(y, x, p)
  <1>1. PICK k \in Int : x = y + k * p
    BY DEF Cong
  <1>2. y = x + (-k) * p /\ -k \in Int
    BY <1>1
  <1> QED BY <1>2, Zenon DEF Cong

(* From one to the next.                                                   *)
LEMMA CongChain ==
  ASSUME NEW x \in Int, NEW y \in Int, NEW z \in Int, NEW p \in Nat,
         Cong(x, y, p), Cong(y, z, p)
  PROVE  Cong(x, z, p)
  <1>1. PICK k \in Int : x = y + k * p
    BY DEF Cong
  <1>2. PICK l \in Int : y = z + l * p
    BY DEF Cong
  <1>3. x = z + (k + l) * p /\ k + l \in Int
    BY <1>1, <1>2
  <1> QED BY <1>3, Zenon DEF Cong

(* Sums ...                                                                *)
LEMMA CongAdd ==
  ASSUME NEW x \in Int, NEW y \in Int, NEW u \in Int, NEW v \in Int, NEW p \in Nat,
         Cong(x, y, p), Cong(u, v, p)
  PROVE  Cong(x + u, y + v, p)
  <1>1. PICK k \in Int : x = y + k * p
    BY DEF Cong
  <1>2. PICK l \in Int : u = v + l * p
    BY DEF Cong
  <1>3. x + u = (y + v) + (k + l) * p /\ k + l \in Int
    BY <1>1, <1>2
  <1> QED BY <1>3, Zenon DEF Cong

(* ... and products.                                                       *)
LEMMA CongTimes ==
  ASSUME NEW x \in Int, NEW y \in Int, NEW u \in Int, NEW v \in Int, NEW p \in Nat,
         Cong(x, y, p), Cong(u, v, p)
  PROVE  Cong(x * u, y * v, p)
  <1>1. PICK k \in Int : x = y + k * p
    BY DEF Cong
  <1>2. PICK l \in Int : u = v + l * p
    BY DEF Cong
  <1>3. x * u = (y * v) + ((y * l) + (k * v) + (k * l * p)) * p
    BY <1>1, <1>2
  <1>4. (y * l) + (k * v) + (k * l * p) \in Int
    OBVIOUS
  <1> QED BY <1>3, <1>4, Zenon DEF Cong

(* Two remainders that are congruent are equal.                            *)
LEMMA CongSame ==
  ASSUME NEW p \in Nat, NEW x \in 0..(p - 1), NEW y \in 0..(p - 1), Cong(x, y, p)
  PROVE  x = y
  <1>1. PICK k \in Int : x = y + k * p
    BY DEF Cong
  <1>2. CASE k >= 1
    <2>1. k * p >= p
      BY <1>2
    <2> QED BY <1>1, <2>1
  <1>3. CASE k <= -1
    <2>1. k * p <= -p
      BY <1>3
    <2> QED BY <1>1, <2>1
  <1>4. CASE k = 0
    BY <1>1, <1>4
  <1> QED BY <1>2, <1>3, <1>4

(* Congruent numbers have the same remainder.                              *)
LEMMA CongRest ==
  ASSUME NEW x \in Int, NEW y \in Int, NEW p \in Nat, p >= 1, Cong(x, y, p)
  PROVE  x % p = y % p
  <1>1. x % p \in 0..(p - 1) /\ y % p \in 0..(p - 1)
        /\ Cong(x % p, x, p) /\ Cong(y, y % p, p)
    BY CongMod
  <1>2. x % p \in Int /\ y % p \in Int
    BY <1>1
  <1>3. Cong(x % p, y % p, p)
    BY <1>1, <1>2, CongChain
  <1> QED BY <1>1, <1>3, CongSame

(* A factor that has an inverse can be left out.                           *)
LEMMA CongCancel ==
  ASSUME NEW p \in Nat, p >= 1, NEW f \in Nat, Invertible(f, p),
         NEW x \in Int, NEW y \in Int, Cong(x * f, y * f, p)
  PROVE  Cong(x, y, p)
  <1>1. PICK i \in 0..(p - 1) : (f * i) % p = 1
    BY DEF Invertible
  <1>2. i \in Int /\ f * i \in Int
    BY <1>1
  <1>3. Cong(f * i, 1, p)
    BY <1>1, <1>2, CongMod
  <1>4. ASSUME NEW z \in Int PROVE Cong((z * f) * i, z, p)
    <2>1. Cong(z * (f * i), z * 1, p)
      BY <1>2, <1>3, CongSelf, CongTimes
    <2>2. z * (f * i) = (z * f) * i /\ z * 1 = z
      BY <1>2
    <2> QED BY <2>1, <2>2
  <1>5. x * f \in Int /\ y * f \in Int /\ (x * f) * i \in Int /\ (y * f) * i \in Int
    BY <1>2
  <1>6. Cong((x * f) * i, (y * f) * i, p)
    BY <1>2, <1>5, CongSelf, CongTimes
  <1>7. Cong(x, (x * f) * i, p)
    BY <1>4, <1>5, CongBack
  <1>8. Cong(x, (y * f) * i, p)
    BY <1>5, <1>6, <1>7, CongChain
  <1> QED BY <1>4, <1>5, <1>8, CongChain

-----------------------------------------------------------------------------
(* Sums *)

(* The sums are what their definitions say: the functions they choose from *)
(* exist.                                                                  *)
Adds(g, a, n)       == g = [c \in 0..n |-> IF c = 0 THEN 0 ELSE g[c - 1] + a[c]]
AddsMod(g, a, n, p) ==
  g = [c \in 0..n |-> IF c = 0 THEN 0 ELSE (g[c - 1] + a[c]) % p]

(* There is such a function: one for fewer terms can be extended.          *)
LEMMA AddsExist ==
  ASSUME NEW a, NEW n \in Nat PROVE \E g : Adds(g, a, n)
  <1> DEFINE T == {m \in Nat : ~\E g : Adds(g, a, m)}
  <1> SUFFICES ASSUME T # {} PROVE FALSE
    OBVIOUS
  <1>1. PICK m \in T : \A k \in T : m <= k
    <2>1. T \in SUBSET Nat
      OBVIOUS
    <2> HIDE DEF T
    <2> QED BY <2>1, LeastNatural
  <1>2. m # 0
    <2>1. Adds([c \in 0..0 |-> 0], a, 0)
      BY DEF Adds
    <2> QED BY <1>1, <2>1
  <1>3. m - 1 \in Nat /\ m - 1 \notin T
    BY <1>1, <1>2
  <1>4. PICK g : Adds(g, a, m - 1)
    BY <1>3
  <1> DEFINE h == [c \in 0..m |-> IF c = m THEN g[m - 1] + a[m] ELSE g[c]]
  <1>5. \A c \in 0..(m - 1) : h[c] = g[c]
    BY <1>1
  <1>6. \A c \in 0..(m - 1) : g[c] = IF c = 0 THEN 0 ELSE g[c - 1] + a[c]
    BY <1>4 DEF Adds
  <1>7. ASSUME NEW c \in 0..m
        PROVE  h[c] = IF c = 0 THEN 0 ELSE h[c - 1] + a[c]
    <2>1. CASE c = m
      <3>1. h[c] = g[m - 1] + a[m] /\ m - 1 \in 0..(m - 1)
        BY <1>1, <1>2, <2>1
      <3> QED BY <1>2, <1>5, <2>1, <3>1
    <2>2. CASE c # m
      <3>1. c \in 0..(m - 1) /\ (c # 0 => c - 1 \in 0..(m - 1))
        BY <1>1, <2>2
      <3>2. h[c] = g[c] /\ (c # 0 => h[c - 1] = g[c - 1])
        BY <1>5, <3>1
      <3> HIDE DEF h
      <3> QED BY <1>6, <3>1, <3>2
    <2> QED BY <2>1, <2>2
  <1>8. Adds(h, a, m)
    <2>1. h = [c \in 0..m |-> h[c]]
      OBVIOUS
    <2> HIDE DEF h
    <2> QED BY <1>7, <2>1 DEF Adds
  <1> QED BY <1>1, <1>8

(* The same for the reduced sum.                                           *)
LEMMA AddsModExist ==
  ASSUME NEW a, NEW n \in Nat, NEW p PROVE \E g : AddsMod(g, a, n, p)
  <1> DEFINE T == {m \in Nat : ~\E g : AddsMod(g, a, m, p)}
  <1> SUFFICES ASSUME T # {} PROVE FALSE
    OBVIOUS
  <1>1. PICK m \in T : \A k \in T : m <= k
    <2>1. T \in SUBSET Nat
      OBVIOUS
    <2> HIDE DEF T
    <2> QED BY <2>1, LeastNatural
  <1>2. m # 0
    <2>1. AddsMod([c \in 0..0 |-> 0], a, 0, p)
      BY DEF AddsMod
    <2> QED BY <1>1, <2>1
  <1>3. m - 1 \in Nat /\ m - 1 \notin T
    BY <1>1, <1>2
  <1>4. PICK g : AddsMod(g, a, m - 1, p)
    BY <1>3
  <1> DEFINE h == [c \in 0..m |-> IF c = m THEN (g[m - 1] + a[m]) % p ELSE g[c]]
  <1>5. \A c \in 0..(m - 1) : h[c] = g[c]
    BY <1>1
  <1>6. \A c \in 0..(m - 1) : g[c] = IF c = 0 THEN 0 ELSE (g[c - 1] + a[c]) % p
    BY <1>4 DEF AddsMod
  <1>7. ASSUME NEW c \in 0..m
        PROVE  h[c] = IF c = 0 THEN 0 ELSE (h[c - 1] + a[c]) % p
    <2>1. CASE c = m
      <3>1. h[c] = (g[m - 1] + a[m]) % p /\ m - 1 \in 0..(m - 1)
        BY <1>1, <1>2, <2>1
      <3> QED BY <1>2, <1>5, <2>1, <3>1
    <2>2. CASE c # m
      <3>1. c \in 0..(m - 1) /\ (c # 0 => c - 1 \in 0..(m - 1))
        BY <1>1, <2>2
      <3>2. h[c] = g[c] /\ (c # 0 => h[c - 1] = g[c - 1])
        BY <1>5, <3>1
      <3> HIDE DEF h
      <3> QED BY <1>6, <3>1, <3>2
    <2> QED BY <2>1, <2>2
  <1>8. AddsMod(h, a, m, p)
    <2>1. h = [c \in 0..m |-> h[c]]
      OBVIOUS
    <2> HIDE DEF h
    <2> QED BY <1>7, <2>1 DEF AddsMod
  <1> QED BY <1>1, <1>8

(* The function behind a sum, one term at a time.                          *)
LEMMA SumIs ==
  ASSUME NEW a, NEW n \in Nat
  PROVE  \E g : /\ Sum(a, n) = g[n] /\ g[0] = 0
                /\ \A c \in 1..n : g[c] = g[c - 1] + a[c]
  <1> DEFINE g == CHOOSE f : Adds(f, a, n)
  <1>1. Sum(a, n) = g[n]
    BY DEF Sum, Adds
  <1>2. Adds(g, a, n)
    BY AddsExist
  <1> HIDE DEF g
  <1>3. \A c \in 0..n : g[c] = IF c = 0 THEN 0 ELSE g[c - 1] + a[c]
    BY <1>2 DEF Adds
  <1> QED BY <1>1, <1>3

(* g holds the running values of a reduced sum.                            *)
RunsMod(g, a, n, p) ==
  /\ SumMod(a, n, p) = g[n]
  /\ g[0] = 0
  /\ \A c \in 1..n : g[c] = (g[c - 1] + a[c]) % p

(* The same for the reduced sum.                                           *)
LEMMA SumModIs ==
  ASSUME NEW a, NEW n \in Nat, NEW p
  PROVE  \E g : RunsMod(g, a, n, p)
  <1> DEFINE g == CHOOSE f : AddsMod(f, a, n, p)
  <1>1. SumMod(a, n, p) = g[n]
    BY DEF SumMod, AddsMod
  <1>2. AddsMod(g, a, n, p)
    BY AddsModExist
  <1> HIDE DEF g
  <1>3. \A c \in 0..n : g[c] = IF c = 0 THEN 0 ELSE (g[c - 1] + a[c]) % p
    BY <1>2 DEF AddsMod
  <1>4. g[0] = 0
    BY ONLY n \in Nat, <1>3, SMT
  <1>5. ASSUME NEW c \in 1..n PROVE g[c] = (g[c - 1] + a[c]) % p
    <2>1. c \in 0..n /\ c # 0
      BY ONLY n \in Nat, c \in 1..n, SMT
    <2> QED BY ONLY <1>3, <2>1, Zenon
  <1>6. RunsMod(g, a, n, p)
    BY ONLY <1>1, <1>4, <1>5, Zenon DEF RunsMod
  <1> QED BY ONLY <1>6, Zenon

(* A sum of numbers is a number.                                           *)
LEMMA SumInt ==
  ASSUME NEW n \in Nat, NEW a \in [1..n -> Int] PROVE Sum(a, n) \in Int
  <1>1. PICK g : /\ Sum(a, n) = g[n] /\ g[0] = 0
                 /\ \A c \in 1..n : g[c] = g[c - 1] + a[c]
    BY ONLY n \in Nat, SumIs, Zenon
  <1> DEFINE T == {c \in 0..n : g[c] \notin Int}
  <1> SUFFICES T = {}
    BY <1>1
  <1> SUFFICES ASSUME T # {} PROVE FALSE
    OBVIOUS
  <1>2. PICK m \in T : \A k \in T : m <= k
    <2>1. T \in SUBSET Nat
      OBVIOUS
    <2> HIDE DEF T
    <2> QED BY <2>1, LeastNatural
  <1>3. m \in 1..n /\ m - 1 \in 0..n /\ m - 1 \notin T
    BY <1>1, <1>2
  <1>4. g[m] = g[m - 1] + a[m] /\ g[m - 1] \in Int
    BY <1>1, <1>3
  <1> QED BY <1>2, <1>3, <1>4

(* A sum that is reduced at each step is congruent to the sum; a common    *)
(* factor can be taken out.                                                *)
LEMMA SumModCong ==
  ASSUME NEW n \in Nat, NEW p \in Nat, p >= 1, NEW f \in Int,
         NEW a \in [1..n -> Int], NEW b \in [1..n -> Int],
         \A c \in 1..n : Cong(a[c], b[c] * f, p)
  PROVE  SumMod(a, n, p) \in 0..(p - 1) /\ Cong(SumMod(a, n, p), Sum(b, n) * f, p)
  <1>0. PICK g : RunsMod(g, a, n, p)
    BY ONLY n \in Nat, SumModIs, Zenon
  <1>1. /\ SumMod(a, n, p) = g[n] /\ g[0] = 0
        /\ \A c \in 1..n : g[c] = (g[c - 1] + a[c]) % p
    BY ONLY <1>0, Zenon DEF RunsMod
  <1>2. PICK h : /\ Sum(b, n) = h[n] /\ h[0] = 0
                 /\ \A c \in 1..n : h[c] = h[c - 1] + b[c]
    BY ONLY n \in Nat, SumIs, Zenon
  <1> DEFINE OK(c) == /\ g[c] \in 0..(p - 1) /\ h[c] \in Int
                      /\ Cong(g[c], h[c] * f, p)
             T == {c \in 0..n : ~OK(c)}
  <1>3. OK(0)
    <2>1. Cong(0, 0, p) /\ 0 * f = 0
      BY CongSelf
    <2> QED BY <1>1, <1>2, <2>1
  <1>4. T = {}
    <2> SUFFICES ASSUME T # {} PROVE FALSE
      OBVIOUS
    <2>1. PICK m \in T : \A k \in T : m <= k
      <3>1. T \in SUBSET Nat
        OBVIOUS
      <3> HIDE DEF T
      <3> QED BY <3>1, LeastNatural
    <2>2. m # 0
      <3> HIDE DEF OK
      <3> QED BY <1>3, <2>1
    <2>3. m \in 1..n /\ m - 1 \in 0..n /\ m - 1 \notin T /\ ~OK(m)
      <3> HIDE DEF OK
      <3> QED BY <2>1, <2>2
    <2>4. OK(m - 1)
      <3> HIDE DEF OK
      <3> QED BY <2>3
    <2> DEFINE u == g[m - 1]
               v == h[m - 1]
               x == a[m]
               y == b[m]
    <2>5. /\ u \in 0..(p - 1) /\ v \in Int /\ Cong(u, v * f, p)
          /\ x \in Int /\ y \in Int /\ Cong(x, y * f, p)
          /\ g[m] = (u + x) % p /\ h[m] = v + y
      BY <1>1, <1>2, <2>3, <2>4
    <2> HIDE DEF u, v, x, y
    <2>6. u \in Int /\ v * f \in Int /\ y * f \in Int /\ u + x \in Int
          /\ (v * f) + (y * f) = (v + y) * f /\ (v + y) * f \in Int
      BY <2>5
    <2>7. Cong(u + x, (v + y) * f, p)
      <3>1. Cong(u + x, (v * f) + (y * f), p)
        BY ONLY <2>5, <2>6, p \in Nat, CongAdd
      <3> QED BY <2>6, <3>1
    <2>8. (u + x) % p \in 0..(p - 1) /\ Cong((u + x) % p, u + x, p)
      BY <2>6, CongMod
    <2>9. Cong((u + x) % p, (v + y) * f, p)
      <3>1. (u + x) % p \in Int
        BY <2>8
      <3> QED BY <2>6, <2>7, <2>8, <3>1, CongChain
    <2>10. OK(m)
      BY <2>5, <2>8, <2>9
    <2> QED BY <2>3, <2>10
  <1>5. OK(n)
    <2> HIDE DEF OK
    <2> QED BY <1>4
  <1> QED BY <1>1, <1>2, <1>5

(* x lies within d of y.                                                   *)
Near(x, y, d) == -d <= x - y /\ x - y <= d

(* When each term is near its true value, up to a multiple of m * w, then  *)
(* so is the sum.                                                          *)
LEMMA SumNear ==
  ASSUME NEW n \in Nat, NEW m \in Nat, NEW w \in Nat,
         NEW a \in [1..n -> Int], NEW b \in [1..n -> Int], NEW s \in [1..n -> Int],
         \A c \in 1..n : \E k \in Int : Near(m * a[c], w * (b[c] + m * k), m * s[c])
  PROVE  \E k \in Int : Near(m * Sum(a, n), w * (Sum(b, n) + m * k), m * Sum(s, n))
  <1>1. PICK A : /\ Sum(a, n) = A[n] /\ A[0] = 0
                 /\ \A c \in 1..n : A[c] = A[c - 1] + a[c]
    BY ONLY n \in Nat, SumIs, Zenon
  <1>2. PICK B : /\ Sum(b, n) = B[n] /\ B[0] = 0
                 /\ \A c \in 1..n : B[c] = B[c - 1] + b[c]
    BY ONLY n \in Nat, SumIs, Zenon
  <1>3. PICK D : /\ Sum(s, n) = D[n] /\ D[0] = 0
                 /\ \A c \in 1..n : D[c] = D[c - 1] + s[c]
    BY ONLY n \in Nat, SumIs, Zenon
  <1> DEFINE OK(c) == /\ A[c] \in Int /\ B[c] \in Int /\ D[c] \in Int
                      /\ \E k \in Int : Near(m * A[c], w * (B[c] + m * k), m * D[c])
             T == {c \in 0..n : ~OK(c)}
  <1>4. OK(0)
    <2>1. Near(m * 0, w * (0 + m * 0), m * 0) /\ 0 \in Int
      BY DEF Near
    <2> QED BY <1>1, <1>2, <1>3, <2>1
  <1>5. T = {}
    <2> SUFFICES ASSUME T # {} PROVE FALSE
      OBVIOUS
    <2>1. PICK i \in T : \A k \in T : i <= k
      <3>1. T \in SUBSET Nat
        OBVIOUS
      <3> HIDE DEF T
      <3> QED BY <3>1, LeastNatural
    <2>2. i # 0
      <3> HIDE DEF OK
      <3> QED BY <1>4, <2>1
    <2>3. i \in 1..n /\ i - 1 \in 0..n /\ i - 1 \notin T /\ ~OK(i)
      <3> HIDE DEF OK
      <3> QED BY <2>1, <2>2
    <2>4. OK(i - 1)
      <3> HIDE DEF OK
      <3> QED BY <2>3
    <2> DEFINE x == A[i - 1]
               y == B[i - 1]
               d == D[i - 1]
               f == a[i]
               g == b[i]
               h == s[i]
    <2>5. /\ x \in Int /\ y \in Int /\ d \in Int /\ f \in Int /\ g \in Int /\ h \in Int
          /\ A[i] = x + f /\ B[i] = y + g /\ D[i] = d + h
      BY <1>1, <1>2, <1>3, <2>3, <2>4
    <2>6. PICK k \in Int : Near(m * x, w * (y + m * k), m * d)
      BY <2>4
    <2>7. PICK l \in Int : Near(m * f, w * (g + m * l), m * h)
      BY <2>3
    <2> HIDE DEF x, y, d, f, g, h
    <2>8. Near(m * (x + f), w * ((y + g) + m * (k + l)), m * (d + h))
      <3>1. /\ m * (x + f) = m * x + m * f
            /\ w * ((y + g) + m * (k + l)) = w * (y + m * k) + w * (g + m * l)
            /\ m * (d + h) = m * d + m * h
        BY <2>5
      <3>2. /\ m * x \in Int /\ m * f \in Int /\ m * d \in Int /\ m * h \in Int
            /\ w * (y + m * k) \in Int /\ w * (g + m * l) \in Int
        BY <2>5
      <3> DEFINE x1 == m * x
                 x2 == m * f
                 y1 == w * (y + m * k)
                 y2 == w * (g + m * l)
                 d1 == m * d
                 d2 == m * h
      <3>3. Near(x1, y1, d1) /\ Near(x2, y2, d2)
        BY <2>6, <2>7
      <3>4. /\ x1 \in Int /\ x2 \in Int /\ y1 \in Int /\ y2 \in Int
            /\ d1 \in Int /\ d2 \in Int
        BY <3>2
      <3> HIDE DEF x1, x2, y1, y2, d1, d2
      <3>5. Near(x1 + x2, y1 + y2, d1 + d2)
        BY ONLY <3>3, <3>4, SMT DEF Near
      <3> QED BY <3>1, <3>5 DEF x1, x2, y1, y2, d1, d2
    <2>9. k + l \in Int
      OBVIOUS
    <2>10. OK(i)
      <3>1. \E j \in Int : Near(m * (x + f), w * ((y + g) + m * j), m * (d + h))
        BY <2>8, <2>9, Zenon
      <3>2. \E j \in Int : Near(m * A[i], w * (B[i] + m * j), m * D[i])
        BY <2>5, <3>1, Zenon
      <3>3. A[i] \in Int /\ B[i] \in Int /\ D[i] \in Int
        BY <2>5
      <3> QED BY <3>2, <3>3, Zenon
    <2> QED BY <2>3, <2>10
  <1>6. OK(n)
    <2> HIDE DEF OK
    <2> QED BY <1>5, SMTT(60)
  <1> QED BY <1>1, <1>2, <1>3, <1>6

-----------------------------------------------------------------------------
(* The moduli *)

(* What is used of the moduli.                                             *)
LEMMA Moduli ==
  /\ t \in Nat /\ t >= 4 /\ 2 * (t \div 2) = t /\ t \div 2 \in Nat
  /\ Q \in Nat /\ Q >= 4 /\ Q = q[1] * q[2] /\ qk \in Nat
  /\ Invertible(q[1], q[2])
  /\ \A j \in Limbs : q[j] \in Nat /\ q[j] > 1 /\ Invertible(qk, q[j])
  /\ \A j \in Limbs : \E k \in Nat : Q = k * q[j]
  <1>1. /\ LogT \in Nat /\ LogT >= 2 /\ qk \in Nat
        /\ q[1] > 1 /\ q[2] > 1
        /\ Invertible(q[1], q[2]) /\ Invertible(qk, q[1]) /\ Invertible(qk, q[2])
    BY ModuliAssumption
  <1>2. q[1] \in Nat /\ q[2] \in Nat
    <2>1. q \in Seq(Nat) /\ 1 \in 1..Len(q) /\ 2 \in 1..Len(q)
      BY ModuliAssumption
    <2> QED BY <2>1, ElementOfSeq
  <1>3. t \in Nat /\ t >= 4 /\ 2 * (t \div 2) = t /\ t \div 2 \in Nat
    <2>1. /\ LogT - 1 \in Nat /\ LogT - 1 >= 1 /\ (LogT - 1) - 1 \in Nat
      BY <1>1
    <2>2. /\ 2^LogT = 2 * 2^(LogT - 1)
          /\ 2^(LogT - 1) = 2 * 2^((LogT - 1) - 1)
      BY <1>1, <2>1, PowerBefore
    <2>3. 2^((LogT - 1) - 1) \in Nat /\ 2^((LogT - 1) - 1) >= 1
      BY <2>1, NatPower
    <2>4. \A x, y \in Nat : y >= 1 /\ x = 2 * (2 * y)
                            => x >= 4 /\ 2 * (x \div 2) = x /\ x \div 2 \in Nat
      OBVIOUS
    <2> DEFINE y == 2^((LogT - 1) - 1)
    <2>5. t = 2 * (2 * y) /\ y \in Nat /\ y >= 1
      BY <2>2, <2>3 DEF t
    <2> HIDE DEF y
    <2>6. t \in Nat
      BY <2>5
    <2> QED BY <2>4, <2>5, <2>6
  <1>4. Q = q[1] * q[2] /\ Q = q[2] * q[1]
    BY <1>2 DEF Q
  <1>5. Q \in Nat /\ Q >= 4
    <2>1. \A x, y \in Nat : x > 1 /\ y > 1 => x * y \in Nat /\ x * y >= 4
      <3> SUFFICES ASSUME NEW x \in Nat, NEW y \in Nat, x > 1, y > 1
                   PROVE  x * y \in Nat /\ x * y >= 4
        OBVIOUS
      <3>1. x * y >= 2 * y
        OBVIOUS
      <3> QED BY <3>1
    <2> QED BY <1>1, <1>2, <1>4, <2>1
  <1>6. \A j \in Limbs : j = 1 \/ j = 2
    BY DEF Limbs
  <1>7. \A j \in Limbs : q[j] \in Nat /\ q[j] > 1 /\ Invertible(qk, q[j])
    BY <1>1, <1>2, <1>6
  <1>8. \A j \in Limbs : \E k \in Nat : Q = k * q[j]
    BY <1>2, <1>4, <1>6
  <1> QED BY <1>1, <1>3, <1>4, <1>5, <1>7, <1>8

-----------------------------------------------------------------------------
(* The lift of a share *)

(* Q * x / t, rounded.                                                     *)
Lift(x) == (Q \div t) * x + (((Q % t) * x + t \div 2) \div t)

(* ModulusUpAt gives its residues, ...                                     *)
LEMMA LiftResidue ==
  ASSUME NEW x \in Nat, NEW j \in Limbs
  PROVE  /\ Lift(x) \in Nat /\ ModulusUpAt(x, j) \in 0..(q[j] - 1)
         /\ Cong(ModulusUpAt(x, j), Lift(x), q[j])
  <1> DEFINE p == q[j]
             a == Q \div t
             b == Q % t
             h == t \div 2
             v == (b * x + h) \div t
             u == (x * (a % p)) % p
  <1>1. p \in Nat /\ p >= 1 /\ a \in Nat /\ b \in Nat /\ h \in Nat
    BY Moduli
  <1>2. v \in Nat
    <2>1. b * x + h \in Nat
      <3> HIDE DEF b, h
      <3> QED BY <1>1
    <2> HIDE DEF b, h
    <2> QED BY <2>1, Moduli
  <1>3. ModulusUpAt(x, j) = (u + v) % p /\ Lift(x) = a * x + v
    BY DEF ModulusUpAt, Lift
  <1> HIDE DEF p, a, b, h, v
  <1>4. a % p \in 0..(p - 1) /\ Cong(a % p, a, p)
    BY <1>1, CongMod
  <1>5. x * (a % p) \in Int /\ x * a \in Int /\ a % p \in Int
    BY <1>1, <1>4
  <1>6. Cong(x * (a % p), x * a, p)
    <2>1. x \in Int /\ a \in Int /\ Cong(x, x, p)
      BY <1>1, CongSelf
    <2> QED BY <1>1, <1>4, <1>5, <2>1, CongTimes
  <1>7. u \in 0..(p - 1) /\ Cong(u, x * (a % p), p)
    BY <1>1, <1>5, CongMod
  <1> HIDE DEF u
  <1>8. Cong(u, x * a, p) /\ u \in Int
    BY <1>1, <1>5, <1>6, <1>7, CongChain
  <1>9. Cong(u + v, x * a + v, p)
    <2>1. v \in Int /\ Cong(v, v, p)
      BY <1>1, <1>2, CongSelf
    <2> QED BY <1>1, <1>5, <1>8, <2>1, CongAdd
  <1>10. u + v \in Int /\ x * a + v \in Int /\ x * a + v = a * x + v /\ a * x + v \in Nat
    BY <1>1, <1>2, <1>5, <1>8
  <1>11. (u + v) % p \in 0..(p - 1) /\ Cong((u + v) % p, u + v, p)
    BY <1>1, <1>10, CongMod
  <1>12. Cong((u + v) % p, x * a + v, p)
    <2>1. (u + v) % p \in Int
      BY <1>1, <1>11
    <2> QED BY <1>1, <1>9, <1>10, <1>11, <2>1, CongChain
  <1>13. ModulusUpAt(x, j) \in 0..(p - 1) /\ Cong(ModulusUpAt(x, j), Lift(x), p)
    BY <1>3, <1>10, <1>11, <1>12
  <1> QED BY <1>3, <1>10, <1>13 DEF p

(* ... and is off by at most a half.                                       *)
LEMMA LiftNear ==
  ASSUME NEW x \in Nat
  PROVE  Near(2 * (t * Lift(x)), 2 * (Q * x), t)
  <1> DEFINE a == Q \div t
             b == Q % t
             h == t \div 2
             y == b * x
             v == (y + h) \div t
             r == (y + h) % t
  <1>1. /\ t \in Nat /\ t >= 4 /\ Q \in Nat /\ a \in Nat /\ b \in Nat
        /\ 2 * h = t /\ h \in Nat /\ Q = a * t + b
    <2>1. t \in Nat /\ t >= 1 /\ t >= 4 /\ Q \in Nat /\ 2 * h = t /\ h \in Nat
      BY Moduli
    <2>2. a \in Nat /\ b \in 0..(t - 1) /\ Q = a * t + b
      BY ONLY <2>1, DivMod, Zenon
    <2> HIDE DEF a, b, h
    <2> QED BY <2>1, <2>2
  <1>2. Lift(x) = a * x + v
    BY DEF Lift
  <1> HIDE DEF a, b, h
  <1>3. y \in Nat /\ y + h \in Nat /\ Q * x = t * (a * x) + y
    BY <1>1
  <1> HIDE DEF y
  <1>4. v \in Nat /\ r \in 0..(t - 1) /\ y + h = v * t + r
    <2>1. t >= 1
      BY <1>1
    <2> QED BY ONLY <1>1, <1>3, <2>1, DivMod, Zenon
  <1> HIDE DEF v, r
  <1>5. t * (a * x + v) = t * (a * x) + v * t /\ t * (a * x) \in Nat /\ v * t \in Nat
    BY <1>1, <1>4
  <1> DEFINE A == t * (a * x)
             V == v * t
             L == t * Lift(x)
             R == Q * x
  <1>6. A \in Nat /\ V \in Nat /\ L = A + V /\ R = A + y /\ y + h = V + r
    BY <1>2, <1>3, <1>4, <1>5
  <1> HIDE DEF A, V, L, R
  <1>7. Near(2 * L, 2 * R, t)
    BY ONLY <1>1, <1>3, <1>4, <1>6, SMT DEF Near
  <1> QED BY <1>7 DEF L, R

(* A number modulo t in two's complement.                                  *)
Centre(x) == IF t \div 2 <= x THEN x - t ELSE x

(* CenteralizeAt gives its residues, and Mag bounds it.                    *)
LEMMA CentreIs ==
  ASSUME NEW x \in 0..(t - 1)
  PROVE  /\ Centre(x) \in Int /\ Mag(x) \in Nat
         /\ -Mag(x) <= Centre(x) /\ Centre(x) <= Mag(x)
         /\ \E e \in 0..1 : Centre(x) = x - t * e
         /\ \A j \in Limbs : CenteralizeAt(x, j) \in Int
                             /\ Cong(CenteralizeAt(x, j), Centre(x), q[j])
  <1>1. t \in Nat /\ t >= 4 /\ 2 * (t \div 2) = t /\ t \div 2 \in Nat
    BY Moduli
  <1>2. CASE t \div 2 <= x
    <2>1. Centre(x) = x - t * 1 /\ 1 \in 0..1 /\ Mag(x) = t - x /\ Centre(x) = x - t
      BY <1>1, <1>2 DEF Centre, Mag, Least
    <2>2. (t - x) % t = t - x
      BY <1>1, <1>2
    <2>3. ASSUME NEW j \in Limbs
          PROVE  CenteralizeAt(x, j) \in Int
                 /\ Cong(CenteralizeAt(x, j), Centre(x), q[j])
      <3>1. q[j] \in Nat
        BY Moduli
      <3>2. CenteralizeAt(x, j) = Centre(x) + 1 * q[j] /\ CenteralizeAt(x, j) \in Int
        BY <1>1, <1>2, <2>1, <2>2, <3>1 DEF CenteralizeAt
      <3>3. 1 \in Int
        OBVIOUS
      <3> QED BY <3>2, <3>3, Zenon DEF Cong
    <2> QED BY <1>1, <2>1, <2>3
  <1>3. CASE ~(t \div 2 <= x)
    <2>1. Centre(x) = x - t * 0 /\ 0 \in 0..1 /\ Mag(x) = x /\ Centre(x) = x
      BY <1>1, <1>3 DEF Centre, Mag, Least
    <2>2. ASSUME NEW j \in Limbs
          PROVE  CenteralizeAt(x, j) \in Int
                 /\ Cong(CenteralizeAt(x, j), Centre(x), q[j])
      <3>1. q[j] \in Nat /\ q[j] >= 1 /\ x \in Int
        BY Moduli
      <3>2. CenteralizeAt(x, j) = x % q[j]
        BY <1>3 DEF CenteralizeAt
      <3>3. x % q[j] \in 0..(q[j] - 1) /\ Cong(x % q[j], x, q[j])
        BY <3>1, CongMod
      <3>4. x % q[j] \in Int
        BY <3>1, <3>3
      <3> QED BY <2>1, <3>2, <3>3, <3>4
    <2> QED BY <1>1, <2>1, <2>2
  <1> QED BY <1>2, <1>3

(* One column: the products with both lifted shares are near Q / t times   *)
(* the product with the element they add up to.                            *)
LEMMA ColumnNear ==
  ASSUME NEW m \in 0..(t - 1), NEW w \in 0..(t - 1), NEW y \in 0..(t - 1)
  PROVE  /\ (w - y) % t \in 0..(t - 1)
         /\ \E k \in Int : Near(t * (Centre(m) * (Lift((w - y) % t) + Lift(y))),
                                Q * (m * w + t * k), t * Mag(m))
  <1>1. t \in Nat /\ t >= 4 /\ Q \in Nat
    BY Moduli
  <1> DEFINE x == (w - y) % t
  <1>2. x \in 0..(t - 1) /\ \E e \in 0..1 : x + y = w + t * e
    <2>1. w - y \in Int /\ w \in Nat /\ y \in Nat /\ w < t /\ y < t
      BY <1>1
    <2>2. CASE y <= w
      <3>1. x = w - y
        BY <1>1, <2>1, <2>2
      <3>2. x + y = w + t * 0 /\ 0 \in 0..1
        BY <1>1, <3>1
      <3> QED BY <1>1, <2>1, <2>2, <3>1, <3>2
    <2>3. CASE ~(y <= w)
      <3>1. x = (w - y) + t
        BY <1>1, <2>1, <2>3
      <3>2. x + y = w + t * 1 /\ 1 \in 0..1
        BY <1>1, <3>1
      <3> QED BY <1>1, <2>1, <2>3, <3>1, <3>2
    <2> QED BY <2>2, <2>3
  <1> HIDE DEF x
  <1>3. PICK e \in 0..1 : x + y = w + t * e
    BY <1>2
  <1>4. PICK f \in 0..1 : Centre(m) = m - t * f
    BY CentreIs
  <1>5. x \in Nat /\ y \in Nat /\ Limbs # {}
    BY <1>1, <1>2 DEF Limbs
  <1> DEFINE c == Centre(m)
             a == Mag(m)
             L == Lift(x) + Lift(y)
             d == t * L - Q * (x + y)
  <1>6. Lift(x) \in Nat /\ Lift(y) \in Nat
    BY <1>5, LiftResidue
  <1>7. Near(2 * (t * Lift(x)), 2 * (Q * x), t) /\ Near(2 * (t * Lift(y)), 2 * (Q * y), t)
    BY <1>5, LiftNear
  <1>8. c \in Int /\ a \in Nat /\ -a <= c /\ c <= a /\ L \in Nat /\ c = m - t * f
    BY <1>4, <1>6, CentreIs
  <1>9. d \in Int /\ -t <= d /\ d <= t
    <2> DEFINE x1 == t * Lift(x)
               x2 == t * Lift(y)
               y1 == Q * x
               y2 == Q * y
    <2>1. x1 \in Int /\ x2 \in Int /\ y1 \in Int /\ y2 \in Int /\ d = (x1 + x2) - (y1 + y2)
      BY <1>1, <1>5, <1>6
    <2>2. Near(2 * x1, 2 * y1, t) /\ Near(2 * x2, 2 * y2, t)
      BY <1>7
    <2> HIDE DEF x1, x2, y1, y2, d
    <2> QED BY ONLY <1>1, <2>1, <2>2, SMT DEF Near
  <1>10. t * L = Q * (x + y) + d /\ Q * (x + y) \in Int
    BY <1>1, <1>5, <1>8
  <1> HIDE DEF c, a, L, d
  <1> DEFINE k == m * e - f * w - t * f * e
  <1>11. k \in Int /\ c * (w + t * e) = m * w + t * k
    BY <1>1, <1>8
  <1> HIDE DEF k
  <1>12. t * (c * L) = Q * (m * w + t * k) + c * d
    <2>1. t * (c * L) = c * (t * L)
      BY <1>1, <1>8
    <2>2. t * (c * L) = c * (Q * (w + t * e)) + c * d
      BY <1>1, <1>3, <1>8, <1>9, <1>10, <2>1
    <2>3. c * (Q * (w + t * e)) = Q * (c * (w + t * e))
      BY <1>1, <1>8
    <2> QED BY <1>11, <2>2, <2>3
  <1>13. -(t * a) <= c * d /\ c * d <= t * a /\ c * d \in Int /\ t * a \in Int
    <2>1. \A u, v, r, s \in Int : r >= 0 /\ s >= 0 /\ -r <= u /\ u <= r /\ -s <= v /\ v <= s
                                  => -(s * r) <= u * v /\ u * v <= s * r
      <3> SUFFICES ASSUME NEW u \in Int, NEW v \in Int, NEW r \in Int, NEW s \in Int,
                          r >= 0, s >= 0, -r <= u, u <= r, -s <= v, v <= s
                   PROVE  -(s * r) <= u * v /\ u * v <= s * r
        OBVIOUS
      <3>1. CASE v >= 0
        <4>1. u * v <= r * v /\ (-r) * v <= u * v
          BY <3>1
        <4>2. r * v <= r * s
          BY <3>1
        <4> QED BY <4>1, <4>2
      <3>2. CASE v <= 0
        <4>1. u * (-v) <= r * (-v) /\ (-r) * (-v) <= u * (-v)
          BY <3>2
        <4>2. r * (-v) <= r * s
          BY <3>2
        <4> QED BY <4>1, <4>2
      <3> QED BY <3>1, <3>2
    <2> QED BY <1>1, <1>8, <1>9, <2>1
  <1>14. Near(t * (c * L), Q * (m * w + t * k), t * a)
    <2> DEFINE X == t * (c * L)
               Y == Q * (m * w + t * k)
               E == c * d
               B == t * a
    <2>1. X = Y + E /\ X \in Int /\ Y \in Int /\ E \in Int /\ B \in Int /\ -B <= E /\ E <= B
      BY <1>1, <1>8, <1>11, <1>12, <1>13
    <2> HIDE DEF X, Y, E, B
    <2>2. Near(X, Y, B)
      BY ONLY <2>1, SMT DEF Near
    <2> QED BY <2>2 DEF X, Y, E, B
  <1> QED BY <1>2, <1>11, <1>14 DEF c, a, L, x

-----------------------------------------------------------------------------
(* Back from the residues *)

(* Numbers that agree modulo both primes agree modulo their product.       *)
LEMMA SameModQ ==
  ASSUME NEW x \in Int, NEW y \in Int, \A j \in Limbs : Cong(x, y, q[j])
  PROVE  Cong(x, y, Q)
  <1>1. /\ q[1] \in Nat /\ q[2] \in Nat /\ q[2] >= 1 /\ Invertible(q[1], q[2])
        /\ Q = q[1] * q[2] /\ 1 \in Limbs /\ 2 \in Limbs
    BY Moduli DEF Limbs
  <1>2. PICK k \in Int : x = y + k * q[1]
    BY <1>1 DEF Cong
  <1>3. PICK l \in Int : x = y + l * q[2]
    BY <1>1 DEF Cong
  <1> DEFINE a == q[1]
             b == q[2]
  <1>4. a \in Nat /\ b \in Nat /\ Q = a * b /\ x = y + k * a /\ x = y + l * b
    BY <1>1, <1>2, <1>3
  <1>5. b >= 1 /\ Invertible(a, b)
    BY <1>1
  <1> HIDE DEF a, b
  <1>6. Cong(k * a, 0 * a, b)
    <2>1. k * a = 0 * a + l * b
      BY <1>4
    <2> QED BY <2>1, Zenon DEF Cong
  <1>7. Cong(k, 0, b)
    <2>1. 0 \in Int
      OBVIOUS
    <2> QED BY <1>4, <1>5, <1>6, <2>1, CongCancel
  <1>8. PICK m \in Int : k = 0 + m * b
    BY <1>7 DEF Cong
  <1>9. x = y + m * Q
    <2>1. k * a = (m * b) * a /\ (m * b) * a = m * (a * b)
      BY <1>4, <1>8
    <2> QED BY <1>4, <2>1
  <1> QED BY <1>9, Zenon DEF Cong

(* Modulo Q, and so modulo its factors.                                    *)
LEMMA ModuloFactor ==
  ASSUME NEW x \in Int, NEW y \in Int, Cong(x, y, Q), NEW j \in Limbs
  PROVE  Cong(x, y, q[j])
  <1>1. PICK k \in Int : x = y + k * Q
    BY DEF Cong
  <1>2. PICK f \in Nat : Q = f * q[j]
    BY Moduli
  <1>3. q[j] \in Nat
    BY Moduli
  <1>4. x = y + (k * f) * q[j] /\ k * f \in Int
    BY <1>1, <1>2, <1>3
  <1> QED BY <1>4, Zenon DEF Cong

(* Compose finds the number from its residues.                             *)
LEMMA ComposeIs ==
  ASSUME NEW Z \in Int, NEW x, \A j \in Limbs : x[j] = Z % q[j]
  PROVE  Compose(x) = Z % Q
  <1> DEFINE z == Z % Q
  <1>1. /\ Q \in Nat /\ Q >= 1
        /\ \A j \in Limbs : q[j] \in Nat /\ q[j] >= 1
    BY Moduli
  <1>2. z \in 0..(Q - 1) /\ Cong(z, Z, Q) /\ z \in Int
    <2>1. z \in 0..(Q - 1) /\ Cong(z, Z, Q)
      BY <1>1, CongMod
    <2> QED BY <1>1, <2>1
  <1> HIDE DEF z
  <1>3. \A j \in Limbs : z % q[j] = x[j]
    <2> SUFFICES ASSUME NEW j \in Limbs PROVE z % q[j] = Z % q[j]
      OBVIOUS
    <2> QED BY <1>1, <1>2, ModuloFactor, CongRest
  <1>4. ASSUME NEW y \in 0..(Q - 1), \A j \in Limbs : y % q[j] = x[j] PROVE y = z
    <2>1. y \in Int
      OBVIOUS
    <2>2. ASSUME NEW j \in Limbs PROVE Cong(y, z, q[j])
      <3>1. y % q[j] = z % q[j] /\ y % q[j] \in 0..(q[j] - 1)
        BY <1>1, <1>3, <1>4, <2>1, CongMod
      <3>2. y % q[j] \in Int /\ q[j] \in Nat /\ q[j] >= 1
        BY <1>1, <3>1
      <3>3. Cong(y, y % q[j], q[j])
        BY <2>1, <3>2, CongMod
      <3>4. Cong(y % q[j], z, q[j])
        BY <1>2, <3>1, <3>2, CongMod
      <3> QED BY <1>2, <2>1, <3>2, <3>3, <3>4, CongChain
    <2>3. Cong(y, z, Q)
      BY <1>2, <2>1, <2>2, SameModQ
    <2> QED BY <1>1, <1>2, <2>3, CongSame
  <1>5. \A y \in 0..(Q - 1) : (\A j \in Limbs : y % q[j] = x[j]) => y = z
    BY <1>4
  <1>6. Compose(x) = z
    BY <1>2, <1>3, <1>5, Zenon DEF Compose
  <1> QED BY <1>6 DEF z

(* The factor qk taken out.                                                *)
LEMMA DivideByQkIs ==
  ASSUME NEW j \in Limbs, NEW S \in Int, NEW x \in 0..(q[j] - 1),
         Cong(x, S * qk, q[j])
  PROVE  DivideByQk(x, j) = S % q[j]
  <1> DEFINE p == q[j]
             z == S % p
  <1>1. p \in Nat /\ p >= 1 /\ qk \in Nat /\ Invertible(qk, p) /\ x \in 0..(p - 1)
        /\ Cong(x, S * qk, p)
    BY Moduli
  <1> HIDE DEF p
  <1>2. x \in Int /\ S * qk \in Int /\ Cong(qk, qk, p) /\ qk \in Int
    BY <1>1, CongSelf
  <1>3. z \in 0..(p - 1) /\ Cong(z, S, p) /\ Cong(S, z, p) /\ z \in Int
    <2>1. z \in 0..(p - 1) /\ Cong(z, S, p) /\ Cong(S, z, p)
      BY <1>1, CongMod
    <2> QED BY <1>1, <2>1
  <1> HIDE DEF z
  <1>4. (z * qk) % p = x
    <2>1. z * qk \in Int
      BY <1>1, <1>3
    <2>2. Cong(z * qk, S * qk, p)
      BY <1>1, <1>2, <1>3, CongTimes
    <2>3. Cong(S * qk, x, p)
      BY <1>1, <1>2, CongBack
    <2>4. Cong(z * qk, x, p)
      BY <1>1, <1>2, <2>1, <2>2, <2>3, CongChain
    <2>5. (z * qk) % p = x % p
      BY <1>1, <1>2, <2>1, <2>4, CongRest
    <2>6. x % p = x
      BY <1>1
    <2> QED BY <2>5, <2>6
  <1>5. ASSUME NEW y \in 0..(p - 1), (y * qk) % p = x PROVE y = z
    <2>1. y \in Int /\ y * qk \in Int
      BY <1>1
    <2>2. Cong(y * qk, x, p)
      BY <1>1, <1>5, <2>1, CongMod
    <2>3. Cong(y * qk, S * qk, p)
      BY <1>1, <1>2, <2>1, <2>2, CongChain
    <2>4. Cong(y, S, p)
      BY <1>1, <2>1, <2>3, CongCancel
    <2>5. Cong(y, z, p)
      BY <1>1, <1>3, <2>1, <2>4, CongChain
    <2> QED BY <1>1, <1>3, <2>5, CongSame
  <1>6. \A y \in 0..(p - 1) : (y * qk) % p = x => y = z
    BY <1>5
  <1>7. DivideByQk(x, j) = z
    BY <1>3, <1>4, <1>6, Zenon DEF DivideByQk, p
  <1> QED BY <1>7 DEF z, p

(* Back to t: t * Z / Q, rounded.                                          *)
LEMMA DownNear ==
  ASSUME NEW Z \in Int, NEW x, \A j \in Limbs : x[j] = Z % q[j]
  PROVE  \E D \in Int : /\ ModulusDownRNS(x) = D % t
                        /\ (Q + 1) \div 2 - Q < Q * D - t * Z
                        /\ Q * D - t * Z <= (Q + 1) \div 2
  <1> DEFINE h == (Q + 1) \div 2
             y == Z % Q
             w == Z \div Q
  <1>1. Q \in Nat /\ Q >= 1 /\ t \in Nat /\ t >= 1 /\ h \in Nat
    BY Moduli
  <1>2. ModulusDownRNS(x) = ((y * t + h) \div Q) % t
    BY ComposeIs DEF ModulusDownRNS
  <1>3. y \in Nat /\ w \in Int /\ Z = y + w * Q
    BY <1>1
  <1> HIDE DEF h, y, w
  <1>4. y * t + h \in Nat
    BY <1>1, <1>3
  <1>5. PICK d \in Nat, r \in 0..(Q - 1) :
          (y * t + h) \div Q = d /\ y * t + h = d * Q + r
    <2> DEFINE u == y * t + h
    <2>1. u \in Nat
      BY <1>4
    <2> HIDE DEF u
    <2>2. u \div Q \in Nat /\ u % Q \in 0..(Q - 1) /\ u = (u \div Q) * Q + (u % Q)
      BY ONLY <1>1, <2>1, DivMod, Zenon
    <2> QED BY <2>2 DEF u
  <1> DEFINE D == d + w * t
  <1>6. D \in Int /\ d \in Int
    BY <1>1, <1>3
  <1>7. D % t = d % t
    <2>1. Cong(D, d, t)
      BY <1>3, Zenon DEF Cong
    <2> QED BY <1>1, <1>6, <2>1, CongRest
  <1>8. Q * D - t * Z = h - r
    <2>1. Q * D = d * Q + t * (w * Q) /\ t * Z = y * t + t * (w * Q)
      BY <1>1, <1>3
    <2> DEFINE A == t * (w * Q)
               B == d * Q
               C == y * t
               X == Q * D
               Y == t * Z
    <2>2. X = B + A /\ Y = C + A /\ C + h = B + r
          /\ A \in Int /\ B \in Int /\ C \in Int /\ r \in Int
      BY <1>1, <1>3, <1>5, <2>1
    <2> HIDE DEF A, B, C, X, Y
    <2>3. X - Y = h - r
      BY ONLY <1>1, <2>2, SMT
    <2> QED BY <2>3 DEF X, Y
  <1>9. h - Q < Q * D - t * Z /\ Q * D - t * Z <= h
    <2>1. h - Q < h - r /\ h - r <= h
      <3> HIDE DEF D
      <3> QED BY ONLY <1>1, r \in 0..(Q - 1), SMT
    <2> QED BY <1>8, <2>1, Zenon
  <1>10. ModulusDownRNS(x) = D % t
    BY <1>2, <1>5, <1>7
  <1> QED BY <1>6, <1>9, <1>10 DEF h

-----------------------------------------------------------------------------
(* The places of the rows *)

(* A divisor of a power of two is one.                                     *)
LEMMA PowerDivisor ==
  ASSUME NEW k \in Nat, NEW n \in Nat, NEW m \in Nat, n * m = 2^k
  PROVE  \E i \in Nat : n = 2^i
  <1> DEFINE Bad(j) == \E x, y \in Nat : x * y = 2^j /\ ~\E i \in Nat : x = 2^i
             T == {j \in Nat : Bad(j)}
  <1> SUFFICES T = {}
    OBVIOUS
  <1> SUFFICES ASSUME T # {} PROVE FALSE
    OBVIOUS
  <1>1. PICK j \in T : \A i \in T : j <= i
    <2>1. T \in SUBSET Nat
      OBVIOUS
    <2> HIDE DEF T
    <2> QED BY <2>1, LeastNatural
  <1>2. j \in Nat /\ Bad(j)
    BY <1>1
  <1>3. PICK x \in Nat, y \in Nat : x * y = 2^j /\ ~\E i \in Nat : x = 2^i
    BY <1>2
  <1>4. CASE j = 0
    <2>1. x * y = 1
      BY <1>3, <1>4, PowerZero
    <2>2. x = 1
      <3>1. CASE x = 0
        BY <2>1, <3>1
      <3>2. CASE x >= 2 /\ y >= 1
        <4>1. x * y >= 2 * y
          BY <3>2
        <4> QED BY <2>1, <3>2, <4>1
      <3>3. CASE y = 0
        BY <2>1, <3>3
      <3> QED BY <3>1, <3>2, <3>3
    <2>3. x = 2^0 /\ 0 \in Nat
      BY <2>2, PowerZero
    <2> QED BY <1>3, <2>3
  <1>5. CASE j >= 1
    <2>1. j - 1 \in Nat /\ ~Bad(j - 1)
      <3> HIDE DEF Bad
      <3> QED BY <1>1, <1>2, <1>5
    <2>2. 2^j = 2 * 2^(j - 1) /\ 2^(j - 1) \in Nat
      BY <1>2, <1>5, <2>1, PowerBefore, NatPower
    <2>3. PICK z \in Nat : z = 2^(j - 1)
      BY <2>2
    <2>4. \A u, v \in Nat : u * v = z => \E i \in Nat : u = 2^i
      BY <2>1, <2>3
    <2>5. x * y = 2 * z
      BY <1>3, <2>2, <2>3
    <2>6. (\E u \in Nat : x = 2 * u) \/ (\E v \in Nat : y = 2 * v)
      <3>1. \A w \in Nat : (\E u \in Nat : w = 2 * u) \/ (\E u \in Nat : w = 2 * u + 1)
        <4> SUFFICES ASSUME NEW w \in Nat
                     PROVE  (\E u \in Nat : w = 2 * u) \/ (\E u \in Nat : w = 2 * u + 1)
          OBVIOUS
        <4>1. w \div 2 \in Nat /\ (w = 2 * (w \div 2) \/ w = 2 * (w \div 2) + 1)
          OBVIOUS
        <4> QED BY <4>1, Zenon
      <3> SUFFICES ASSUME NEW u \in Nat, x = 2 * u + 1, NEW v \in Nat, y = 2 * v + 1
                   PROVE  FALSE
        BY <3>1
      <3>2. x * y = 2 * (2 * (u * v) + u + v) + 1
        OBVIOUS
      <3>3. 2 * (u * v) + u + v \in Nat
        OBVIOUS
      <3> DEFINE w == 2 * (u * v) + u + v
      <3>4. w \in Nat /\ 2 * z = 2 * w + 1
        BY <2>5, <3>2, <3>3
      <3> HIDE DEF w
      <3> QED BY <2>3, <3>4
    <2>7. CASE \E u \in Nat : x = 2 * u
      <3>1. PICK u \in Nat : x = 2 * u
        BY <2>7
      <3>2. u * y = z
        <4>1. x * y = 2 * (u * y) /\ u * y \in Nat
          BY <3>1
        <4> DEFINE w == u * y
        <4>2. w \in Nat /\ 2 * z = 2 * w
          BY <2>5, <4>1
        <4> HIDE DEF w
        <4>3. w = z
          BY <2>3, <4>2
        <4> QED BY <4>3 DEF w
      <3>3. PICK i \in Nat : u = 2^i
        BY <2>4, <3>2
      <3>4. x = 2^(i + 1) /\ i + 1 \in Nat
        BY <3>1, <3>3, NextPower
      <3> QED BY <1>3, <3>4
    <2>8. CASE \E v \in Nat : y = 2 * v
      <3>1. PICK v \in Nat : y = 2 * v
        BY <2>8
      <3>2. x * v = z
        <4>1. x * y = 2 * (x * v) /\ x * v \in Nat
          BY <3>1
        <4> DEFINE w == x * v
        <4>2. w \in Nat /\ 2 * z = 2 * w
          BY <2>5, <4>1
        <4> HIDE DEF w
        <4>3. w = z
          BY <2>3, <4>2
        <4> QED BY <4>3 DEF w
      <3>3. PICK i \in Nat : x = 2^i
        BY <2>4, <3>2
      <3> QED BY <1>3, <3>3
    <2> QED BY <2>6, <2>7, <2>8
  <1> QED BY <1>2, <1>4, <1>5

(* There are as many masks as rows, rounded up to a power of two, and the  *)
(* distance between rows is what remains of N.                             *)
LEMMA Strides ==
  ASSUME NEW n \in 1..N
  PROVE  /\ N \in Nat /\ mask_size(n) = NextPow2(n) /\ NextPow2(n) \in Nat
         /\ n <= NextPow2(n) /\ Stride(n) \in Nat /\ Stride(n) >= 1
         /\ N = Stride(n) * NextPow2(n) /\ N \div mask_size(n) = Stride(n)
  <1>1. PICK K \in 2..12 : N = 2^K
    BY DegreeAssumption
  <1>2. K \in Nat /\ N \in Nat /\ N >= 1
    BY <1>1, NatPower
  <1>3. n \in Nat /\ n >= 1 /\ n <= N
    BY <1>2
  <1>4. PICK a \in Nat : NextPow2(n) = 2^a /\ n <= 2^a /\ 2^a < 2 * n
    BY <1>3, NextPow2Of
  <1>5. 2^a \in Nat /\ 2^a >= 1 /\ 2^(K + 1) = 2 * 2^K
    BY <1>2, NatPower, NextPower
  <1>6. a <= K
    <2>1. 2^a < 2^(K + 1)
      BY <1>1, <1>2, <1>3, <1>4, <1>5
    <2> QED BY <1>2, <2>1, PowersOrdered
  <1>7. 2^K = 2^(K - a) * 2^a /\ 2^K \div 2^a = 2^(K - a)
        /\ K - a \in Nat
    BY <1>2, <1>6, PowersDivide
  <1>8. Stride(n) = 2^(K - a) /\ Stride(n) \in Nat /\ Stride(n) >= 1
    BY <1>1, <1>4, <1>7, NatPower DEF Stride
  <1>9. mask_size(n) = NextPow2(n)
    <2>1. CASE N % n = 0
      <3>1. n * (N \div n) = 2^K /\ N \div n \in Nat
        <4>1. N \div n \in Nat /\ N = (N \div n) * n + (N % n)
          BY ONLY <1>2, <1>3, DivMod, Zenon
        <4> DEFINE w == N \div n
        <4>2. w \in Nat /\ N = w * n + 0
          BY <2>1, <4>1
        <4> HIDE DEF w
        <4>3. n * w = N
          BY <1>2, <1>3, <4>2
        <4> QED BY <1>1, <4>2, <4>3 DEF w
      <3>2. PICK i \in Nat : n = 2^i
        BY <1>2, <1>3, <3>1, PowerDivisor
      <3>3. NextPow2(n) = n
        BY <3>2, NextPow2OfPower
      <3> QED BY <2>1, <3>3 DEF mask_size
    <2>2. CASE N % n # 0
      BY <2>2 DEF mask_size
    <2> QED BY <2>1, <2>2
  <1> QED BY <1>1, <1>2, <1>3, <1>4, <1>5, <1>7, <1>8, <1>9

(* Row r is at coefficient (r - 1) * Stride.                               *)
LEMMA RowPlace ==
  ASSUME NEW n \in 1..N, NEW r \in 1..n
  PROVE  LET i == (r - 1) * Stride(n)
         IN i \in Coeffs /\ i % Stride(n) = 0 /\ i \div Stride(n) = r - 1
  <1> DEFINE s == Stride(n)
             P == NextPow2(n)
             i == (r - 1) * s
             w == r - 1
  <1>1. /\ N \in Nat /\ P \in Nat /\ s \in Nat /\ s >= 1 /\ N = s * P /\ n <= P
        /\ n \in Nat
    BY Strides
  <1> HIDE DEF s, P
  <1>2. w \in Nat /\ w + 1 <= P
    BY <1>1
  <1>3. (w * s + 0) \div s = w /\ (w * s + 0) % s = 0
    <2>1. 0 \in 0..(s - 1)
      BY <1>1
    <2> HIDE DEF w
    <2> QED BY ONLY <1>1, <1>2, <2>1, DivModIs, Zenon
  <1>4. w * s + 0 = i /\ i \in Nat
    BY <1>1, <1>2
  <1>5. i + s <= N
    <2>1. (w + 1) * s <= P * s
      <3> HIDE DEF w
      <3> QED BY <1>1, <1>2
    <2>2. (w + 1) * s = i + s /\ P * s = N
      BY <1>1, <1>2
    <2> QED BY <2>1, <2>2
  <1>6. i \in 0..(N - 1)
    <2> HIDE DEF i
    <2> QED BY <1>1, <1>4, <1>5
  <1>7. i \div s = r - 1 /\ i % s = 0
    BY <1>3, <1>4
  <1> QED BY <1>6, <1>7 DEF Coeffs, s

-----------------------------------------------------------------------------
(* One row *)

ncols == Len(case.vec)

(* What is known of the inputs of a run.                                   *)
LEMMA Inputs ==
  ASSUME case \in Cases
  PROVE  /\ N \in Nat /\ ncols \in 1..N /\ nrows \in 1..N /\ ncols \in Nat
         /\ DOMAIN case.vec = 1..ncols /\ Len(case.v1) = ncols /\ Len(v0) = ncols
         /\ \A c \in 1..ncols : /\ case.vec[c] \in 0..(t - 1)
                                /\ case.v1[c] \in 0..(t - 1)
                                /\ v0[c] = (case.vec[c] - case.v1[c]) % t
                                /\ v0[c] \in 0..(t - 1)
         /\ \A r \in 1..nrows : /\ DOMAIN case.mat[r] = 1..ncols
                                /\ Len(case.mat[r]) = ncols
                                /\ \A c \in 1..ncols : case.mat[r][c] \in 0..(t - 1)
         /\ case.noise \in Int /\ case.rand \in Nat
  <1>1. InputCase(case)
    BY CasesAssumption
  <1>2. /\ case.mat \in Seq(Seq(0..(t - 1))) /\ nrows \in 1..N
        /\ case.vec \in Seq(0..(t - 1)) /\ ncols \in 1..N
        /\ case.v1 \in Seq(0..(t - 1)) /\ Len(case.v1) = ncols
        /\ \A r \in DOMAIN case.mat : Len(case.mat[r]) = ncols
        /\ case.noise \in Int /\ case.rand \in 0..(Q - 1)
    BY <1>1 DEF InputCase, nrows, ncols
  <1>3. t \in Nat /\ t >= 1 /\ Q \in Nat
    BY Moduli
  <1>4. N \in Nat /\ ncols \in Nat
    <2>1. PICK k \in 2..12 : N = 2^k
      BY DegreeAssumption
    <2>2. N \in Nat
      BY <2>1, NatPower
    <2> QED BY <1>2, <2>2
  <1>5. DOMAIN case.vec = 1..ncols /\ DOMAIN case.mat = 1..nrows
    BY <1>2, LenProperties DEF ncols, nrows
  <1>6. \A c \in 1..ncols : case.vec[c] \in 0..(t - 1) /\ case.v1[c] \in 0..(t - 1)
    BY <1>2, ElementOfSeq DEF ncols
  <1>7. v0 = [c \in 1..ncols |-> (case.vec[c] - case.v1[c]) % t]
    BY <1>5 DEF v0
  <1>8. Len(v0) = ncols
    <2> DEFINE S == {v0[c] : c \in 1..ncols}
    <2>1. v0 \in [1..ncols -> S]
      BY <1>7
    <2> HIDE DEF S
    <2>2. v0 \in Seq(S) /\ DOMAIN v0 = 1..ncols
      BY <1>4, <2>1
    <2>3. DOMAIN v0 = 1..Len(v0) /\ Len(v0) \in Nat
      BY <2>2, LenProperties
    <2> QED BY <1>4, <2>2, <2>3
  <1>9. \A c \in 1..ncols : v0[c] = (case.vec[c] - case.v1[c]) % t
                            /\ v0[c] \in 0..(t - 1)
    <2> SUFFICES ASSUME NEW c \in 1..ncols
                 PROVE  v0[c] = (case.vec[c] - case.v1[c]) % t /\ v0[c] \in 0..(t - 1)
      OBVIOUS
    <2>1. v0[c] = (case.vec[c] - case.v1[c]) % t
      BY <1>7
    <2>2. case.vec[c] \in Int /\ case.v1[c] \in Int
      BY <1>6
    <2>3. case.vec[c] - case.v1[c] \in Int
      BY <2>2
    <2>4. (case.vec[c] - case.v1[c]) % t \in 0..(t - 1)
      BY <1>3, <2>3, CongMod
    <2> QED BY <2>1, <2>4
  <1>10. ASSUME NEW r \in 1..nrows
         PROVE  /\ DOMAIN case.mat[r] = 1..ncols /\ Len(case.mat[r]) = ncols
                /\ \A c \in 1..ncols : case.mat[r][c] \in 0..(t - 1)
    <2>1. case.mat[r] \in Seq(0..(t - 1)) /\ Len(case.mat[r]) = ncols
      BY <1>2, <1>5, ElementOfSeq DEF nrows
    <2>2. DOMAIN case.mat[r] = 1..ncols
      BY <2>1, LenProperties
    <2>3. \A c \in 1..ncols : case.mat[r][c] \in 0..(t - 1)
      BY <2>1, ElementOfSeq
    <2> QED BY <2>1, <2>2, <2>3
  <1>11. case.rand \in Nat
    BY <1>2, <1>3
  <1> QED BY <1>2, <1>4, <1>5, <1>6, <1>8, <1>9, <1>10, <1>11

(* An element of a share, in its polynomial.                               *)
LEMMA PolyAt ==
  ASSUME NEW vec, NEW n \in 1..N, N \in Nat, Len(vec) = n, NEW c \in 1..n,
         vec[c] \in 0..(t - 1), NEW j \in Limbs
  PROVE  /\ c - 1 \in Coeffs /\ Vec2Poly(vec)[c - 1][j] \in Int
         /\ Cong(Vec2Poly(vec)[c - 1][j], Lift(vec[c]) * qk, q[j])
  <1> DEFINE x == vec[c]
             p == q[j]
             u == ModulusUpAt(x, j)
             L == Lift(x)
  <1>1. c - 1 \in Coeffs /\ c - 1 < Len(vec) /\ (c - 1) + 1 = c
    BY DEF Coeffs
  <1>2. Vec2Poly(vec)[c - 1][j] = (u * qk) % p
    BY <1>1 DEF Vec2Poly
  <1>3. t \in Nat /\ p \in Nat /\ p >= 1 /\ qk \in Int
    BY Moduli
  <1>4. x \in Nat
    BY <1>3
  <1>5. L \in Nat /\ u \in 0..(p - 1) /\ Cong(u, L, p)
    BY <1>4, LiftResidue
  <1> HIDE DEF x, p, u, L
  <1>6. u \in Int /\ L \in Int /\ Cong(qk, qk, p)
    BY <1>3, <1>5, CongSelf
  <1>7. Cong(u * qk, L * qk, p)
    BY <1>3, <1>5, <1>6, CongTimes
  <1>8. u * qk \in Int /\ L * qk \in Int
    BY <1>3, <1>6
  <1>9. (u * qk) % p \in 0..(p - 1) /\ Cong((u * qk) % p, u * qk, p)
    BY <1>3, <1>8, CongMod
  <1>10. (u * qk) % p \in Int
    BY <1>3, <1>9
  <1>11. Cong((u * qk) % p, L * qk, p)
    BY <1>3, <1>7, <1>8, <1>9, <1>10, CongChain
  <1> QED BY <1>1, <1>2, <1>10, <1>11 DEF x, p, L

(* The query with the server's share added to it.                          *)
Joined == add_plain_inplace(Vec2Poly(v0), Vec2Poly(case.v1))

(* One element of it, and its product with an entry of the matrix.         *)
Lifted(c)  == Lift(v0[c]) + Lift(case.v1[c])
Term(r, c) == Centre(case.mat[r][c]) * Lifted(c)

(* Joined holds the lifted elements times qk.                              *)
LEMMA JoinedAt ==
  ASSUME case \in Cases, NEW c \in 1..ncols, NEW j \in Limbs
  PROVE  /\ Lifted(c) \in Int /\ Joined[c - 1][j] \in Int
         /\ Cong(Joined[c - 1][j], Lifted(c) * qk, q[j])
  <1> DEFINE p == q[j]
             x == Vec2Poly(v0)[c - 1][j]
             y == Vec2Poly(case.v1)[c - 1][j]
             K == Lift(v0[c])
             L == Lift(case.v1[c])
  <1>1. /\ p \in Nat /\ p >= 1 /\ qk \in Int /\ t \in Nat
    BY Moduli
  <1>2. /\ c - 1 \in Coeffs /\ x \in Int /\ Cong(x, K * qk, p)
        /\ y \in Int /\ Cong(y, L * qk, p)
    BY Inputs, PolyAt
  <1>3. K \in Int /\ L \in Int
    <2>1. v0[c] \in Nat /\ case.v1[c] \in Nat
      BY <1>1, Inputs
    <2>2. K \in Nat /\ L \in Nat
      BY <2>1, LiftResidue
    <2> HIDE DEF K, L
    <2> QED BY <2>2
  <1>4. Joined[c - 1][j] = (x + y) % p
    BY <1>2 DEF Joined, add_plain_inplace
  <1>5. Lifted(c) = K + L
    BY DEF Lifted
  <1> HIDE DEF p, x, y, K, L
  <1>6. K * qk \in Int /\ L * qk \in Int /\ (K + L) * qk = (K * qk) + (L * qk)
        /\ (K + L) * qk \in Int /\ x + y \in Int /\ K + L \in Int
    BY <1>1, <1>2, <1>3
  <1>7. Cong(x + y, (K + L) * qk, p)
    <2>1. Cong(x + y, (K * qk) + (L * qk), p)
      BY ONLY <1>1, <1>2, <1>6, CongAdd
    <2> QED BY <1>6, <2>1
  <1>8. (x + y) % p \in 0..(p - 1) /\ Cong((x + y) % p, x + y, p)
    BY <1>1, <1>6, CongMod
  <1>9. (x + y) % p \in Int
    BY <1>1, <1>8
  <1>10. Cong((x + y) % p, (K + L) * qk, p)
    BY <1>1, <1>6, <1>7, <1>8, <1>9, CongChain
  <1> QED BY <1>4, <1>5, <1>6, <1>9, <1>10 DEF p

(* What the card leaves at a row: the sum of the products.                 *)
RowSum(r) == Sum([c \in 1..ncols |-> Term(r, c)], ncols)

(* The card divides by qk and adds its noise.                              *)
LEMMA CoreAt ==
  ASSUME case \in Cases, NEW r \in 1..nrows, NEW j \in Limbs
  PROVE  /\ RowSum(r) \in Int
         /\ MatVecCore(case.mat, Joined, case.noise)[(r - 1) * Stride(nrows)][j]
              = ((RowSum(r) % q[j]) + case.noise) % q[j]
  <1> DEFINE i == (r - 1) * Stride(nrows)
             p == q[j]
             row == case.mat[r]
             a == [c \in 1..ncols |-> CenteralizeAt(row[c], j) * Joined[c - 1][j]]
             b == [c \in 1..ncols |-> Term(r, c)]
             w == SumMod(a, ncols, p)
  <1>1. i \in Coeffs /\ i % Stride(nrows) = 0 /\ i \div Stride(nrows) = r - 1
    BY Inputs, RowPlace
  <1>2. (r - 1) + 1 = r /\ r - 1 < nrows /\ nrows \in Nat
    BY Inputs
  <1>3. DOMAIN row = 1..ncols /\ Len(row) = ncols /\ ncols \in Nat
    BY Inputs
  <1>4. MatVecCore(case.mat, Joined, case.noise)[i][j]
          = (DivideByQk(w, j) + case.noise) % p
    <2> HIDE DEF i
    <2> QED BY <1>1, <1>2, <1>3 DEF MatVecCore, nrows
  <1>5. p \in Nat /\ p >= 1 /\ qk \in Int
    BY Moduli
  <1>6. \A c \in 1..ncols : /\ Term(r, c) \in Int
                            /\ CenteralizeAt(row[c], j) * Joined[c - 1][j] \in Int
                            /\ Cong(CenteralizeAt(row[c], j) * Joined[c - 1][j],
                                    Term(r, c) * qk, p)
    <2> SUFFICES ASSUME NEW c \in 1..ncols
                 PROVE  /\ Term(r, c) \in Int
                        /\ CenteralizeAt(row[c], j) * Joined[c - 1][j] \in Int
                        /\ Cong(CenteralizeAt(row[c], j) * Joined[c - 1][j],
                                Term(r, c) * qk, p)
      OBVIOUS
    <2> DEFINE x == CenteralizeAt(row[c], j)
               e == Centre(row[c])
               y == Joined[c - 1][j]
               f == Lifted(c)
    <2>1. x \in Int /\ e \in Int /\ Cong(x, e, p)
      <3>1. row[c] \in 0..(t - 1)
        BY Inputs
      <3> QED BY <3>1, CentreIs
    <2>2. f \in Int /\ y \in Int /\ Cong(y, f * qk, p)
      BY JoinedAt
    <2>3. Term(r, c) = e * f
      BY DEF Term
    <2> HIDE DEF x, e, y, f, p
    <2>4. f * qk \in Int /\ e * f \in Int /\ x * y \in Int
          /\ e * (f * qk) = (e * f) * qk
      BY <1>5, <2>1, <2>2
    <2>5. Cong(x * y, e * (f * qk), p)
      BY ONLY <1>5, <2>1, <2>2, <2>4, CongTimes
    <2> QED BY <2>3, <2>4, <2>5 DEF x, y
  <1>7. a \in [1..ncols -> Int] /\ b \in [1..ncols -> Int]
        /\ \A c \in 1..ncols : Cong(a[c], b[c] * qk, p)
    BY <1>6
  <1> HIDE DEF a, b, p
  <1>8. w \in 0..(p - 1) /\ Cong(w, Sum(b, ncols) * qk, p) /\ Sum(b, ncols) \in Int
    BY <1>3, <1>5, <1>7, SumModCong, SumInt
  <1>9. DivideByQk(w, j) = Sum(b, ncols) % q[j]
    BY <1>8, DivideByQkIs DEF p
  <1> QED BY <1>4, <1>8, <1>9 DEF RowSum, b, p

(* ... and it is near Q / t times the product of the row and the vector.   *)
LEMMA RowSumNear ==
  ASSUME case \in Cases, NEW r \in 1..nrows
  PROVE  /\ RowProduct(r) \in Int /\ RowSize(r) \in Int
         /\ \E k \in Int : Near(t * RowSum(r), Q * (RowProduct(r) + t * k),
                                t * RowSize(r))
  <1> DEFINE a == [c \in 1..ncols |-> Term(r, c)]
             b == [c \in 1..ncols |-> case.mat[r][c] * case.vec[c]]
             s == [c \in 1..ncols |-> Mag(case.mat[r][c])]
  <1>1. t \in Nat /\ Q \in Nat /\ ncols \in Nat
    BY Moduli, Inputs
  <1>2. \A c \in 1..ncols :
          /\ Term(r, c) \in Int /\ case.mat[r][c] * case.vec[c] \in Int
          /\ Mag(case.mat[r][c]) \in Int
          /\ \E k \in Int : Near(t * Term(r, c),
                                 Q * (case.mat[r][c] * case.vec[c] + t * k),
                                 t * Mag(case.mat[r][c]))
    <2> SUFFICES ASSUME NEW c \in 1..ncols
                 PROVE  /\ Term(r, c) \in Int /\ case.mat[r][c] * case.vec[c] \in Int
                        /\ Mag(case.mat[r][c]) \in Int
                        /\ \E k \in Int :
                             Near(t * Term(r, c),
                                  Q * (case.mat[r][c] * case.vec[c] + t * k),
                                  t * Mag(case.mat[r][c]))
      OBVIOUS
    <2>1. /\ case.mat[r][c] \in 0..(t - 1) /\ case.vec[c] \in 0..(t - 1)
          /\ case.v1[c] \in 0..(t - 1) /\ v0[c] = (case.vec[c] - case.v1[c]) % t
      BY Inputs
    <2>2. \E k \in Int : Near(t * Term(r, c),
                              Q * (case.mat[r][c] * case.vec[c] + t * k),
                              t * Mag(case.mat[r][c]))
      BY <2>1, ColumnNear DEF Term, Lifted
    <2>3. Centre(case.mat[r][c]) \in Int /\ Mag(case.mat[r][c]) \in Nat
      BY <2>1, CentreIs
    <2>4. Lifted(c) \in Int
      <3>1. 1 \in Limbs
        BY DEF Limbs
      <3> QED BY <3>1, JoinedAt
    <2>5. Term(r, c) \in Int
      BY <2>3, <2>4 DEF Term
    <2>6. case.mat[r][c] * case.vec[c] \in Int
      BY <1>1, <2>1
    <2>7. Mag(case.mat[r][c]) \in Int
      BY <2>3
    <2> QED BY <2>2, <2>5, <2>6, <2>7
  <1>3. a \in [1..ncols -> Int] /\ b \in [1..ncols -> Int] /\ s \in [1..ncols -> Int]
        /\ \A c \in 1..ncols : \E k \in Int :
             Near(t * a[c], Q * (b[c] + t * k), t * s[c])
    BY <1>2
  <1>4. /\ RowSum(r) = Sum(a, ncols) /\ RowProduct(r) = Sum(b, ncols)
        /\ RowSize(r) = Sum(s, ncols)
    BY Inputs DEF RowSum, RowProduct, RowSize, ncols
  <1> HIDE DEF a, b, s
  <1>5. Sum(b, ncols) \in Int /\ Sum(s, ncols) \in Int
    BY <1>1, <1>3, SumInt
  <1>6. \E k \in Int : Near(t * Sum(a, ncols), Q * (Sum(b, ncols) + t * k),
                            t * Sum(s, ncols))
    BY <1>1, <1>3, SumNear
  <1> QED BY <1>4, <1>5, <1>6

(* What the messages of the demo hold.                                     *)
Value(name) ==
  CASE name = "query"    -> Vec2Poly(v0)
    [] name = "response" -> MatVecMasked(case.mat, case.v1, Vec2Poly(v0),
                                         Random, case.noise)
    [] name = "share"    -> out_mask(nrows, Random)
    [] OTHER             -> <<>>

(* The masked response at a row.                                           *)
LEMMA MaskedAt ==
  ASSUME case \in Cases, NEW r \in 1..nrows, NEW j \in Limbs
  PROVE  /\ Random[r - 1] \in Int /\ RowSum(r) + case.noise + Random[r - 1] \in Int
         /\ Value("response")[(r - 1) * Stride(nrows)][j]
              = (RowSum(r) + case.noise + Random[r - 1]) % q[j]
  <1> DEFINE s == Stride(nrows)
             i == (r - 1) * s
             p == q[j]
             core == MatVecCore(case.mat, Joined, case.noise)
             mask == mask_poly(nrows, Random)
             x == RowSum(r)
             u == Random[r - 1]
             e == case.noise
  <1>1. i \in Coeffs /\ i % s = 0 /\ i \div s = r - 1
    BY Inputs, RowPlace
  <1>2. /\ N \in Nat /\ nrows \in 1..N /\ nrows \in Nat /\ e \in Int
        /\ case.rand \in Nat
    BY Inputs
  <1>3. N \div mask_size(nrows) = s /\ nrows <= mask_size(nrows)
        /\ mask_size(nrows) \in Nat
    BY <1>2, Strides
  <1>4. r - 1 < mask_size(nrows) /\ r - 1 \in Coeffs
    BY <1>2, <1>3 DEF Coeffs
  <1>5. p \in Nat /\ p >= 1 /\ Q \in Nat /\ Q >= 1
    BY Moduli
  <1>6. u \in Int
    <2>1. u = (case.rand + 37 * (r - 1)) % Q
      BY <1>4 DEF Random
    <2>2. case.rand + 37 * (r - 1) \in Int
      BY <1>2
    <2>3. (case.rand + 37 * (r - 1)) % Q \in 0..(Q - 1)
      BY <1>5, <2>2, CongMod
    <2> QED BY <1>5, <2>1, <2>3
  <1>7. core[i][j] = ((x % p) + e) % p /\ x \in Int
    BY CoreAt
  <1>8. mask[i][j] = u % p
    <2> HIDE DEF i, s
    <2> QED BY <1>1, <1>3, <1>4 DEF mask_poly
  <1>9. Value("response") = DropUnusedCoeffs(add_plain_inplace(core, mask), nrows)
    BY DEF Value, MatVecMasked, Joined, nrows
  <1>10. Value("response")[i][j] = (core[i][j] + mask[i][j]) % p
    <2> HIDE DEF i, s, core, mask
    <2>1. add_plain_inplace(core, mask)[i][j] = (core[i][j] + mask[i][j]) % p
      BY <1>1 DEF add_plain_inplace
    <2>2. Value("response")[i] = add_plain_inplace(core, mask)[i]
      BY <1>1, <1>9 DEF DropUnusedCoeffs, s
    <2> QED BY <2>1, <2>2
  <1> DEFINE y == x % p
             v == (y + e) % p
             w == u % p
  <1>11. Value("response")[i][j] = (v + w) % p
    BY <1>7, <1>8, <1>10
  <1> HIDE DEF p, x, u, e
  <1>12. y \in Int /\ Cong(y, x, p) /\ w \in Int /\ Cong(w, u, p) /\ Cong(e, e, p)
    <2>1. y \in 0..(p - 1) /\ Cong(y, x, p) /\ w \in 0..(p - 1) /\ Cong(w, u, p)
          /\ Cong(e, e, p)
      BY <1>2, <1>5, <1>6, <1>7, CongMod, CongSelf
    <2> QED BY <1>5, <2>1
  <1> HIDE DEF y, w
  <1>13. y + e \in Int /\ x + e \in Int /\ Cong(y + e, x + e, p)
    BY <1>2, <1>5, <1>7, <1>12, CongAdd
  <1>14. v \in Int /\ Cong(v, x + e, p)
    <2>1. v \in 0..(p - 1) /\ Cong(v, y + e, p)
      BY <1>5, <1>13, CongMod
    <2>2. v \in Int
      BY <1>5, <2>1
    <2> HIDE DEF v
    <2> QED BY <1>5, <1>13, <2>1, <2>2, CongChain
  <1> HIDE DEF v
  <1>15. v + w \in Int /\ x + e + u \in Int /\ Cong(v + w, (x + e) + u, p)
    <2>1. v + w \in Int /\ x + e + u \in Int
      BY <1>6, <1>12, <1>13, <1>14
    <2>2. Cong(v + w, (x + e) + u, p)
      BY ONLY <1>5, <1>6, <1>12, <1>13, <1>14, CongAdd
    <2> QED BY <2>1, <2>2
  <1>16. (v + w) % p = (x + e + u) % p
    BY <1>5, <1>15, CongRest
  <1> QED BY <1>6, <1>11, <1>15, <1>16 DEF p, x, u, e

(* The size of a number modulo t is at most that of any number it stands   *)
(* for.                                                                    *)
LEMMA MagLeast ==
  ASSUME NEW G \in Int, NEW E \in 0..(t - 1), Cong(E, G, t)
  PROVE  Mag(E) \in Int /\ (Mag(E) <= G \/ Mag(E) <= -G)
  <1>1. t \in Nat
    BY Moduli
  <1>2. PICK k \in Int : E = G + k * t
    BY DEF Cong
  <1>3. Mag(E) \in Int /\ Mag(E) <= E /\ Mag(E) <= t - E
    BY <1>1 DEF Mag, Least
  <1>4. CASE k >= 1
    <2>1. k * t >= t
      BY <1>1, <1>4
    <2>2. k * t \in Int
      BY <1>1
    <2> QED BY <1>1, <1>2, <1>3, <2>1, <2>2
  <1>5. CASE k <= 0
    <2>1. k * t <= 0 /\ k * t \in Int
      BY <1>1, <1>5
    <2> QED BY <1>1, <1>2, <1>3, <2>1
  <1> QED BY <1>4, <1>5

(* The two results of a row add up to its product, but for the errors of   *)
(* the lifts, the card and the two roundings.                              *)
LEMMA RowReconstructs ==
  ASSUME case \in Cases, NEW r \in 1..nrows
  PROVE  LET E == (DecryptRows(Value("response"), nrows)[r] + Value("share")[r]
                     - RowProduct(r)) % t
         IN (Mag(E) - 1) * Q
              < t * (RowSize(r) + Greatest(case.noise, -case.noise))
  <1> DEFINE A == DecryptRows(Value("response"), nrows)[r]
             B == Value("share")[r]
             P == RowProduct(r)
             S == RowSum(r)
             e == case.noise
             u == Random[r - 1]
             z == RowSize(r)
             h == (Q + 1) \div 2
             E == (A + B - P) % t
  <1>1. /\ t \in Nat /\ t >= 1 /\ Q \in Nat /\ Q >= 1 /\ h \in Int
    BY Moduli
  <1>2. S \in Int /\ P \in Int /\ z \in Int /\ e \in Int /\ u \in Int /\ 1 \in Limbs
    BY Inputs, CoreAt, RowSumNear, MaskedAt DEF Limbs
  <1>3. PICK k \in Int : Near(t * S, Q * (P + t * k), t * z)
    BY RowSumNear
  <1>4. PICK D \in Int : /\ A = D % t
                         /\ h - Q < Q * D - t * (S + e + u)
                         /\ Q * D - t * (S + e + u) <= h
    <2>1. A = ModulusDownRNS(Value("response")[(r - 1) * Stride(nrows)])
      BY DEF DecryptRows
    <2>2. S + e + u \in Int
      BY <1>2
    <2>3. \A j \in Limbs : Value("response")[(r - 1) * Stride(nrows)][j]
                             = (S + e + u) % q[j]
      BY MaskedAt
    <2> HIDE DEF S, e, u, A
    <2> QED BY <2>1, <2>2, <2>3, DownNear
  <1>5. PICK C \in Int : /\ B = (t - (C % t)) % t
                         /\ h - Q < Q * C - t * u /\ Q * C - t * u <= h
    <2> DEFINE x == [j \in Limbs |-> u % q[j]]
    <2>1. B = (t - ModulusDownRNS(x)) % t
      BY DEF Value, out_mask
    <2>2. \A j \in Limbs : x[j] = u % q[j]
      OBVIOUS
    <2> HIDE DEF u, x, B
    <2>3. \E C \in Int : /\ ModulusDownRNS(x) = C % t
                         /\ h - Q < Q * C - t * u /\ Q * C - t * u <= h
      <3>1. u \in Int
        BY <1>2
      <3> QED BY ONLY <2>2, <3>1, DownNear, Zenon
    <2> QED BY <2>1, <2>3
  <1> DEFINE G == D - C - P - t * k
  <1> HIDE DEF A, B, P, S, e, u, z, h
  <1>6. G \in Int /\ E \in 0..(t - 1) /\ Cong(E, G, t)
    <2>1. /\ A \in 0..(t - 1) /\ Cong(A, D, t)
          /\ C % t \in 0..(t - 1) /\ Cong(C % t, C, t)
      BY <1>1, <1>4, CongMod
    <2>2. A \in Int /\ C % t \in Int /\ t - (C % t) \in Int
      BY <1>1, <2>1
    <2>3. B \in 0..(t - 1) /\ Cong(B, t - (C % t), t)
      BY <1>1, <1>5, <2>2, CongMod
    <2>4. B \in Int
      BY <1>1, <2>3
    <2>5. A + B - P \in Int
      BY <1>2, <2>2, <2>4
    <2>6. E \in 0..(t - 1) /\ Cong(E, A + B - P, t)
      BY <1>1, <2>5, CongMod
    <2>7. Cong(A + B - P, G, t)
      <3>1. PICK m \in Int : A = D + m * t
        BY <2>1 DEF Cong
      <3>2. PICK n \in Int : C % t = C + n * t
        BY <2>1 DEF Cong
      <3>3. PICK l \in Int : B = (t - (C % t)) + l * t
        BY <2>3 DEF Cong
      <3>4. A + B - P = G + (m + 1 - n + l + k) * t
        <4>1. (m + 1 - n + l + k) * t = m * t + t - n * t + l * t + t * k
              /\ m * t \in Int /\ n * t \in Int /\ l * t \in Int /\ t * k \in Int
          BY <1>1
        <4> DEFINE c == C % t
                   mt == m * t
                   nt == n * t
                   lt == l * t
                   tk == t * k
        <4>2. /\ A = D + mt /\ c = C + nt /\ B = (t - c) + lt /\ c \in Int
              /\ mt \in Int /\ nt \in Int /\ lt \in Int /\ tk \in Int
          BY <2>2, <3>1, <3>2, <3>3, <4>1
        <4>3. (m + 1 - n + l + k) * t = mt + t - nt + lt + tk
              /\ G = D - C - P - tk
          BY <4>1
        <4> HIDE DEF c, mt, nt, lt, tk, G
        <4>4. A + B - P = (D - C - P - tk) + (mt + t - nt + lt + tk)
          BY ONLY <1>1, <1>2, <2>2, <2>4, <4>2, C \in Int, D \in Int, SMT
        <4> QED BY <4>3, <4>4
      <3>5. m + 1 - n + l + k \in Int
        OBVIOUS
      <3> HIDE DEF G
      <3> QED BY <3>4, <3>5, Zenon DEF Cong
    <2>8. G \in Int
      BY <1>1, <1>2
    <2>9. E \in Int
      BY <1>1, <2>6
    <2> HIDE DEF E, G
    <2> QED BY <1>1, <2>5, <2>6, <2>7, <2>8, <2>9, CongChain
  <1>7. PICK f \in Int : f = Greatest(e, -e) /\ -f <= e /\ e <= f
    BY <1>2 DEF Greatest
  <1>8. Q * G <= t * (z + f) + (Q - 1) /\ -(Q * G) <= t * (z + f) + (Q - 1)
    <2> DEFINE QD == Q * D
               QC == Q * C
               QP == Q * (P + t * k)
               tS == t * S
               te == t * e
               tu == t * u
               tz == t * z
               tf == t * f
    <2>1. /\ QD \in Int /\ QC \in Int /\ QP \in Int /\ tS \in Int /\ te \in Int
          /\ tu \in Int /\ tz \in Int /\ tf \in Int
      BY <1>1, <1>2
    <2>2. Q * G = QD - QC - QP /\ t * (z + f) = tz + tf
          /\ t * (S + e + u) = tS + te + tu
      BY <1>1, <1>2
    <2>3. -tf <= te /\ te <= tf
      <3>1. \A a, b, c \in Int : a >= 0 /\ b <= c => a * b <= a * c
        <4> SUFFICES ASSUME NEW a \in Int, NEW b \in Int, NEW c \in Int, a >= 0, b <= c
                     PROVE  a * b <= a * c
          OBVIOUS
        <4>1. a * (c - b) >= 0
          OBVIOUS
        <4>2. a * (c - b) = a * c - a * b
          OBVIOUS
        <4> QED BY <4>1, <4>2
      <3>2. t * e <= t * f /\ t * (-f) <= t * e
        <4>1. t \in Int /\ t >= 0 /\ -f \in Int
          BY <1>1
        <4> QED BY <1>2, <1>7, <3>1, <4>1
      <3>3. t * (-f) = -(t * f)
        BY <1>1
      <3> QED BY <3>2, <3>3
    <2>4. /\ -tz <= tS - QP /\ tS - QP <= tz
          /\ h - Q < QD - (tS + te + tu) /\ QD - (tS + te + tu) <= h
          /\ h - Q < QC - tu /\ QC - tu <= h
      <3>1. -tz <= tS - QP /\ tS - QP <= tz
        BY <1>3 DEF Near
      <3> HIDE DEF tS, te, tu, tz, tf, QP
      <3> QED BY <1>4, <1>5, <2>2, <3>1 DEF tu
    <2> HIDE DEF QD, QC, QP, tS, te, tu, tz, tf, G
    <2>5. /\ QD - QC - QP <= tz + tf + (Q - 1)
          /\ -(QD - QC - QP) <= tz + tf + (Q - 1)
      BY ONLY <1>1, <2>1, <2>3, <2>4, SMT
    <2> QED BY <2>2, <2>5
  <1>9. Mag(E) \in Int /\ (Mag(E) <= G \/ Mag(E) <= -G)
    BY <1>6, MagLeast
  <1> DEFINE M == Mag(E)
  <1> HIDE DEF E, G
  <1>10. M * Q <= t * (z + f) + (Q - 1)
    <2>1. \A a, b \in Int : a <= b => a * Q <= Q * b
      <3> SUFFICES ASSUME NEW a \in Int, NEW b \in Int, a <= b PROVE a * Q <= Q * b
        OBVIOUS
      <3>1. Q * (b - a) >= 0 /\ Q * (b - a) = Q * b - a * Q
        BY <1>1
      <3> QED BY <1>1, <3>1
    <2>2. Q * (-G) = -(Q * G) /\ -G \in Int
      BY <1>1, <1>6
    <2>3. M * Q <= Q * G \/ M * Q <= -(Q * G)
      BY <1>6, <1>9, <2>1, <2>2
    <2>4. M * Q \in Int /\ Q * G \in Int /\ t * (z + f) \in Int
      BY <1>1, <1>2, <1>6, <1>9
    <2> DEFINE X == M * Q
               Y == Q * G
               W == t * (z + f)
    <2>5. /\ X \in Int /\ Y \in Int /\ W \in Int /\ (X <= Y \/ X <= -Y)
          /\ Y <= W + (Q - 1) /\ -Y <= W + (Q - 1)
      BY <1>8, <2>3, <2>4
    <2> HIDE DEF X, Y, W
    <2>6. X <= W + (Q - 1)
      BY ONLY <1>1, <2>5, SMT
    <2> QED BY <2>6 DEF X, W
  <1>11. (M - 1) * Q < t * (z + f)
    <2>1. (M - 1) * Q = M * Q - Q /\ M * Q \in Int /\ t * (z + f) \in Int
      BY <1>1, <1>2, <1>9
    <2> DEFINE X == M * Q
               W == t * (z + f)
    <2>2. (M - 1) * Q = X - Q /\ X \in Int /\ W \in Int /\ X <= W + (Q - 1)
      BY <1>10, <2>1
    <2> HIDE DEF X, W
    <2>3. X - Q < W
      BY ONLY <1>1, <2>2, SMT
    <2> QED BY <2>2, <2>3 DEF W
  <1> QED BY <1>7, <1>11 DEF E, A, B, P, z, e

-----------------------------------------------------------------------------
(* What is in the messages *)

(* The messages in a stream hold what they should.                         *)
RightSeq(s) == \A i \in 1..Len(s) : s[i][2] = Value(s[i][1])

(* All that is buffered, on the way or received is right, and who is in    *)
(* its program has what it has asked for.                                  *)
Has(p, name) == \E m \in got[p] : m[1] = name

ContentRight ==
  /\ \A p \in Ends :
       /\ RightSeq(unsent[p]) /\ RightSeq(net[p]) /\ RightSeq(ahead[p])
       /\ \A m \in got[p] : m[2] = Value(m[1])
  /\ \A p \in Ends : Live(p) => \A i \in 1..Taken(p) : Has(p, Expected[p][i])

(* What is asked for by its name.                                          *)
LEMMA ReceivedIs ==
  ASSUME ContentRight, NEW p \in Ends, NEW name, Has(p, name)
  PROVE  Received(p, name) = Value(name)
  <1> DEFINE m == CHOOSE m \in got[p] : m[1] = name
  <1>1. m \in got[p] /\ m[1] = name
    BY DEF Has
  <1>2. Received(p, name) = m[2]
    BY DEF Received
  <1> HIDE DEF m
  <1> QED BY <1>1, <1>2 DEF ContentRight

(* The content of a message that is sent.                                  *)
LEMMA ContentIs ==
  ASSUME DInv, ContentRight, NEW p \in Ends, At(p, "send")
  PROVE  Content(Arg(p)) = Value(Arg(p))
  <1>1. CASE Arg(p) # "response"
    BY <1>1 DEF Content, Value
  <1>2. CASE Arg(p) = "response"
    <2>1. p = "server"
      <3> SUFFICES ASSUME p = "client" PROVE FALSE
        BY TheEnds
      <3>1. pc[p] \in {1, 4}
        BY ClientAt
      <3> QED BY <1>2, <3>1, ClientSteps DEF Arg
    <2>2. pc[p] = 7
      <3>1. pc[p] \in {3, 7, 9}
        BY <2>1, ServerAt
      <3> QED BY <1>2, <2>1, <3>1, ServerSteps DEF Arg
    <2>3. Live(p) /\ Taken(p) = 2
      BY <2>1, <2>2 DEF Live, Taken, Failed, Spins
    <2>4. Has("server", "query")
      BY <2>1, <2>3, Expectations DEF ContentRight
    <2>5. Received("server", "query") = Vec2Poly(v0)
      <3>1. Received("server", "query") = Value("query")
        BY <2>1, <2>4, ReceivedIs
      <3> QED BY <3>1 DEF Value
    <2> QED BY <1>2, <2>5 DEF Content, Value
  <1> QED BY <1>1, <1>2

(* The inputs do not change, nor does what is right.                       *)
LEMMA SameValue ==
  ASSUME case' = case
  PROVE  \A name : Value(name)' = Value(name)
  BY DEF Value, v0, nrows, Random

(* A stream that is empty, ...                                             *)
LEMMA RightNone == RightSeq(<<>>)
  BY NoElements DEF RightSeq

(* ... that has one message more, ...                                      *)
LEMMA RightAppend ==
  ASSUME NEW s, IsSeq(s), RightSeq(s), NEW e, e[2] = Value(e[1])
  PROVE  RightSeq(Append(s, e))
  <1> DEFINE S == {s[i] : i \in 1..Len(s)} \cup {e}
  <1>1. s \in Seq(S) /\ e \in S /\ Len(s) \in Nat
    BY DEF IsSeq
  <1> HIDE DEF S
  <1>2. /\ Len(Append(s, e)) = Len(s) + 1
        /\ \A i \in 1..Len(s) : Append(s, e)[i] = s[i]
        /\ Append(s, e)[Len(s) + 1] = e
    BY <1>1, AppendProperties
  <1> QED BY <1>1, <1>2 DEF RightSeq

(* ... that is two streams in a row, ...                                   *)
LEMMA RightConcat ==
  ASSUME NEW s, IsSeq(s), NEW u, IsSeq(u)
  PROVE  RightSeq(s \o u) <=> RightSeq(s) /\ RightSeq(u)
  <1>1. /\ Len(s \o u) = Len(s) + Len(u) /\ Len(s) \in Nat /\ Len(u) \in Nat
        /\ \A i \in 1..Len(s) : (s \o u)[i] = s[i]
        /\ \A i \in 1..Len(u) : (s \o u)[Len(s) + i] = u[i]
    BY SeqConcat DEF IsSeq
  <1> DEFINE w == s \o u
             m == Len(s)
             n == Len(u)
  <1>2. ASSUME RightSeq(s), RightSeq(u), NEW i \in 1..(m + n)
        PROVE  w[i][2] = Value(w[i][1])
    <2>1. CASE i <= m
      <3>1. i \in 1..m
        BY <1>1, <2>1
      <3>2. s[i][2] = Value(s[i][1])
        BY <1>2, <3>1 DEF RightSeq
      <3> QED BY <1>1, <3>1, <3>2
    <2>2. CASE i > m
      <3>1. i - m \in 1..n /\ i = m + (i - m)
        BY <1>1, <2>2
      <3>2. u[i - m][2] = Value(u[i - m][1])
        BY <1>2, <3>1 DEF RightSeq
      <3>3. w[m + (i - m)] = u[i - m]
        BY <1>1, <3>1
      <3> HIDE DEF w, m, n
      <3> QED BY <3>1, <3>2, <3>3, Zenon
    <2> QED BY <1>1, <2>1, <2>2
  <1>3. ASSUME RightSeq(w), NEW i \in 1..m PROVE s[i][2] = Value(s[i][1])
    <2>1. i \in 1..(m + n) /\ w[i] = s[i]
      BY <1>1
    <2>2. w[i][2] = Value(w[i][1])
      BY <1>1, <1>3, <2>1 DEF RightSeq
    <2> QED BY <2>1, <2>2
  <1>4. ASSUME RightSeq(w), NEW i \in 1..n PROVE u[i][2] = Value(u[i][1])
    <2>1. m + i \in 1..(m + n) /\ w[m + i] = u[i]
      BY <1>1
    <2>2. w[m + i][2] = Value(w[m + i][1])
      BY <1>1, <1>4, <2>1 DEF RightSeq
    <2> HIDE DEF w, m
    <2> QED BY <2>1, <2>2
  <1> QED BY <1>1, <1>2, <1>3, <1>4 DEF RightSeq

(* ... and that has lost its first message.                                *)
LEMMA RightTail ==
  ASSUME NEW s, IsSeq(s), s # <<>>, RightSeq(s)
  PROVE  RightSeq(Tail(s)) /\ Head(s)[2] = Value(Head(s)[1])
  <1>1. /\ Len(s) >= 1 /\ Len(Tail(s)) = Len(s) - 1 /\ Len(s) \in Nat
        /\ Head(s) = s[1] /\ \A i \in 1..(Len(s) - 1) : Tail(s)[i] = s[i + 1]
    BY SeqTail DEF IsSeq
  <1>2. ASSUME NEW i \in 1..(Len(s) - 1) PROVE Tail(s)[i][2] = Value(Tail(s)[i][1])
    <2>1. i + 1 \in 1..Len(s) /\ Tail(s)[i] = s[i + 1]
      BY <1>1
    <2>2. s[i + 1][2] = Value(s[i + 1][1])
      BY <2>1 DEF RightSeq
    <2> QED BY <2>1, <2>2
  <1>3. s[1][2] = Value(s[1][1])
    BY <1>1 DEF RightSeq
  <1> QED BY <1>1, <1>2, <1>3 DEF RightSeq

(* A step after which the streams are right and nobody has received.       *)
LEMMA ContentStep ==
  ASSUME ContentRight, case' = case, got' = got,
         \A p \in Ends : RightSeq(unsent'[p]) /\ RightSeq(net'[p]) /\ RightSeq(ahead'[p]),
         \A p \in Ends : Live(p)' => Live(p) /\ Taken(p)' = Taken(p)
  PROVE  ContentRight'
  <1>1. \A name : Value(name)' = Value(name)
    BY SameValue
  <1>2. \A p \in Ends : RightSeq(unsent[p])' /\ RightSeq(net[p])' /\ RightSeq(ahead[p])'
    BY <1>1 DEF RightSeq
  <1>3. \A p \in Ends : \A m \in got'[p] : m[2] = Value(m[1])'
    BY <1>1 DEF ContentRight
  <1>4. ASSUME NEW p \in Ends, Live(p)', NEW i \in 1..Taken(p)'
        PROVE  Has(p, Expected[p][i])'
    <2>1. Live(p) /\ Taken(p)' = Taken(p)
      BY <1>4
    <2>2. Has(p, Expected[p][i])
      BY <2>1 DEF ContentRight
    <2> QED BY <2>2 DEF Has
  <1> QED BY <1>2, <1>3, <1>4 DEF ContentRight

(* A step that touches no stream.                                          *)
LEMMA ContentQuiet ==
  ASSUME ContentRight, case' = case, UNCHANGED streams,
         \A p \in Ends : Live(p)' => Live(p) /\ Taken(p)' = Taken(p)
  PROVE  ContentRight'
  <1>1. \A p \in Ends : RightSeq(unsent'[p]) /\ RightSeq(net'[p]) /\ RightSeq(ahead'[p])
    BY DEF ContentRight, streams
  <1>2. got' = got
    BY DEF streams
  <1> QED BY <1>1, <1>2, ContentStep

(* The other end has not moved, and this one has taken nothing.            *)
LEMMA TakenStays ==
  ASSUME NEW p \in Ends, Live(p), Taken(p)' = Taken(p), pc'[Peer(p)] = pc[Peer(p)]
  PROVE  \A x \in Ends : Live(x)' => Live(x) /\ Taken(x)' = Taken(x)
  <1>1. \A x \in Ends : x = p \/ x = Peer(p)
    BY TheEnds
  <1>2. Live(Peer(p))' = Live(Peer(p)) /\ Taken(Peer(p))' = Taken(Peer(p))
    BY TheEnds, PeerStays
  <1> QED BY <1>1, <1>2

(* An end that stops.                                                      *)
LEMMA ContentFails ==
  ASSUME DInv, ContentRight, NEW p \in Ends, case' = case, UNCHANGED streams,
         NEW v \in {Failed, Spins}, pc' = [pc EXCEPT ![p] = v]
  PROVE  ContentRight'
  <1>1. pc'[p] = v /\ pc'[Peer(p)] = pc[Peer(p)]
    BY Now
  <1>2. \A x \in Ends : x = p \/ x = Peer(p)
    BY TheEnds
  <1>3. ~Live(p)'
    BY <1>1 DEF Live
  <1>4. Live(Peer(p))' = Live(Peer(p)) /\ Taken(Peer(p))' = Taken(Peer(p))
    BY <1>1, TheEnds, PeerStays
  <1>5. \A x \in Ends : Live(x)' => Live(x) /\ Taken(x)' = Taken(x)
    BY <1>2, <1>3, <1>4
  <1> QED BY <1>5, ContentQuiet

(* A step of an end that touches no stream.                                *)
LEMMA ContentGoesOn ==
  ASSUME DInv, ContentRight, NEW p \in Ends, case' = case, UNCHANGED streams,
         pc[p] = 0 \/ At(p, "card"), Advance(p)
  PROVE  ContentRight'
  <1>1. Live(p) /\ Taken(p)' = Taken(p) /\ pc'[Peer(p)] = pc[Peer(p)]
    BY Now, QuietFacts
  <1>2. \A x \in Ends : Live(x)' => Live(x) /\ Taken(x)' = Taken(x)
    BY <1>1, TakenStays
  <1> QED BY <1>2, ContentQuiet

(* The message that is sent.                                               *)
LEMMA ContentSend ==
  ASSUME DInv, ContentRight, NEW p \in Ends, Send(p) PROVE ContentRight'
  <1> DEFINE m == <<Arg(p), Content(Arg(p))>>
  <1>1. /\ At(p, "send") /\ Advance(p) /\ case' = case /\ net' = net /\ got' = got
        /\ unsent' = [unsent EXCEPT ![p] = Append(unsent[p], m)]
        /\ ahead' = [ahead EXCEPT ![p] = <<>>]
    BY DEF Send
  <1>2. m[2] = Value(m[1])
    BY <1>1, ContentIs
  <1> HIDE DEF m
  <1>3. Live(p) /\ Taken(p)' = Taken(p) /\ pc'[Peer(p)] = pc[Peer(p)]
    BY <1>1, Now, SendFacts
  <1>4. \A x \in Ends : Live(x)' => Live(x) /\ Taken(x)' = Taken(x)
    BY <1>3, TakenStays
  <1>5. RightSeq(Append(unsent[p], m))
    BY <1>2, Now, RightAppend DEF ContentRight
  <1>6. \A x \in Ends : RightSeq(unsent'[x]) /\ RightSeq(net'[x]) /\ RightSeq(ahead'[x])
    <2> SUFFICES ASSUME NEW x \in Ends
                 PROVE  RightSeq(unsent'[x]) /\ RightSeq(net'[x]) /\ RightSeq(ahead'[x])
      OBVIOUS
    <2>1. RightSeq(unsent[x]) /\ RightSeq(net[x]) /\ RightSeq(ahead[x])
      BY DEF ContentRight
    <2>2. unsent'[x] = unsent[x] \/ unsent'[x] = Append(unsent[p], m)
      BY <1>1, Now
    <2>3. ahead'[x] = ahead[x] \/ ahead'[x] = <<>>
      BY <1>1, Now
    <2> QED BY <1>1, <1>5, <2>1, <2>2, <2>3, RightNone
  <1> QED BY <1>1, <1>4, <1>6, ContentStep

(* What is flushed comes after what is on the way.                         *)
LEMMA FlushedRight ==
  ASSUME DInv, ContentRight, NEW p \in Ends, Flushed(p), ahead' = ahead
  PROVE  \A x \in Ends :
           RightSeq(unsent'[x]) /\ RightSeq(net'[x]) /\ RightSeq(ahead'[x])
  <1>1. /\ unsent' = [unsent EXCEPT ![p] = <<>>]
        /\ net' = IF Gone(Peer(p)) THEN net
                  ELSE [net EXCEPT ![Peer(p)] = net[Peer(p)] \o unsent[p]]
    BY DEF Flushed
  <1>2. RightSeq(net[Peer(p)] \o unsent[p])
    <2>1. RightSeq(net[Peer(p)]) /\ RightSeq(unsent[p])
          /\ IsSeq(net[Peer(p)]) /\ IsSeq(unsent[p])
      BY Now DEF ContentRight
    <2> QED BY <2>1, RightConcat
  <1> SUFFICES ASSUME NEW x \in Ends
               PROVE  RightSeq(unsent'[x]) /\ RightSeq(net'[x]) /\ RightSeq(ahead'[x])
    OBVIOUS
  <1>3. RightSeq(unsent[x]) /\ RightSeq(net[x]) /\ RightSeq(ahead[x])
    BY DEF ContentRight
  <1>4. unsent'[x] = unsent[x] \/ unsent'[x] = <<>>
    BY <1>1, Now
  <1>5. net'[x] = net[x] \/ net'[x] = net[Peer(p)] \o unsent[p]
    <2>1. CASE Gone(Peer(p))
      BY <1>1, <2>1
    <2>2. CASE ~Gone(Peer(p))
      <3>1. net' = [net EXCEPT ![Peer(p)] = net[Peer(p)] \o unsent[p]]
        BY <1>1, <2>2
      <3> QED BY <3>1, Now
    <2> QED BY <2>1, <2>2
  <1> QED BY <1>2, <1>3, <1>4, <1>5, RightNone

(* Flushes, ...                                                            *)
LEMMA ContentFlush ==
  ASSUME DInv, ContentRight, NEW p \in Ends, Flush(p) PROVE ContentRight'
  <1>1. /\ At(p, "flush") /\ Flushed(p) /\ Advance(p)
        /\ case' = case /\ ahead' = ahead /\ got' = got
    BY DEF Flush
  <1>2. Live(p) /\ Taken(p)' = Taken(p) /\ pc'[Peer(p)] = pc[Peer(p)]
    BY <1>1, Now, FlushFacts
  <1>3. \A x \in Ends : Live(x)' => Live(x) /\ Taken(x)' = Taken(x)
    BY <1>2, TakenStays
  <1> QED BY <1>1, <1>3, FlushedRight, ContentStep

(* ... also those of recv_data, ...                                        *)
LEMMA ContentRecvFlush ==
  ASSUME DInv, ContentRight, NEW p \in Ends, RecvFlush(p) PROVE ContentRight'
  <1>1. /\ Flushed(p) /\ case' = case /\ ahead' = ahead /\ got' = got /\ pc' = pc
    BY DEF RecvFlush
  <1>2. \A x \in Ends : Live(x)' => Live(x) /\ Taken(x)' = Taken(x)
    BY <1>1, PeerStays
  <1> QED BY <1>1, <1>2, FlushedRight, ContentStep

(* ... and what is read ahead.                                             *)
LEMMA ContentFill ==
  ASSUME DInv, ContentRight, NEW p \in Ends, Fill(p) PROVE ContentRight'
  <1>1. case' = case /\ pc' = pc /\ unsent' = unsent /\ got' = got
    BY DEF Fill
  <1>2. PICK n \in 1..Len(net[p]) :
          /\ ahead' = [ahead EXCEPT ![p] = SubSeq(net[p], 1, n)]
          /\ net' = [net EXCEPT ![p] = SubSeq(net[p], n + 1, Len(net[p]))]
    BY DEF Fill
  <1> DEFINE a == SubSeq(net[p], 1, n)
             b == SubSeq(net[p], n + 1, Len(net[p]))
  <1>3. IsSeq(a) /\ IsSeq(b) /\ a \o b = net[p]
    BY Now, SeqCut
  <1>4. ahead' = [ahead EXCEPT ![p] = a] /\ net' = [net EXCEPT ![p] = b]
    BY <1>2
  <1> HIDE DEF a, b
  <1>5. RightSeq(a) /\ RightSeq(b)
    BY <1>3, RightConcat, ZenonT(60) DEF ContentRight
  <1>6. \A x \in Ends : Live(x)' => Live(x) /\ Taken(x)' = Taken(x)
    BY <1>1, PeerStays
  <1>7. \A x \in Ends : RightSeq(unsent'[x]) /\ RightSeq(net'[x]) /\ RightSeq(ahead'[x])
    <2> SUFFICES ASSUME NEW x \in Ends
                 PROVE  RightSeq(unsent'[x]) /\ RightSeq(net'[x]) /\ RightSeq(ahead'[x])
      OBVIOUS
    <2>1. RightSeq(unsent[x]) /\ RightSeq(net[x]) /\ RightSeq(ahead[x])
      BY DEF ContentRight
    <2>2. net'[x] = net[x] \/ net'[x] = b
      BY <1>4, Now
    <2>3. ahead'[x] = ahead[x] \/ ahead'[x] = a
      BY <1>4, Now
    <2> QED BY <1>1, <1>5, <2>1, <2>2, <2>3
  <1> QED BY <1>1, <1>6, <1>7, ContentStep

(* A message is received.                                                  *)
LEMMA ContentRecv ==
  ASSUME DInv, ContentRight, NEW p \in Ends, Recv(p) PROVE ContentRight'
  <1> DEFINE m == <<Arg(p), Head(ahead[p])[2]>>
  <1>1. /\ At(p, "recv") /\ ahead[p] # <<>> /\ Advance(p)
        /\ got' = [got EXCEPT ![p] = got[p] \cup {m}]
        /\ ahead' = [ahead EXCEPT ![p] = Tail(ahead[p])]
        /\ case' = case /\ unsent' = unsent /\ net' = net
    BY DEF Recv
  <1>2. /\ Live(p) /\ Taken(p)' = Taken(p) + 1 /\ pc'[Peer(p)] = pc[Peer(p)]
        /\ Arg(p) = Expected[p][Taken(p) + 1] /\ Taken(p) \in Nat
    BY <1>1, Now, RecvFacts, Counts
  <1>3. RightSeq(Tail(ahead[p])) /\ m[2] = Value(m[1]) /\ m[1] = Arg(p)
    <2>1. RightSeq(Tail(ahead[p])) /\ Head(ahead[p])[2] = Value(Head(ahead[p])[1])
      BY <1>1, Now, RightTail DEF ContentRight
    <2> QED BY <1>1, <2>1, HeadExpected
  <1> HIDE DEF m
  <1>4. \A name : Value(name)' = Value(name)
    BY <1>1, SameValue
  <1>5. got'[p] = got[p] \cup {m} /\ got'[Peer(p)] = got[Peer(p)]
    <2>1. DOMAIN got = Ends
      BY DEF DInv, StreamShape
    <2> QED BY <1>1, <2>1, TheEnds
  <1>6. \A x \in Ends : x = p \/ x = Peer(p)
    BY TheEnds
  <1>7. \A x \in Ends : RightSeq(unsent[x])' /\ RightSeq(net[x])' /\ RightSeq(ahead[x])'
    <2> SUFFICES ASSUME NEW x \in Ends
                 PROVE  RightSeq(unsent[x])' /\ RightSeq(net[x])' /\ RightSeq(ahead[x])'
      OBVIOUS
    <2>1. RightSeq(unsent'[x]) /\ RightSeq(net'[x]) /\ RightSeq(ahead'[x])
      <3>1. ahead'[x] = ahead[x] \/ ahead'[x] = Tail(ahead[p])
        BY <1>1, Now
      <3> QED BY <1>1, <1>3, <3>1 DEF ContentRight
    <2> QED BY <1>4, <2>1 DEF RightSeq
  <1>8. \A x \in Ends : \A n \in got'[x] : n[2] = Value(n[1])'
    <2>1. \A x \in Ends : \A n \in got[x] : n[2] = Value(n[1])
      BY DEF ContentRight
    <2>2. \A x \in Ends : \A n \in got'[x] : n = m \/ n \in got[x]
      BY <1>5, <1>6
    <2> QED BY <1>3, <1>4, <2>1, <2>2
  <1>9. ASSUME NEW x \in Ends, Live(x)', NEW i \in 1..Taken(x)'
        PROVE  Has(x, Expected[x][i])'
    <2>1. CASE x = p
      <3>1. CASE i = Taken(p) + 1
        <4>1. m \in got'[p] /\ m[1] = Expected[p][i]
          BY <1>2, <1>3, <1>5, <3>1
        <4> QED BY <2>1, <4>1 DEF Has
      <3>2. CASE i # Taken(p) + 1
        <4>1. i \in 1..Taken(p)
          BY <1>2, <2>1, <3>2
        <4>2. Has(p, Expected[p][i])
          BY <1>2, <4>1 DEF ContentRight
        <4> QED BY <1>5, <2>1, <4>2 DEF Has
      <3> QED BY <3>1, <3>2
    <2>2. CASE x = Peer(p)
      <3>1. Live(x)' = Live(x) /\ Taken(x)' = Taken(x)
        BY <1>2, <2>2, PeerStays
      <3>2. Has(x, Expected[x][i])
        BY <1>9, <3>1 DEF ContentRight
      <3> QED BY <1>5, <2>2, <3>2 DEF Has
    <2> QED BY <1>6, <2>1, <2>2
  <1> QED BY <1>7, <1>8, <1>9 DEF ContentRight

(* At first there are no messages.                                         *)
LEMMA ContentInit == Init => ContentRight
  <1> SUFFICES ASSUME Init PROVE ContentRight
    OBVIOUS
  <1>1. \A p \in Ends : /\ pc[p] = 0 /\ unsent[p] = <<>> /\ net[p] = <<>>
                        /\ ahead[p] = <<>> /\ got[p] = {}
    BY DEF Init
  <1>2. \A p \in Ends : Taken(p) = 0
    BY <1>1 DEF Taken
  <1> QED BY <1>1, <1>2, RightNone DEF ContentRight

(* ContentRight is kept by every step.                                     *)
LEMMA ContentNext == DInv /\ ContentRight /\ [Next]_vars => ContentRight'
  <1> SUFFICES ASSUME DInv, ContentRight, [Next]_vars PROVE ContentRight'
    OBVIOUS
  <1>1. CASE UNCHANGED vars
    <2>1. case' = case /\ pc' = pc /\ UNCHANGED streams
      BY <1>1 DEF vars, streams
    <2>2. \A x \in Ends : Live(x)' => Live(x) /\ Taken(x)' = Taken(x)
      BY <2>1, PeerStays
    <2> QED BY <2>1, <2>2, ContentQuiet
  <1>2. ASSUME NEW p \in Ends, Fail(p), case' = case, UNCHANGED streams
        PROVE  ContentRight'
    <2>1. pc' = [pc EXCEPT ![p] = Failed]
      BY <1>2 DEF Fail
    <2> QED BY <1>2, <2>1, ContentFails
  <1>3. CASE BindFails
    BY <1>2, <1>3, TheEnds DEF BindFails
  <1>4. ASSUME NEW p \in Ends, BrokenPipe(p) \/ CardFails(p) \/ Killed(p)
        PROVE  ContentRight'
    BY <1>2, <1>4 DEF BrokenPipe, CardFails, Killed
  <1>5. ASSUME NEW p \in Ends, Step(p) PROVE ContentRight'
    <2>1. CASE p = "server" /\ Listen
      <3>1. case' = case /\ pc' = pc /\ UNCHANGED streams
        BY <2>1 DEF Listen
      <3>2. \A x \in Ends : Live(x)' => Live(x) /\ Taken(x)' = Taken(x)
        BY <3>1, PeerStays
      <3> QED BY <3>1, <3>2, ContentQuiet
    <2>2. CASE p = "server" /\ Accept
      BY <2>2, ContentGoesOn DEF Accept
    <2>3. CASE p = "client" /\ Connect
      BY <2>3, ContentGoesOn DEF Connect
    <2>4. CASE Eof(p)
      BY <2>4, ContentFails DEF Eof
    <2>5. CASE Card(p)
      <3>1. At(p, "card") /\ case' = case /\ UNCHANGED streams /\ (Fail(p) \/ Advance(p))
        BY <2>5 DEF Card
      <3> QED BY <1>2, <3>1, ContentGoesOn
    <2> QED BY <1>5, <2>1, <2>2, <2>3, <2>4, <2>5, ContentSend, ContentFlush,
               ContentRecvFlush, ContentFill, ContentRecv DEF Step
  <1> QED BY <1>1, <1>3, <1>4, <1>5 DEF Next

(* The client's decryption and the server's share of the result add up to  *)
(* the product of the matrix and the vector, but for the errors of the     *)
(* lifts, the card and the roundings: for all inputs that fit, and however *)
(* the two processes are interleaved.                                      *)
THEOREM SharesAlwaysReconstruct == Spec => []SharesReconstruct
  <1>1. ASSUME DInv, ContentRight PROVE SharesReconstruct
    <2> SUFFICES ASSUME pc["client"] = Done PROVE SharesReconstruct
      BY DEF SharesReconstruct
    <2>1. "client" \in Ends /\ Live("client") /\ Taken("client") = 3
      BY TheEnds DEF Live, Taken, Done, Failed, Spins
    <2>2. Has("client", "response") /\ Has("client", "share")
      <3>1. \A i \in 1..Taken("client") : Has("client", Expected["client"][i])
        BY <1>1, <2>1 DEF ContentRight
      <3>2. 2 \in 1..Taken("client") /\ 3 \in 1..Taken("client")
        BY <2>1
      <3>3. Has("client", Expected["client"][2]) /\ Has("client", Expected["client"][3])
        BY <3>1, <3>2
      <3> QED BY <3>3, Expectations
    <2>3. Received("client", "response") = Value("response")
          /\ Received("client", "share") = Value("share")
      BY <1>1, <2>1, <2>2, ReceivedIs
    <2>4. case \in Cases
      BY <1>1, TypeIs DEF DInv
    <2> QED BY <2>3, <2>4, RowReconstructs DEF SharesReconstruct
  <1> QED BY <1>1, DInvAlways, ContentInit, ContentNext, PTL DEF Spec
=============================================================================
