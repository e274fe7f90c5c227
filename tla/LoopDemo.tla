------------------------------ MODULE LoopDemo ------------------------------
(***************************************************************************)
(* api_examples/demo_end_to_end.cc over the LocalLoopIO of demo_common.h:  *)
(* a client with one share of a vector and a server with the other share   *)
(* and the matrix, two processes connected by a socket.                    *)
(*                                                                         *)
(* Each end has one stdio stream for both directions, with one buffer: it  *)
(* holds what was written and not flushed, or what was read ahead.  A call *)
(* of send_strings, recv_strings, send_data or recv_data handles one       *)
(* message.  Either process may be killed.                                 *)
(***************************************************************************)
EXTENDS MvpMasking

CONSTANTS
  Cases,     \* the inputs: see InputCase
  MaxFaults  \* bound: processes killed, failures of the port and the card

ASSUME FaultsAssumption == MaxFaults \in Nat

Ends    == {"client", "server"}
Peer(p) == IF p = "client" THEN "server" ELSE "client"

(* The absolute value of a number modulo t, in two's complement.           *)
Mag(x) == Least(x, t - x)

(* A matrix (rows of entries modulo t), the vector, the server's share of  *)
(* it, the first random number of the mask, and the noise of the card.     *)
(* The entries of the matrix have 20 bits, the primes 35.                  *)
InputCase(c) ==
  /\ c.mat \in Seq(Seq(0..(t - 1))) /\ Len(c.mat) \in 1..N
  /\ c.vec \in Seq(0..(t - 1)) /\ Len(c.vec) \in 1..N
  /\ c.v1 \in Seq(0..(t - 1)) /\ Len(c.v1) = Len(c.vec)
  /\ \A r \in DOMAIN c.mat :
       /\ Len(c.mat[r]) = Len(c.vec)
       /\ \A i \in DOMAIN c.vec, j \in Limbs : Mag(c.mat[r][i]) < q[j]
  /\ c.rand \in 0..(Q - 1) /\ c.noise \in Int

ASSUME CasesAssumption == \A c \in Cases : InputCase(c)

VARIABLES
  case,      \* the inputs of this run
  link,      \* "none", "listening", "connected", "accepted"
  pc,        \* of each end: the next step of Program, or how it ended
  unsent,    \* of each end: messages in the buffer of its stream
  has_sent,
  net,       \* of each end: messages on the way to it
  ahead,     \* of each end: messages its stream has read ahead
  got,       \* of each end: messages it has received
  faults

vars == <<case, link, pc, unsent, has_sent, net, ahead, got, faults>>

-----------------------------------------------------------------------------
(* What the ends compute *)

nrows == Len(case.mat)

(* ShareToU64: the share of the client.                                    *)
v0 == [c \in DOMAIN case.vec |-> (case.vec[c] - case.v1[c]) % t]

Random == [i \in Coeffs |-> (case.rand + 37 * i) % Q]

Received(p, name) == (CHOOSE m \in got[p] : m[1] = name)[2]

(* What is in a message; only what is computed with matters.               *)
Content(name) ==
  CASE name = "query"    -> Vec2Poly(v0)
    [] name = "response" -> MatVecMasked(case.mat, case.v1,
                              Received("server", "query"), Random, case.noise)
    [] name = "share"    -> out_mask(nrows, Random)
    [] OTHER             -> <<>>

(* The steps of the two branches of api_demo_netio.                        *)
ClientProgramNoSync ==   \* mutant: the query does not wait for the setup
  <<<<"send", "evk">>, <<"flush", "">>, <<"send", "query">>, <<"flush", "">>,
    <<"recv", "sync">>, <<"recv", "response">>, <<"recv", "share">>>>

ClientProgram ==
  <<<<"send", "evk">>, <<"flush", "">>, <<"recv", "sync">>,
    <<"send", "query">>, <<"flush", "">>,
    <<"recv", "response">>, <<"recv", "share">>>>

ServerProgramNoFlush ==   \* mutant: the share is left to the end of the process
  <<<<"recv", "evk">>, <<"card", "setup">>, <<"send", "sync">>, <<"flush", "">>,
    <<"recv", "query">>, <<"card", "matvec">>,
    <<"send", "response">>, <<"flush", "">>, <<"send", "share">>>>

ServerProgram ==
  <<<<"recv", "evk">>, <<"card", "setup">>, <<"send", "sync">>, <<"flush", "">>,
    <<"recv", "query">>, <<"card", "matvec">>,
    <<"send", "response">>, <<"flush", "">>, <<"send", "share">>, <<"flush", "">>>>

Program == [client |-> ClientProgram, server |-> ServerProgram]

Init ==
  /\ case \in Cases
  /\ link = "none"
  /\ pc = [p \in Ends |-> 0]
  /\ unsent = [p \in Ends |-> <<>>]
  /\ has_sent = [p \in Ends |-> FALSE]
  /\ net = [p \in Ends |-> <<>>]
  /\ ahead = [p \in Ends |-> <<>>]
  /\ got = [p \in Ends |-> {}]
  /\ faults = 0

Done   == 100   \* returned 0
Failed == 101   \* returned -1, exit(1), an exception, a signal
Spins  == 102   \* in the loop of recv_data, at the end of the stream

Gone(p)    == pc[p] \in {Done, Failed}   \* its socket is closed
At(p, op)  == pc[p] \in 1..Len(Program[p]) /\ Program[p][pc[p]][1] = op
Arg(p)     == Program[p][pc[p]][2]

(* To the next step, or to the end.                                        *)
Advance(p) ==
  pc' = [pc EXCEPT ![p] = IF @ = Len(Program[p]) THEN Done ELSE @ + 1]
Fail(p) == pc' = [pc EXCEPT ![p] = Failed]
Fault   == faults < MaxFaults /\ faults' = faults + 1

-----------------------------------------------------------------------------
(* The constructor: the server binds and listens, the client tries again   *)
(* until it is connected, the server accepts.                              *)

streams == <<unsent, has_sent, net, ahead, got>>

Listen ==
  /\ pc["server"] = 0 /\ link = "none"
  /\ link' = "listening"
  /\ UNCHANGED <<case, pc, streams, faults>>

BindFails ==
  /\ pc["server"] = 0 /\ link = "none"
  /\ Fault /\ Fail("server")
  /\ UNCHANGED <<case, link, streams>>

ConnectUnchecked ==   \* mutant: goes on whatever connect returns
  /\ pc["client"] = 0
  /\ link' = IF link = "listening" THEN "connected" ELSE link
  /\ Advance("client")
  /\ UNCHANGED <<case, streams, faults>>

ConnectOnce ==   \* mutant: does not try again
  /\ pc["client"] = 0
  /\ IF link = "listening" /\ pc["server"] = 0
     THEN link' = "connected" /\ Advance("client")
     ELSE Fail("client") /\ UNCHANGED link
  /\ UNCHANGED <<case, streams, faults>>

Connect ==
  /\ pc["client"] = 0 /\ link = "listening" /\ pc["server"] = 0
  /\ link' = "connected"
  /\ Advance("client")
  /\ UNCHANGED <<case, streams, faults>>

Accept ==
  /\ pc["server"] = 0 /\ link = "connected"
  /\ link' = "accepted"
  /\ Advance("server")
  /\ UNCHANGED <<case, streams, faults>>

-----------------------------------------------------------------------------
(* Stream operations *)

(* send_data: into the buffer.  What the stream had read ahead is lost.    *)
Send(p) ==
  /\ At(p, "send")
  /\ unsent' = [unsent EXCEPT ![p] = Append(@, <<Arg(p), Content(Arg(p))>>)]
  /\ has_sent' = [has_sent EXCEPT ![p] = TRUE]
  /\ ahead' = [ahead EXCEPT ![p] = <<>>]
  /\ Advance(p)
  /\ UNCHANGED <<case, link, net, got, faults>>

(* fflush: what is sent to a closed socket is lost.                        *)
Flushed(p) ==
  /\ unsent' = [unsent EXCEPT ![p] = <<>>]
  /\ net' = IF Gone(Peer(p)) THEN net
            ELSE [net EXCEPT ![Peer(p)] = @ \o unsent[p]]

Flush(p) ==
  /\ At(p, "flush")
  /\ Flushed(p)
  /\ Advance(p)
  /\ UNCHANGED <<case, link, has_sent, ahead, got, faults>>

(* SIGPIPE may end a process that writes to a closed socket.               *)
BrokenPipe(p) ==
  /\ At(p, "flush") \/ (At(p, "recv") /\ has_sent[p])
  /\ unsent[p] # <<>> /\ Gone(Peer(p))
  /\ Fail(p)
  /\ UNCHANGED <<case, link, streams, faults>>

(* recv_data flushes first, reads ahead what has arrived, and delivers.    *)
RecvFlush(p) ==
  /\ At(p, "recv") /\ has_sent[p]
  /\ Flushed(p)
  /\ has_sent' = [has_sent EXCEPT ![p] = FALSE]
  /\ UNCHANGED <<case, link, pc, ahead, got, faults>>

Fill(p) ==
  /\ At(p, "recv") /\ ~has_sent[p] /\ ahead[p] = <<>>
  /\ \E n \in 1..Len(net[p]) :
       /\ ahead' = [ahead EXCEPT ![p] = SubSeq(net[p], 1, n)]
       /\ net' = [net EXCEPT ![p] = SubSeq(@, n + 1, Len(@))]
  /\ UNCHANGED <<case, link, pc, unsent, has_sent, got, faults>>

Recv(p) ==
  /\ At(p, "recv") /\ ~has_sent[p] /\ ahead[p] # <<>>
  /\ got' = [got EXCEPT ![p] = @ \cup {<<Arg(p), Head(ahead[p])[2]>>}]
  /\ ahead' = [ahead EXCEPT ![p] = Tail(@)]
  /\ Advance(p)
  /\ UNCHANGED <<case, link, unsent, has_sent, net, faults>>

(* At the end of the stream fread returns 0, which is no error here: the   *)
(* loop goes on for ever.                                                  *)
Eof(p) ==
  /\ At(p, "recv") /\ ~has_sent[p] /\ ahead[p] = <<>>
  /\ net[p] = <<>> /\ Gone(Peer(p))
  /\ pc' = [pc EXCEPT ![p] = Spins]
  /\ UNCHANGED <<case, link, streams, faults>>

-----------------------------------------------------------------------------
(* SetupEvalKey and MatVec of the server.  One row passes main and makes   *)
(* MatVec throw.                                                           *)
Card(p) ==
  /\ At(p, "card")
  /\ IF Arg(p) = "matvec" /\ ~config_ok([nrows |-> nrows,
                                         ncols |-> Len(case.vec)])
     THEN Fail(p) ELSE Advance(p)
  /\ UNCHANGED <<case, link, streams, faults>>

CardFails(p) ==
  /\ At(p, "card")
  /\ Fault /\ Fail(p)
  /\ UNCHANGED <<case, link, streams>>

Killed(p) ==
  /\ pc[p] \notin {Done, Failed}
  /\ Fault /\ Fail(p)
  /\ UNCHANGED <<case, link, streams>>

Step(p) ==
  \/ p = "server" /\ (Listen \/ Accept)
  \/ p = "client" /\ Connect
  \/ Send(p) \/ Flush(p) \/ RecvFlush(p) \/ Fill(p) \/ Recv(p) \/ Eof(p)
  \/ Card(p)

Next ==
  \/ BindFails
  \/ \E p \in Ends : Step(p) \/ BrokenPipe(p) \/ CardFails(p) \/ Killed(p)

(* Each process runs, and the socket delivers.                             *)
Spec == Init /\ [][Next]_vars /\ \A p \in Ends : WF_vars(Step(p))

-----------------------------------------------------------------------------
(* The type invariant; nobody runs on a stream that is not connected, and  *)
(* a stream's buffer serves one direction at a time.                       *)
TypeOK ==
  /\ case \in Cases
  /\ link \in {"none", "listening", "connected", "accepted"}
  /\ \A p \in Ends :
       /\ pc[p] \in 0..Len(Program[p]) \cup {Done, Failed, Spins}
       /\ pc[p] \in {0, Failed} \/ link = "accepted"
            \/ (p = "client" /\ link = "connected")
       /\ ahead[p] = <<>> \/ unsent[p] = <<>>
  /\ has_sent \in [Ends -> BOOLEAN]
  /\ faults \in 0..MaxFaults

(* For each row, its product with the vector and the sum of its absolute   *)
(* values.                                                                 *)
Sum(a, n) ==
  LET upto[c \in 0..n] == IF c = 0 THEN 0 ELSE upto[c - 1] + a[c]
  IN upto[n]

RowProduct(r) ==
  Sum([c \in DOMAIN case.vec |-> case.mat[r][c] * case.vec[c]], Len(case.vec))
RowSize(r) == Sum([c \in DOMAIN case.vec |-> Mag(case.mat[r][c])], Len(case.vec))

(* The client ends with shares that add up: its decryption plus the share  *)
(* of the server is the product modulo t, but for one unit of rounding and *)
(* the scaled down error of the lifts (one per column) and the card.       *)
(* "computed_2k" against "gnd_prod_2k" in demo_end_to_end.cc.              *)
SharesReconstruct ==
  pc["client"] = Done =>
    LET output  == DecryptRows(Received("client", "response"), nrows)
        output1 == Received("client", "share")
        err(r)  == Mag((output[r] + output1[r] - RowProduct(r)) % t)
    IN \A r \in 1..nrows :
         (err(r) - 1) * Q < t * (RowSize(r) + Greatest(case.noise, -case.noise))

(* Every message is received as the one it was sent as: nothing is lost in *)
(* a stream that turns from reading to writing, which would shift all that *)
(* follows.  The sync byte is what guarantees it: without it the query is  *)
(* read ahead together with the evaluation keys and dropped.               *)
NothingLostInTurn ==
  \A p \in Ends :
    /\ At(p, "send") => ahead[p] = <<>>
    /\ At(p, "recv") /\ ahead[p] # <<>> => Head(ahead[p])[1] = Arg(p)

(* Who returns has nothing left in the buffer, which the destructor frees  *)
(* while the stream is still open.                                         *)
NothingUnflushedAtEnd == \A p \in Ends : pc[p] = Done => unsent[p] = <<>>

(* The endless loop of recv_data is reached only after the other end has   *)
(* failed: it never waits for a message that was not meant to be sent.     *)
SpinsOnlyAlone == \A p \in Ends : pc[p] = Spins => pc[Peer(p)] = Failed

(* With at least two rows both processes return, unless something outside  *)
(* of them fails: neither waits for the other for ever, whichever is       *)
(* started first.                                                          *)
BothEnd ==
  nrows >= 2 => <>(faults > 0 \/ \A p \in Ends : pc[p] = Done)
=============================================================================
