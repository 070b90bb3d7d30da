--------------------------- MODULE RdmaEchoProofs ---------------------------
(***************************************************************************)
(* What is stored, shown and reported: the message the client has written  *)
(* stays in the buffer that the server prints; the buffer is there as long *)
(* as the client uses it; the client reads back what it wrote; and server  *)
(* and client together implement EchoService.                              *)
(***************************************************************************)
EXTENDS RdmaCompletionProofs
-----------------------------------------------------------------------------
(* A request of p that has been carried out: it waits for its completion,  *)
(* or has completed.                                                       *)

Good(p, op) == Wc(op, TRUE) \in ToSet(Completions(p))

Did(p, op) == op \in ToSet(sent[p]) \/ Good(p, op)

LEMMA ToSetConcat ==
  ASSUME NEW S, NEW s \in Seq(S), NEW t \in Seq(S)
  PROVE  ToSet(s \o t) = ToSet(s) \cup ToSet(t)
<1>. DEFINE u == s \o t
<1>1. /\ Len(s) \in Nat /\ Len(t) \in Nat /\ u \in Seq(S)
      /\ DOMAIN s = 1 .. Len(s) /\ DOMAIN t = 1 .. Len(t)
  OBVIOUS
<1>2. Joins(u, s, t)
  BY ConcatJoins, Zenon
<1>. HIDE DEF u
<1>3. DOMAIN u = 1 .. Len(s) + Len(t)
  BY <1>1, <1>2 DEF Joins
<1>4. /\ \A i \in 1 .. Len(s) : i \in 1 .. Len(s) + Len(t)
      /\ \A i \in 1 .. Len(t) : Len(s) + i \in 1 .. Len(s) + Len(t)
  BY <1>1
<1>5. ASSUME NEW x \in ToSet(u) PROVE x \in ToSet(s) \cup ToSet(t)
  <2>1. PICK i \in 1 .. Len(s) + Len(t) : x = u[i]
    BY <1>3 DEF ToSet
  <2>. QED
    BY <1>1, <1>2, <2>1 DEF ToSet, Joins
<1>6. ASSUME NEW x \in ToSet(s) PROVE x \in ToSet(u)
  <2>1. PICK i \in 1 .. Len(s) : x = s[i]
    BY <1>1, <1>6 DEF ToSet
  <2>2. u[i] = x
    BY <1>2, <2>1 DEF Joins
  <2>. QED
    BY <1>3, <1>4, <2>2 DEF ToSet
<1>7. ASSUME NEW x \in ToSet(t) PROVE x \in ToSet(u)
  <2>1. PICK i \in 1 .. Len(t) : x = t[i]
    BY <1>1, <1>7 DEF ToSet
  <2>2. u[Len(s) + i] = x
    BY <1>2, <2>1 DEF Joins
  <2>. QED
    BY <1>3, <1>4, <2>2 DEF ToSet
<1>. QED
  BY <1>5, <1>6, <1>7 DEF u

LEMMA CompletionsSet ==
  ASSUME TypeInv, NEW p \in Procs
  PROVE  ToSet(Completions(p)) = ToSet(got[p]) \cup ToSet(cq[p].wcs)
<1>1. got[p] \in Seq(WorkCompletions) /\ cq[p].wcs \in Seq(WorkCompletions)
  BY AccountTypes
<1>. QED
  BY <1>1, ToSetConcat DEF Completions

\* What arrives is added to the completions.
LEMMA CompletionsArrive ==
  ASSUME TypeInv, NEW p \in Procs, NEW new \in Seq(WorkCompletions),
         got'[p] = got[p], cq'[p] = Arrive(cq[p], new)
  PROVE  ToSet(Completions(p)') = ToSet(Completions(p)) \cup ToSet(new)
<1>1. /\ got[p] \in Seq(WorkCompletions) /\ cq[p].wcs \in Seq(WorkCompletions)
      /\ cq[p] \in Cqs
  BY AccountTypes
<1>2. cq'[p].wcs = cq[p].wcs \o new
  BY <1>1, ArriveType
<1>3. cq'[p].wcs \in Seq(WorkCompletions)
  BY <1>1, <1>2, Concat
<1>4. ToSet(Completions(p)') = ToSet(got[p]) \cup ToSet(cq'[p].wcs)
  BY <1>1, <1>3, ToSetConcat DEF Completions
<1>5. ToSet(cq'[p].wcs) = ToSet(cq[p].wcs) \cup ToSet(new)
  BY <1>1, <1>2, ToSetConcat
<1>. QED
  BY <1>4, <1>5, CompletionsSet

LEMMA GoodSets ==
  ASSUME NEW op \in Opcodes, NEW ops \in Seq(Opcodes), NEW n \in Nat
  PROVE  /\ Wc(op, TRUE) \in ToSet(Carried(ops)) => op \in ToSet(ops)
         /\ Wc(op, TRUE) \notin ToSet(Errors(ops, n))
<1>1. ASSUME Wc(op, TRUE) \in ToSet(Carried(ops)) PROVE op \in ToSet(ops)
  <2>1. /\ Carried(ops) \in Seq(WorkCompletions) /\ Len(Carried(ops)) = Len(ops)
        /\ \A i \in 1 .. Len(ops) : Carried(ops)[i] = Wc(ops[i], TRUE)
    BY CarriedType
  <2>2. DOMAIN Carried(ops) = 1 .. Len(ops) /\ DOMAIN ops = 1 .. Len(ops)
    BY <2>1
  <2>3. PICK i \in 1 .. Len(ops) : Wc(op, TRUE) = Wc(ops[i], TRUE)
    BY <1>1, <2>1, <2>2 DEF ToSet
  <2>4. op = ops[i]
    BY <2>3 DEF Wc
  <2>. QED
    BY <2>2, <2>4 DEF ToSet
<1>2. Wc(op, TRUE) \notin ToSet(Errors(ops, n))
  <2>1. /\ Errors(ops, n) \in Seq(WorkCompletions)
        /\ Len(Errors(ops, n)) = Len(ops) + n
        /\ \A i \in 1 .. Len(ops) + n : Errors(ops, n)[i].ok = FALSE
    BY ErrorsType
  <2>2. DOMAIN Errors(ops, n) = 1 .. Len(ops) + n
    BY <2>1
  <2>3. Wc(op, TRUE).ok = TRUE
    BY DEF Wc
  <2>. QED
    BY <2>1, <2>2, <2>3 DEF ToSet
<1>. QED
  BY <1>1, <1>2

LEMMA ToSetOne == ASSUME NEW x PROVE ToSet(<<x>>) = {x}
BY DEF ToSet

\* A call that succeeds has had its own requests carried out.
LEMMA SucceededDid ==
  ASSUME TypeInv, LedgerInv, NEW p \in Procs, AwaitSucceeded(p)
  PROVE  /\ pc[p] = "client_write_message" => Good(p, "WRITE")
         /\ pc[p] = "client_read_message" => Good(p, "READ")
         /\ pc[p] = "exchange_metadata_with_client" => Good(p, "RECV")
<1>1. /\ got[p] \in Seq(WorkCompletions)
      /\ ToSet(got[p]) \subseteq ToSet(Completions(p))
  BY AccountTypes, CompletionsSet
<1>2. \A i \in 1 .. Len(got[p]) : got[p][i].ok
  <2>1. pc[p] \in Awaiting /\ wait[p] = "returned" /\ ret[p] = Expected(p)
    BY DEF AwaitSucceeded, TypeInv, WaitsInCall
  <2>2. Result(p)
    BY <2>1
    DEF Awaiting, LedgerInv, Ledger, Working, Receiving, Requesting
  <2>. QED
    BY <2>1, <2>2 DEF Result
<1>3. ASSUME NEW op, {got[p][i].op : i \in DOMAIN got[p]} = {op}
      PROVE  Good(p, op)
  <2>1. PICK i \in DOMAIN got[p] : got[p][i].op = op
    BY <1>3
  <2>2. i \in 1 .. Len(got[p]) /\ got[p][i] \in WorkCompletions
    BY <1>1
  <2>3. got[p][i].ok
    BY <1>2, <2>2
  <2>4. got[p][i] = Wc(op, TRUE)
    BY <2>1, <2>2, <2>3 DEF WorkCompletions, Wc
  <2>. QED
    BY <1>1, <2>4 DEF Good, ToSet
<1>4. OwnCompletions
  BY OwnInState
<1>5. CASE pc[p] = "client_write_message"
  <2>1. {got[p][i].op : i \in DOMAIN got[p]} = {"WRITE"}
    BY <1>4, <1>5 DEF OwnCompletions
  <2>. QED
    BY <1>3, <1>5, <2>1
<1>6. CASE pc[p] = "client_read_message"
  <2>1. {got[p][i].op : i \in DOMAIN got[p]} = {"READ"}
    BY <1>4, <1>6 DEF OwnCompletions
  <2>. QED
    BY <1>3, <1>6, <2>1
<1>7. CASE pc[p] = "exchange_metadata_with_client"
  <2>1. {got[p][i].op : i \in DOMAIN got[p]} = {"RECV"}
    BY <1>4, <1>7 DEF OwnCompletions
  <2>. QED
    BY <1>3, <1>7, <2>1
<1>. QED
  BY <1>5, <1>6, <1>7

LEMMA HeadOf ==
  ASSUME NEW S, NEW s \in Seq(S), s # <<>>
  PROVE  Head(s) \in ToSet(s) /\ Head(s) \in S
<1>1. Len(s) > 0 /\ Head(s) = s[1] /\ 1 \in DOMAIN s /\ s[1] \in S
  OBVIOUS
<1>. QED
  BY <1>1 DEF ToSet

-----------------------------------------------------------------------------
(* A request is carried out by CarryOut and nothing else, and the program   *)
(* does not take that for the request of another step.                      *)

LEMMA CarriesOutDid ==
  ASSUME TypeInv, NEW p \in Procs, CarriesOut(p), UNCHANGED got,
         NEW q \in Procs, NEW op \in Opcodes \ {"RECV"}, Did(q, op)'
  PROVE  Did(q, op) \/ (q = p /\ Head(sq[p]) = op)
<1>1. /\ sq[p] \in Seq(Opcodes) /\ sent[p] \in Seq(Opcodes)
      /\ cq[q] \in Cqs /\ got'[q] = got[q]
  BY AccountTypes
<1>2. CASE Good(q, op)'
  <2>1. CASE cq'[q] = cq[q]
    <3>1. Completions(q)' = Completions(q)
      BY <1>1, <2>1 DEF Completions
    <3>. QED
      BY <1>2, <3>1 DEF Good, Did
  <2>2. CASE cq'[q] = Arrive(cq[q], <<Wc("RECV", TRUE)>>)
    <3>1. <<Wc("RECV", TRUE)>> \in Seq(WorkCompletions)
      BY DEF Wc, WorkCompletions, Opcodes
    <3>2. /\ ToSet(Completions(q)') =
               ToSet(Completions(q)) \cup ToSet(<<Wc("RECV", TRUE)>>)
          /\ ToSet(<<Wc("RECV", TRUE)>>) = {Wc("RECV", TRUE)}
      BY <1>1, <2>2, <3>1, CompletionsArrive, ToSetOne
    <3>3. Wc(op, TRUE) # Wc("RECV", TRUE)
      BY DEF Wc
    <3>. QED
      BY <1>2, <3>2, <3>3 DEF Good, Did
  <2>. QED
    BY <2>1, <2>2 DEF CarriesOut
<1>3. CASE op \in ToSet(sent'[q])
  <2>1. CASE q = p
    <3>1. Head(sq[p]) \in Opcodes
      BY <1>1 DEF CarriesOut
    <3>2. ToSet(sent'[p]) = ToSet(sent[p]) \cup {Head(sq[p])}
      BY <1>1, <3>1, ToSetAppend DEF CarriesOut
    <3>. QED
      BY <1>3, <2>1, <3>2 DEF Did
  <2>2. CASE q # p
    BY <1>3, <2>2 DEF CarriesOut, Did
  <2>. QED
    BY <2>1, <2>2
<1>. QED
  BY <1>2, <1>3 DEF Did

LEMMA ReportsDid ==
  ASSUME TypeInv, NEW p \in Procs, Reports(p), UNCHANGED got,
         NEW q \in Procs, NEW op \in Opcodes, Did(q, op)'
  PROVE  Did(q, op)
<1>1. sent[p] \in Seq(Opcodes) /\ cq[q] \in Cqs /\ got'[q] = got[q]
  BY AccountTypes
<1>2. CASE q # p
  <2>1. Completions(q)' = Completions(q) /\ sent'[q] = sent[q]
    BY <1>1, <1>2 DEF Reports, Completions
  <2>. QED
    BY <2>1 DEF Did, Good
<1>3. CASE q = p
  <2>1. /\ ToSet(Tail(sent[p])) \subseteq ToSet(sent[p])
        /\ Head(sent[p]) \in ToSet(sent[p]) /\ Head(sent[p]) \in Opcodes
    BY <1>1, ToSetTail, HeadOf, Zenon DEF Reports
  <2>. DEFINE new == <<Wc(Head(sent[p]), TRUE)>>
  <2>2. new \in Seq(WorkCompletions) /\ cq'[p] = Arrive(cq[p], new)
    BY <2>1 DEF Reports, Wc, WorkCompletions
  <2>3. ToSet(new) = {Wc(Head(sent[p]), TRUE)}
    BY ToSetOne
  <2>. HIDE DEF new
  <2>4. ToSet(Completions(p)') = ToSet(Completions(p)) \cup ToSet(new)
    BY <1>1, <1>3, <2>2, CompletionsArrive
  <2>5. Wc(op, TRUE) = Wc(Head(sent[p]), TRUE) => op = Head(sent[p])
    BY DEF Wc
  <2>. QED
    BY <1>3, <2>1, <2>3, <2>4, <2>5 DEF Did, Good, Reports
<1>. QED
  BY <1>2, <1>3

LEMMA StopsDid ==
  ASSUME TypeInv, NEW p \in Procs, NEW ps, Stops(p, ps), UNCHANGED got,
         NEW q \in Procs, NEW op \in Opcodes, Did(q, op)'
  PROVE  Did(q, op)
<1>1. /\ sq[q] \in Seq(Opcodes) /\ sent[q] \in Seq(Opcodes) /\ rq[q] \in Nat
      /\ cq[q] \in Cqs /\ got'[q] = got[q]
  BY AccountTypes
<1>2. CASE q \notin ps
  <2>1. Completions(q)' = Completions(q) /\ sent'[q] = sent[q]
    BY <1>1, <1>2 DEF Stops, Completions
  <2>. QED
    BY <2>1 DEF Did, Good
<1>3. CASE q \in ps
  <2>1. sent'[q] = <<>> /\ ToSet(<<>>) = {}
    BY <1>3, FirstOnlyNone DEF Stops
  <2>2. Good(q, op)'
    BY <2>1 DEF Did
  <2>3. CASE cq'[q] = Arrive(cq[q], Carried(sent[q]) \o Errors(sq[q], rq[q]))
    <3>1. /\ Carried(sent[q]) \in Seq(WorkCompletions)
          /\ Errors(sq[q], rq[q]) \in Seq(WorkCompletions)
      BY <1>1, CarriedType, ErrorsType
    <3>2. /\ Carried(sent[q]) \o Errors(sq[q], rq[q]) \in Seq(WorkCompletions)
          /\ ToSet(Carried(sent[q]) \o Errors(sq[q], rq[q])) =
               ToSet(Carried(sent[q])) \cup ToSet(Errors(sq[q], rq[q]))
      BY <3>1, ConcatJoins, ToSetConcat
    <3>3. ToSet(Completions(q)') =
            ToSet(Completions(q)) \cup
              (ToSet(Carried(sent[q])) \cup ToSet(Errors(sq[q], rq[q])))
      BY <1>1, <2>3, <3>2, CompletionsArrive
    <3>4. Wc(op, TRUE) \in ToSet(Carried(sent[q])) => op \in ToSet(sent[q])
      BY <1>1, GoodSets
    <3>5. Wc(op, TRUE) \notin ToSet(Errors(sq[q], rq[q]))
      BY <1>1, GoodSets
    <3>. QED
      BY <2>2, <3>3, <3>4, <3>5 DEF Did, Good
  <2>4. CASE cq'[q] = Arrive(cq[q], Errors(sent[q] \o sq[q], rq[q]))
    <3>. DEFINE ops == sent[q] \o sq[q]
    <3>1. ops \in Seq(Opcodes)
      BY <1>1, ConcatJoins
    <3>. HIDE DEF ops
    <3>2. Errors(ops, rq[q]) \in Seq(WorkCompletions)
      BY <1>1, <3>1, ErrorsType
    <3>3. ToSet(Completions(q)') =
            ToSet(Completions(q)) \cup ToSet(Errors(ops, rq[q]))
      BY <1>1, <2>4, <3>2, CompletionsArrive DEF ops
    <3>4. Wc(op, TRUE) \notin ToSet(Errors(ops, rq[q]))
      BY <1>1, <3>1, GoodSets
    <3>. QED
      BY <2>2, <3>3, <3>4 DEF Did, Good
  <2>. QED
    BY <1>3, <2>3, <2>4 DEF Stops
<1>. QED
  BY <1>2, <1>3

LEMMA DeviceDid ==
  ASSUME TypeInv, NEW p \in Procs, Device(p),
         NEW q \in Procs, NEW op \in Opcodes \ {"RECV"}, Did(q, op)'
  PROVE  Did(q, op) \/ (q = p /\ CarryOut(p) /\ Head(sq[p]) = op)
<1>1. /\ UNCHANGED got
      /\ (CarryOut(p) /\ CarriesOut(p)) \/ Reports(p) \/ \E ps : Stops(p, ps)
  BY DeviceSteps DEF procVars
<1>2. CASE CarryOut(p) /\ CarriesOut(p)
  BY <1>1, <1>2, CarriesOutDid
<1>3. CASE Reports(p)
  BY <1>1, <1>3, ReportsDid
<1>4. CASE \E ps : Stops(p, ps)
  BY <1>1, <1>4, StopsDid
<1>. QED
  BY <1>1, <1>2, <1>3, <1>4

\* A completion of no request in an account without requests.
LEMMA NoOther ==
  ASSUME NEW o \in Seq(WorkCompletions), NEW r, NEW s, NEW ops,
         Completed(o, r, s, ops), NEW op, op # "RECV", s = 0 \/ op \notin ops
  PROVE  Wc(op, TRUE) \notin ToSet(o)
<1>1. DOMAIN o = 1 .. Len(o)
  OBVIOUS
<1>2. \A i \in 1 .. Len(o) : o[i].op = "RECV" \/ (o[i].op \in ops /\ s = 1)
  BY DEF Completed
<1>3. Wc(op, TRUE).op = op
  BY DEF Wc
<1>4. ASSUME Wc(op, TRUE) \in ToSet(o) PROVE FALSE
  <2>1. PICK i \in 1 .. Len(o) : o[i] = Wc(op, TRUE)
    BY <1>1, <1>4 DEF ToSet
  <2>2. o[i].op = op
    BY <1>3, <2>1, Zenon
  <2>3. op = "RECV" \/ (op \in ops /\ s = 1)
    BY <1>2, <2>1, <2>2, Zenon
  <2>. QED
    BY <2>3
<1>. QED
  BY <1>4

LEMMA ProgramDid ==
  ASSUME TypeInv, LedgerInv, NEW p \in Procs, ProgramStep(p),
         pc'[p] \in Working, NEW op \in Opcodes \ {"RECV"}, Did(p, op)'
  PROVE  Did(p, op) /\ pc'[p] = pc[p] /\ CallStep(p)
<1>1. /\ cq[p] \in Cqs /\ cq[p].wcs \in Seq(WorkCompletions)
      /\ got[p] \in Seq(WorkCompletions) /\ ToSet(<<>>) = {}
      /\ Completions(p) \in Seq(WorkCompletions)
  BY AccountTypes, FirstOnlyNone
<1>2. CASE CallStep(p)
  <2>1. UNCHANGED <<pc, sent>> /\ Completions(p)' = Completions(p)
    <3>1. CASE PollCq(p)
      BY <3>1, PollEffect
    <3>2. CASE GetCqEvent(p) \/ ReqNotifyCq(p) \/ WorkCompletionError(p)
      BY <3>2, CallEffect DEF Completions
    <3>. QED
      BY <1>2, <3>1, <3>2 DEF CallStep
  <2>. QED
    BY <1>2, <2>1 DEF Did, Good
<1>3. ASSUME pc[p] \in Working, Requests(pc[p], wait[p]) = 0,
             sent'[p] = sent[p], got'[p] \in {got[p], <<>>}, Result(p),
             wait[p] = "none",
             cq'[p].wcs \in {cq[p].wcs, <<>>}
      PROVE  FALSE
  <2>1. Account(p)
    BY <1>3 DEF LedgerInv, Ledger
  <2>2. sent[p] = <<>> /\ \E r : Completed(Completions(p), r, 0, {})
    BY <1>3, <2>1, NotCalling
  <2>3. got[p] = <<>>
    BY <1>3 DEF Result
  <2>4. Completions(p) = cq[p].wcs
    BY <1>1, <2>3, NoneFirst DEF Completions
  <2>5. Completions(p)' = cq'[p].wcs
    <3>1. cq'[p].wcs \in Seq(WorkCompletions)
      BY <1>1, <1>3, NoneFirst
    <3>. QED
      BY <1>3, <2>3, <3>1, NoneFirst DEF Completions
  <2>6. Wc(op, TRUE) \notin ToSet(Completions(p))
    BY <1>1, <2>2, NoOther
  <2>. QED
    BY <1>1, <1>3, <2>2, <2>4, <2>5, <2>6 DEF Did, Good
<1>4. CASE GetsReady(p)
  <2>1. pc[p] \in Working /\ wait[p] = "none"
    BY <1>4 DEF GetsReady, Working
  <2>2. Requests(pc[p], wait[p]) = 0 /\ Result(p)
    BY <2>1, OpsFacts DEF LedgerInv, Ledger
  <2>3. \A q \in NewCqs : q.wcs = <<>>
    BY DEF NewCqs, NewCq, ibv_req_notify_cq
  <2>4. cq'[p].wcs \in {cq[p].wcs, <<>>}
    BY <1>4, <2>3 DEF GetsReady
  <2>. QED
    BY <1>3, <1>4, <2>1, <2>2, <2>4 DEF GetsReady
<1>5. CASE PostsReceive(p)
  <2>1. pc[p] \in Working /\ wait[p] = "none"
    BY <1>5 DEF PostsReceive, Working
  <2>2. Requests(pc[p], wait[p]) = 0 /\ Result(p)
    BY <2>1, OpsFacts DEF LedgerInv, Ledger
  <2>. QED
    BY <1>3, <1>5, <2>1, <2>2 DEF PostsReceive
<1>6. ASSUME NEW op2 \in Opcodes, PostsOp(p, op2) PROVE FALSE
  <2>1. pc[p] \in Working /\ Ledger(p)
    BY <1>6 DEF PostsOp, LedgerInv
  <2>2. sent[p] = <<>> /\ \E r : Completed(cq[p].wcs, r, 0, {})
    BY <1>6, <2>1, PostsOpFinds
  <2>3. Wc(op, TRUE) \notin ToSet(cq[p].wcs)
    BY <1>1, <2>2, NoOther
  <2>4. sent'[p] = <<>> /\ got'[p] = <<>>
    BY <1>6, <2>2 DEF PostsOp
  <2>5. CASE cq'[p] = cq[p]
    <3>1. Completions(p)' = cq[p].wcs
      BY <1>1, <2>4, <2>5, NoneFirst DEF Completions
    <3>. QED
      BY <1>1, <2>3, <2>4, <3>1 DEF Did, Good
  <2>6. CASE cq'[p] = Arrive(cq[p], <<Wc(op2, FALSE)>>)
    <3>. DEFINE new == <<Wc(op2, FALSE)>>
    <3>1. new \in Seq(WorkCompletions)
      BY DEF Wc, WorkCompletions
    <3>7. ToSet(new) = {Wc(op2, FALSE)}
      BY ToSetOne
    <3>. HIDE DEF new
    <3>2. cq'[p].wcs = cq[p].wcs \o new
      BY <1>1, <2>6, <3>1, ArriveType DEF new
    <3>3. cq'[p].wcs \in Seq(WorkCompletions)
      BY <1>1, <3>1, <3>2, ConcatJoins
    <3>4. Completions(p)' = cq'[p].wcs
      BY <2>4, <3>3, NoneFirst DEF Completions
    <3>5. ToSet(cq'[p].wcs) = ToSet(cq[p].wcs) \cup {Wc(op2, FALSE)}
      <4>1. ToSet(cq[p].wcs \o new) = ToSet(cq[p].wcs) \cup ToSet(new)
        <5>. DEFINE old == cq[p].wcs
        <5>1. old \in Seq(WorkCompletions)
          BY <1>1
        <5>. HIDE DEF old
        <5>2. ToSet(old \o new) = ToSet(old) \cup ToSet(new)
          BY <3>1, <5>1, ToSetConcat
        <5>. QED
          BY <5>2 DEF old
      <4>. QED
        BY <3>2, <3>7, <4>1
    <3>6. Wc(op, TRUE) # Wc(op2, FALSE)
      BY DEF Wc
    <3>. QED
      BY <1>1, <2>3, <2>4, <3>4, <3>5, <3>6 DEF Did, Good
  <2>. QED
    BY <1>6, <2>5, <2>6 DEF PostsOp
<1>. QED
  BY <1>2, <1>4, <1>5, <1>6 DEF ProgramStep

-----------------------------------------------------------------------------
(* The message of a client that has written it stays in the buffer.        *)

Wrote(c) ==
  \/ printed[c] # Nothing
  \/ pc[c] = "client_read_message"
  \/ pc[c] = "client_write_message" /\ Did(c, "WRITE")

StoredInv ==
  /\ pc[Server] \in ServerBeforeSend =>
       /\ "server_buffer_mr" \notin held[Server]
       /\ buf.data = Nothing /\ printed[Server] = Nothing
  /\ \A c \in Clients : Wrote(c) => peer = c /\ buf.data = c
  /\ printed[Server] # Nothing =>
       peer \in Clients /\ pc[peer] \in Quiet /\ printed[Server] = buf.data

LEMMA PrintedType == TypeInv => printed \in [Procs -> Contents]
BY TypeParts DEF TypeInv, DataTypes

LEMMA BufferType == TypeInv => buf \in [data : Contents, len : Nat]
BY TypeParts DEF TypeInv, DataTypes

\* What a step of a client does to what it prints.
LEMMA ClientPrints ==
  ASSUME TypeInv, NEW c \in Clients, ClientStep(c) \/ KillClient(c)
  PROVE  /\ \A p \in Procs : p # c => printed'[p] = printed[p]
         /\ printed'[c] = printed[c] \/ pc[c] = "client_read_message"
<1>. USE PrintedType DEF dataVars
<1>1. CASE \/ SetupClient(c) \/ AddrResolved(c) \/ RouteResolved(c)
           \/ setup_protection_domain(c) \/ create_completion_channel(c)
           \/ create_completion_queue(c) \/ setup_queue_pairs(c)
           \/ ClientPostsRecv(c) \/ connect_to_server(c) \/ ClientEstablished(c)
  BY <1>1 DEF SetupClient, AddrResolved, RouteResolved, setup_protection_domain,
     create_completion_channel, create_completion_queue, setup_queue_pairs,
     ClientPostsRecv, connect_to_server, ClientEstablished
<1>2. CASE \/ exchange_metadata_with_server(c) \/ client_write_message(c)
           \/ client_read_message(c)
  BY <1>2 DEF exchange_metadata_with_server, client_write_message,
     client_read_message
<1>3. CASE ReadComplete(c)
  BY <1>3 DEF ReadComplete
<1>4. CASE RdmaEventFails(c) \/ WorkCompletionEvent(c) \/ KillClient(c)
  BY <1>4 DEF RdmaEventFails, WorkCompletionEvent, GetCqEvent, ReqNotifyCq,
     PollCq, WorkCompletionError, AwaitFailed, KillClient
<1>5. CASE cleanup_client(c)
  BY <1>5 DEF cleanup_client, Disconnect, Disconnected, NoDisconnected,
     FreePlain, DestroyQp, DestroyCq, ClientDestroysId, ClientDestroysChannel,
     Exit, Releases
<1>. QED
  BY <1>1, <1>2, <1>3, <1>4, <1>5 DEF ClientStep

\* client_read_message is entered from a wait that has ended well.
LEMMA ClientEntersRead ==
  ASSUME Domains, "errno" \notin Faults, NEW c \in Clients,
         ClientStep(c) \/ KillClient(c), pc'[c] = "client_read_message"
  PROVE  \/ pc[c] = "client_read_message"
         \/ pc[c] = "client_write_message" /\ AwaitPasses(c)
<1>. USE DEF Domains, Goto, Fail
<1>0. c \in Procs /\ c # Server
  BY ProcFacts
<1>1. CASE \/ SetupClient(c) \/ AddrResolved(c) \/ RouteResolved(c)
           \/ setup_protection_domain(c) \/ create_completion_channel(c)
           \/ create_completion_queue(c) \/ setup_queue_pairs(c)
           \/ ClientPostsRecv(c) \/ connect_to_server(c) \/ ClientEstablished(c)
  BY <1>0, <1>1 DEF SetupClient, AddrResolved, RouteResolved,
     setup_protection_domain, create_completion_channel, AllocatesOrFails,
     create_completion_queue, setup_queue_pairs, FailsPartway, FailsUnnoticed,
     ClientPostsRecv, connect_to_server, ClientEstablished
<1>2. CASE exchange_metadata_with_server(c) \/ client_write_message(c)
  BY <1>0, <1>2 DEF exchange_metadata_with_server, client_write_message,
     FailsPartway, FailsUnnoticed
<1>3. CASE client_read_message(c)
  BY <1>3 DEF client_read_message, Enters
<1>4. CASE \/ ReadComplete(c) \/ RdmaEventFails(c) \/ WorkCompletionEvent(c)
           \/ KillClient(c)
  BY <1>0, <1>4 DEF ReadComplete, RdmaEventFails, WorkCompletionEvent,
     GetCqEvent, ReqNotifyCq, PollCq, WorkCompletionError, AwaitFailed,
     KillClient, ClientDies
<1>5. CASE cleanup_client(c)
  BY <1>0, <1>5 DEF cleanup_client, Disconnect, Disconnected, NoDisconnected,
     FreePlain, DestroyQp, DestroyCq, ClientDestroysId, ClientDestroysChannel,
     Exit, Releases, ClientDies
<1>. QED
  BY <1>1, <1>2, <1>3, <1>4, <1>5 DEF ClientStep

\* What a step of the server does to its buffer and to what it prints.
ServerPrints ==
  /\ printed' = [printed EXCEPT ![Server] = buf.data] /\ UNCHANGED buf
  /\ pc'[Server] = "release" /\ ret'[Server] = 0

LEMMA ServerStores ==
  ASSUME TypeInv, ServerStep \/ KillServer
  PROVE  /\ UNCHANGED printed \/ ServerPrints
         /\ UNCHANGED buf \/ pc[Server] = "exchange_metadata_with_client"
         /\ pc'[Server] \in ServerBeforeSend =>
              /\ pc[Server] \in ServerBeforeSend /\ UNCHANGED <<buf, printed>>
              /\ "server_buffer_mr" \in held'[Server] =>
                   "server_buffer_mr" \in held[Server]
<1>. USE DomainsHold DEF Domains, Goto, Fail, Holding, dataVars, ServerPrints,
         ServerBeforeSend, ServerUnconnected
<1>0. Server \in Procs
  BY ProcFacts
<1>1. CASE SetupServer \/ ConnectRequest \/ setup_communication_resources
  BY <1>0, <1>1
  DEF FailsPartway, FailsUnnoticed, SetupServer, ConnectRequest,
      setup_communication_resources, ToSet
<1>2. CASE \/ ServerPostsRecv \/ ServerPostsToNoQp
           \/ accept_client_connection \/ ServerEstablished
  BY <1>0, <1>2
  DEF FailsPartway, ServerPostsRecv, ServerPostsToNoQp,
      accept_client_connection, ServerEstablished, ServerDies
<1>3. CASE SendServerMetadata
  BY <1>0, <1>3 DEF SendServerMetadata, FailsUnnoticed
<1>4. CASE ServerMetadataSent \/ disconnect_from_client
  BY <1>0, <1>4 DEF ServerMetadataSent, disconnect_from_client
<1>5. CASE RdmaEventFails(Server) \/ WorkCompletionEvent(Server)
  BY <1>0, <1>5 DEF RdmaEventFails, WorkCompletionEvent, GetCqEvent,
     ReqNotifyCq, PollCq, WorkCompletionError, AwaitFailed
<1>6. CASE cleanup_server \/ KillServer
  BY <1>0, <1>6 DEF cleanup_server, FreePlain, DestroyQp, DestroyCq,
     ServerDestroysClientId, ServerDestroysServerId, ServerDestroysChannel,
     Exit, Releases, KillServer, ServerDies
<1>. QED
  BY <1>1, <1>2, <1>3, <1>4, <1>5, <1>6 DEF ServerStep

\* What a step of a device does to the buffer of the server.
LEMMA DeviceStores ==
  ASSUME TypeInv, NEW p \in Procs, Device(p)
  PROVE  /\ UNCHANGED printed
         /\ UNCHANGED buf \/ (CarryOut(p) /\ Head(sq[p]) = "WRITE")
         /\ CarryOut(p) /\ Head(sq[p]) = "WRITE" =>
              /\ p \in Clients /\ peer = p /\ qp[p] = "up"
              /\ "server_buffer_mr" \in held[Server] /\ buf'.data = p
<1>1. UNCHANGED printed
  BY DEF Device, CarryOut, Completes, CannotCarryOut, AnswerLost, dataVars
<1>2. UNCHANGED buf \/ (CarryOut(p) /\ Head(sq[p]) = "WRITE")
  BY DEF Device, CarryOut, Completes, CannotCarryOut, AnswerLost, dataVars,
     CarryOutSend, CarryOutWrite, CarryOutRead
<1>3. ASSUME CarryOut(p), Head(sq[p]) = "WRITE"
      PROVE  /\ p \in Clients /\ peer = p /\ qp[p] = "up"
             /\ "server_buffer_mr" \in held[Server] /\ buf'.data = p
  <2>1. CarryOutWrite(p) /\ Linked(p) /\ AccessAllowed(p)
    BY <1>3 DEF CarryOut, CanCarryOut, CarryOutSend, CarryOutRead
  <2>2. p # Server
    <3>1. ASSUME p = Server PROVE FALSE
      <4>1. sq[p] \in Seq({"SEND"}) /\ sq[p] # <<>>
        BY <1>3, <3>1, ReadyParts DEF CarryOut
      <4>2. Head(sq[p]) = "SEND"
        BY <4>1
      <4>. QED
        BY <1>3, <4>2
    <3>. QED
      BY <3>1
  <2>3. p \in Clients
    BY <2>2 DEF Procs
  <2>4. buf'.data = p
    BY <2>1, BufferType DEF CarryOutWrite
  <2>. QED
    BY <2>1, <2>2, <2>3, <2>4 DEF Linked, AccessAllowed
<1>. QED
  BY <1>1, <1>2, <1>3

\* A step that touches nothing of what the invariant is about.
LEMMA SameStored ==
  ASSUME StoredInv, UNCHANGED <<procVars, workVars, dataVars, peer>>
  PROVE  StoredInv'
BY DEF StoredInv, Wrote, Did, Good, Completions, procVars, workVars, dataVars

LEMMA ClientWrites ==
  ASSUME Reliable, TypeInv, LedgerInv, NEW c \in Clients,
         ClientStep(c) \/ KillClient(c), NEW d \in Clients, Wrote(d)'
  PROVE  Wrote(d)
<1>1. /\ Domains /\ ProcElsewhere(c) /\ WorkElsewhere(c)
      /\ c \in Procs /\ d \in Procs
      /\ d # c => printed'[d] = printed[d]
      /\ printed'[c] = printed[c] \/ pc[c] = "client_read_message"
  BY DomainsHold, ClientElsewhere, ClientPrints, ProcFacts DEF Elsewhere
<1>2. CASE d # c
  <2>1. /\ pc'[d] = pc[d] /\ got'[d] = got[d] /\ cq'[d] = cq[d]
        /\ sent'[d] = sent[d] /\ printed'[d] = printed[d]
    BY <1>1, <1>2 DEF ProcElsewhere, WorkElsewhere
  <2>. QED
    BY <2>1 DEF Wrote, Did, Good, Completions
<1>3. CASE d = c
  <2>1. CASE printed'[c] # Nothing
    BY <1>1, <1>3, <2>1 DEF Wrote
  <2>2. CASE pc'[c] = "client_read_message"
    <3>1. \/ pc[c] = "client_read_message"
          \/ pc[c] = "client_write_message" /\ AwaitPasses(c)
      BY <1>1, <2>2, ClientEntersRead DEF Reliable
    <3>2. ASSUME pc[c] = "client_write_message", AwaitPasses(c)
          PROVE  Good(c, "WRITE")
      <4>1. pc[c] \in Working /\ Ledger(c)
        BY <1>1, <3>2 DEF Working, Requesting, LedgerInv
      <4>2. AwaitSucceeded(c)
        BY <1>1, <3>2, <4>1, Spent
      <4>. QED
        BY <1>1, <3>2, <4>2, SucceededDid
    <3>. QED
      BY <1>3, <3>1, <3>2 DEF Wrote, Did
  <2>3. CASE pc'[c] = "client_write_message" /\ Did(c, "WRITE")'
    <3>1. pc'[c] \in Working
      BY <2>3 DEF Working, Requesting
    <3>2. ProgramStep(c)
      BY ClientProgramSteps DEF Reliable
    <3>3. "WRITE" \in Opcodes \ {"RECV"}
      BY DEF Opcodes
    <3>4. Did(c, "WRITE") /\ pc'[c] = pc[c]
      BY <1>1, <2>3, <3>1, <3>2, <3>3, ProgramDid
    <3>. QED
      BY <1>3, <2>3, <3>4 DEF Wrote
  <2>. QED
    BY <1>3, <2>1, <2>2, <2>3 DEF Wrote
<1>. QED
  BY <1>2, <1>3

LEMMA ClientStored ==
  ASSUME Reliable, TypeInv, LedgerInv, StoredInv, NEW c \in Clients,
         ClientStep(c) \/ KillClient(c)
  PROVE  StoredInv'
<1>1. /\ Domains /\ ProcElsewhere(c) /\ UNCHANGED <<buf, peer>>
      /\ c \in Procs /\ Server \in Procs /\ c # Server
      /\ printed'[Server] = printed[Server]
  BY DomainsHold, ClientElsewhere, ClientPrints, ProcFacts DEF Elsewhere
<1>2. pc'[Server] = pc[Server] /\ held'[Server] = held[Server]
  BY <1>1 DEF ProcElsewhere
<1>3. ASSUME peer \in Clients, pc[peer] \in Quiet PROVE pc'[peer] \in Quiet
  <2>1. CASE peer = c
    <3>1. wait[c] = "none"
      BY <1>1, <1>3, <2>1, QuietDoesNotWait
    <3>. QED
      BY <1>1, <1>3, <2>1, <3>1, ClientStaysQuiet
  <2>2. CASE peer # c
    BY <1>1, <1>3, <2>2, ProcFacts DEF ProcElsewhere
  <2>. QED
    BY <2>1, <2>2
<1>4. \A d \in Clients : Wrote(d)' => Wrote(d)
  BY ClientWrites
<1>. QED
  BY <1>1, <1>2, <1>3, <1>4 DEF StoredInv

LEMMA ServerStored ==
  ASSUME TypeInv, StoredInv, ConnectionInv', ServerStep \/ KillServer
  PROVE  StoredInv'
<1>1. /\ Server \in Procs /\ \A c \in Clients : c \in Procs /\ c # Server
      /\ ProcElsewhere(Server) /\ WorkElsewhere(Server)
      /\ UNCHANGED peer \/ pc[Server] = "connect_request"
      /\ \A c \in Clients : c \notin {Zeros, Garbage, Nothing}
  BY DomainsHold, ServerElsewhere, ServerChooses, ProcFacts, ContentsAssumption
  DEF Elsewhere
<1>2. /\ UNCHANGED printed \/ ServerPrints
      /\ UNCHANGED buf \/ pc[Server] = "exchange_metadata_with_client"
      /\ pc'[Server] \in ServerBeforeSend =>
           /\ pc[Server] \in ServerBeforeSend /\ UNCHANGED <<buf, printed>>
           /\ "server_buffer_mr" \in held'[Server] =>
                "server_buffer_mr" \in held[Server]
  BY ServerStores
<1>3. \A c \in Clients :
        /\ pc'[c] = pc[c] /\ got'[c] = got[c] /\ cq'[c] = cq[c]
        /\ sent'[c] = sent[c] /\ printed'[c] = printed[c]
  BY <1>1, <1>2, PrintedType DEF ProcElsewhere, WorkElsewhere, ServerPrints
<1>4. \A c \in Clients : Wrote(c)' => Wrote(c)
  BY <1>3 DEF Wrote, Did, Good, Completions
<1>5. \A c \in Clients :
        Wrote(c) => pc[Server] \notin ServerBeforeSend
  BY <1>1 DEF StoredInv
<1>6. pc[Server] \notin ServerBeforeSend => UNCHANGED <<buf, peer>>
  BY <1>1, <1>2 DEF ServerBeforeSend, ServerUnconnected
<1>7. pc'[Server] \in ServerBeforeSend =>
        /\ "server_buffer_mr" \notin held'[Server]
        /\ buf'.data = Nothing /\ printed'[Server] = Nothing
  BY <1>2 DEF StoredInv
<1>8. \A c \in Clients : Wrote(c)' => peer' = c /\ buf'.data = c
  BY <1>4, <1>5, <1>6 DEF StoredInv
<1>9. ASSUME printed'[Server] # Nothing
      PROVE  peer' \in Clients /\ pc'[peer'] \in Quiet /\ printed'[Server] = buf'.data
  <2>1. CASE ServerPrints
    <3>1. peer' \in Clients /\ pc'[peer'] \in Quiet
      BY <2>1 DEF ServerPrints, ConnectionInv, ServerLink
    <3>2. printed'[Server] = buf'.data
      BY <1>1, <2>1, PrintedType DEF ServerPrints
    <3>. QED
      BY <3>1, <3>2
  <2>2. CASE UNCHANGED printed
    <3>1. /\ peer \in Clients /\ pc[peer] \in Quiet /\ printed[Server] = buf.data
          /\ pc[Server] \notin ServerBeforeSend
      BY <1>9, <2>2 DEF StoredInv
    <3>. QED
      BY <1>3, <1>6, <2>2, <3>1
  <2>. QED
    BY <1>2, <2>1, <2>2
<1>. QED
  BY <1>7, <1>8, <1>9 DEF StoredInv

LEMMA DeviceStored ==
  ASSUME TypeInv, ConnectionInv, StoredInv, NEW p \in Procs, Device(p)
  PROVE  StoredInv'
<1>. DEFINE Writes == CarryOut(p) /\ Head(sq[p]) = "WRITE"
<1>1. /\ UNCHANGED <<pc, held, peer, printed>>
      /\ UNCHANGED buf \/ Writes
      /\ Writes => /\ p \in Clients /\ peer = p /\ qp[p] = "up"
                   /\ "server_buffer_mr" \in held[Server] /\ buf'.data = p
  BY DeviceStores DEF Device, procVars, cmVars
<1>2. \A c \in Clients : Wrote(c)' => Wrote(c) \/ (c = p /\ Writes)
  <2>. SUFFICES ASSUME NEW c \in Clients, Wrote(c)'
                PROVE  Wrote(c) \/ (c = p /\ Writes)
    OBVIOUS
  <2>1. CASE printed'[c] # Nothing \/ pc'[c] = "client_read_message"
    BY <1>1, <2>1 DEF Wrote
  <2>2. CASE pc'[c] = "client_write_message" /\ Did(c, "WRITE")'
    <3>1. c \in Procs /\ "WRITE" \in Opcodes \ {"RECV"}
      BY ProcFacts DEF Opcodes
    <3>2. Did(c, "WRITE") \/ (c = p /\ Writes)
      BY <2>2, <3>1, DeviceDid
    <3>. QED
      BY <1>1, <2>2, <3>2 DEF Wrote
  <2>. QED
    BY <2>1, <2>2 DEF Wrote
<1>. HIDE DEF Writes
<1>3. Writes => pc[peer] \notin Quiet
  BY <1>1 DEF ConnectionInv, Up, Using, Quiet
<1>4. pc'[Server] \in ServerBeforeSend =>
        /\ "server_buffer_mr" \notin held'[Server]
        /\ buf'.data = Nothing /\ printed'[Server] = Nothing
  BY <1>1 DEF StoredInv
<1>5. \A c \in Clients : Wrote(c)' => peer' = c /\ buf'.data = c
  BY <1>1, <1>2 DEF StoredInv
<1>6. printed'[Server] # Nothing =>
        peer' \in Clients /\ pc'[peer'] \in Quiet /\ printed'[Server] = buf'.data
  BY <1>1, <1>3 DEF StoredInv
<1>. QED
  BY <1>4, <1>5, <1>6 DEF StoredInv

LEMMA InitStoredInv == Init => StoredInv
<1>. SUFFICES ASSUME Init PROVE StoredInv
  OBVIOUS
<1>1. /\ Server \in Procs /\ \A c \in Clients : c \in Procs /\ c # Server
  BY ProcFacts
<1>2. \A p \in Procs : pc[p] \in {"setup_client", "setup_server"} /\ printed[p] = Nothing
  BY DEF Init
<1>3. held[Server] = {} /\ buf.data = Nothing
  BY <1>1 DEF Init
<1>. QED
  BY <1>1, <1>2, <1>3 DEF StoredInv, Wrote

LEMMA NextStoredInv ==
  ASSUME Reliable, TypeInv, LedgerInv, ConnectionInv, ConnectionInv', StoredInv,
         [Next]_vars
  PROVE  StoredInv'
<1>1. ASSUME NEW c \in Clients, ClientStep(c) \/ KillClient(c) PROVE StoredInv'
  BY <1>1, ClientStored
<1>2. CASE ServerStep \/ KillServer
  BY <1>2, ServerStored
<1>3. ASSUME NEW c \in Clients, Cm(c) PROVE StoredInv'
  BY <1>3, SameStored DEF Cm
<1>4. ASSUME NEW p \in Procs, Device(p) PROVE StoredInv'
  BY <1>4, DeviceStored
<1>5. CASE UNCHANGED vars
  BY <1>5, SameStored DEF vars, cmVars
<1>. QED
  BY <1>1, <1>2, <1>3, <1>4, <1>5 DEF Next, Terminated

\* The message of a client that has written it stays in the server's buffer,
\* and what the server has printed is what its buffer contains, printed after
\* its client has left (rdma_client.c:581-635, rdma_server.c:585-607).
THEOREM StoredInvCorrect == ASSUME Reliable PROVE Spec => []StoredInv
<1>1. TypeInv /\ LedgerInv /\ ConnectionInv /\ ConnectionInv' /\ StoredInv
        /\ [Next]_vars => StoredInv'
  BY NextStoredInv
<1>. QED
  BY <1>1, InitStoredInv, TypeInvCorrect, LedgerInvCorrect,
     ConnectionInvCorrect, PTL DEF Spec

\* The server prints its buffer only when the client that reported a complete
\* read has left it there, and nothing else (rdma_server.c:604-605): whatever
\* other clients ask for, and whatever fails but what makes a call look
\* successful that was not.
THEOREM ServerSeesMessageCorrect ==
  ASSUME Reliable PROVE Spec => []ServerSeesMessage
<1>1. StoredInv => ServerSeesMessage
  BY DEF StoredInv, Wrote, ServerSeesMessage
<1>. QED
  BY <1>1, StoredInvCorrect, PTL

-----------------------------------------------------------------------------
(* The server at work has a client, and its buffer has been made for it.    *)

Serving ==
  {"setup_communication_resources", "post_metadata_recv_buffer",
   "accept_client_connection", "established", "exchange_metadata_with_client",
   "send_server_metadata", "disconnect_from_client"}

HasBuffer(l, h) ==
  "server_buffer_mr" \in h \/ l \in {"send_server_metadata", "disconnect_from_client"}

ServingInv ==
  /\ pc[Server] \in Serving => peer \in Clients /\ printed[Server] = Nothing
  /\ HasBuffer(pc[Server], held[Server]) =>
       peer \in Clients /\ buf.data \in {Zeros, peer}

\* A wait of a reliable system that lets its caller go on has succeeded.
LEMMA PassesSucceeded ==
  ASSUME TypeInv, LedgerInv, NEW p \in Procs, AwaitPasses(p)
  PROVE  AwaitSucceeded(p)
<1>1. wait[p] = "returned"
  BY DEF AwaitPasses, AwaitSucceeded
<1>2. pc[p] \in Working /\ Ledger(p)
  BY <1>1 DEF TypeInv, WaitsInCall, Awaiting, Working, Receiving, Requesting,
     LedgerInv
<1>. QED
  BY <1>2, Spent

LEMMA ServerServes ==
  ASSUME "errno" \notin Faults, TypeInv, LedgerInv, StoredInv,
         ServerStep \/ KillServer
  PROVE  /\ pc'[Server] \in Serving =>
              (pc[Server] \in Serving /\ UNCHANGED peer) \/ ConnectRequest
         /\ HasBuffer(pc'[Server], held'[Server]) =>
              \/ UNCHANGED <<buf, peer>> /\ HasBuffer(pc[Server], held[Server])
              \/ /\ pc[Server] = "exchange_metadata_with_client"
                 /\ buf'.data = Zeros /\ UNCHANGED peer
<1>. USE DomainsHold DEF Domains, Goto, Fail, Holding, dataVars, cmVars, Serving,
         HasBuffer
<1>0. Server \in Procs
  BY ProcFacts
<1>1. CASE SetupServer
  BY <1>0, <1>1, FailsWithThree DEF SetupServer, ToSet
<1>7. CASE ConnectRequest
  BY <1>0, <1>7 DEF ConnectRequest, StoredInv, ServerBeforeSend,
     ServerUnconnected
<1>8. CASE setup_communication_resources
  BY <1>0, <1>8, FailsWithThree DEF setup_communication_resources,
     FailsUnnoticed, ToSet
<1>2. CASE ServerPostsRecv
  BY <1>0, <1>2, FailsWithOne DEF ServerPostsRecv
<1>9. CASE ServerPostsToNoQp \/ accept_client_connection \/ ServerEstablished
  BY <1>0, <1>9, FailsWithNone
  DEF ServerPostsToNoQp, process_rdma_event, accept_client_connection,
      ServerEstablished, ServerDies
<1>3. CASE SendServerMetadata
  BY <1>0, <1>3 DEF SendServerMetadata, FailsUnnoticed, create_rdma_buffer,
     NoRdmaBuffer
<1>4. CASE ServerMetadataSent \/ disconnect_from_client
  BY <1>0, <1>4, PassesSucceeded DEF ServerMetadataSent, disconnect_from_client
<1>10. CASE RdmaEventFails(Server)
  <2>1. UNCHANGED <<buf, peer>> /\ pc'[Server] = "release"
    BY <1>0, <1>10 DEF RdmaEventFails
  <2>2. HasBuffer(pc'[Server], held'[Server]) => HasBuffer(pc[Server], held[Server])
    BY <1>0, <1>10, <2>1, EventFailsHolding, TypeParts DEF TypeInv
  <2>. QED
    BY <2>1, <2>2
<1>5. CASE WorkCompletionEvent(Server)
  BY <1>0, <1>5 DEF WorkCompletionEvent, GetCqEvent,
     ReqNotifyCq, PollCq, WorkCompletionError, AwaitFailed
<1>6. CASE cleanup_server \/ KillServer
  BY <1>0, <1>6 DEF cleanup_server, FreePlain, DestroyQp, DestroyCq,
     ServerDestroysClientId, ServerDestroysServerId, ServerDestroysChannel,
     Exit, Releases, KillServer, ServerDies
<1>. QED
  BY <1>1, <1>2, <1>3, <1>4, <1>5, <1>6, <1>7, <1>8, <1>9, <1>10
  DEF ServerStep

LEMMA ServerServing ==
  ASSUME "errno" \notin Faults, TypeInv, LedgerInv, StoredInv, ServingInv,
         ServerStep \/ KillServer
  PROVE  ServingInv'
<1>1. /\ pc'[Server] \in Serving =>
           (pc[Server] \in Serving /\ UNCHANGED peer) \/ ConnectRequest
      /\ HasBuffer(pc'[Server], held'[Server]) =>
           \/ UNCHANGED <<buf, peer>> /\ HasBuffer(pc[Server], held[Server])
           \/ /\ pc[Server] = "exchange_metadata_with_client"
              /\ buf'.data = Zeros /\ UNCHANGED peer
      /\ UNCHANGED printed \/ ServerPrints
  BY ServerServes, ServerStores
<1>2. ASSUME ConnectRequest
      PROVE  peer' \in Clients /\ printed[Server] = Nothing
  <2>1. channel[Server] # <<>> /\ pc[Server] = "connect_request"
    BY <1>2 DEF ConnectRequest, process_rdma_event
  <2>2. channel[Server] \in Seq(CmEvents)
    BY TypeParts, ProcFacts DEF TypeInv, CmTypes
  <2>3. Head(channel[Server]) \in CmEvents
    BY <2>1, <2>2
  <2>4. peer' \in Clients
    BY <1>2, <2>3 DEF ConnectRequest, CmEvents
  <2>. QED
    BY <2>1, <2>4 DEF StoredInv, ServerBeforeSend, ServerUnconnected
<1>3. ServerPrints => pc'[Server] \notin Serving
  BY DEF ServerPrints, Serving
<1>4. pc[Server] = "exchange_metadata_with_client" => pc[Server] \in Serving
  BY DEF Serving
<1>5. pc'[Server] \in Serving => peer' \in Clients /\ printed'[Server] = Nothing
  BY <1>1, <1>2, <1>3 DEF ServingInv
<1>6. HasBuffer(pc'[Server], held'[Server]) =>
        peer' \in Clients /\ buf'.data \in {Zeros, peer'}
  BY <1>1, <1>4 DEF ServingInv
<1>. QED
  BY <1>5, <1>6 DEF ServingInv, HasBuffer

LEMMA NextServingInv ==
  ASSUME Reliable, TypeInv, LedgerInv, StoredInv, ServingInv, [Next]_vars
  PROVE  ServingInv'
<1>. USE DEF ServingInv
<1>1. ASSUME NEW c \in Clients, ClientStep(c) \/ KillClient(c) PROVE ServingInv'
  <2>1. /\ ProcElsewhere(c) /\ UNCHANGED <<buf, peer>>
        /\ Server \in Procs /\ c # Server
    BY <1>1, DomainsHold, ClientElsewhere, ProcFacts DEF Elsewhere
  <2>2. printed'[Server] = printed[Server]
    BY <1>1, <2>1, ClientPrints
  <2>3. pc'[Server] = pc[Server] /\ held'[Server] = held[Server]
    BY <2>1 DEF ProcElsewhere
  <2>. QED
    BY <2>1, <2>2, <2>3
<1>2. CASE ServerStep \/ KillServer
  BY <1>2, ServerServing DEF Reliable
<1>3. ASSUME NEW c \in Clients, Cm(c) PROVE ServingInv'
  BY <1>3 DEF Cm, procVars, dataVars
<1>4. ASSUME NEW p \in Procs, Device(p) PROVE ServingInv'
  <2>1. /\ UNCHANGED <<pc, held, peer, printed>>
        /\ UNCHANGED buf \/ (peer = p /\ buf'.data = p)
    BY <1>4, DeviceStores DEF Device, procVars, cmVars
  <2>. QED
    BY <2>1
<1>5. CASE UNCHANGED vars
  BY <1>5 DEF vars, procVars, dataVars, cmVars
<1>. QED
  BY <1>1, <1>2, <1>3, <1>4, <1>5 DEF Next, Terminated

LEMMA InitServingInv == Init => ServingInv
BY ProcFacts DEF Init, ServingInv, Serving, HasBuffer

-----------------------------------------------------------------------------
(* A server with one client, whose waits do not fail by themselves: as long *)
(* as its queue pair is up everything it has posted has gone well.          *)

Dependable ==
  /\ Faults \cap {"errno", "get_event", "notify"} = {} /\ PollErrors = {}
  /\ \A c, d \in Clients : c = d

SoundInv ==
  /\ pc[Server] \in ServerUnconnected => ToSet(Completions(Server)) = {}
  /\ qp[Server] = "up" =>
       /\ \A w \in ToSet(Completions(Server)) : w.ok
       /\ wait[Server] = "returned" => ret[Server] = Expected(Server)

LEMMA ShrinkingCompletions ==
  ASSUME TypeInv, NEW p \in Procs, got'[p] \in {got[p], <<>>},
         cq'[p].wcs \in {cq[p].wcs, <<>>}
  PROVE  ToSet(Completions(p)') \subseteq ToSet(Completions(p))
<1>1. /\ got[p] \in Seq(WorkCompletions) /\ cq[p].wcs \in Seq(WorkCompletions)
      /\ ToSet(<<>>) = {}
  BY AccountTypes, FirstOnlyNone
<1>6. <<>> \in Seq(WorkCompletions)
  OBVIOUS
<1>2. got'[p] \in Seq(WorkCompletions) /\ cq'[p].wcs \in Seq(WorkCompletions)
  BY <1>1, <1>6
<1>. DEFINE g == got'[p]  w == cq'[p].wcs
<1>3. ToSet(g \o w) = ToSet(g) \cup ToSet(w)
  <2>1. g \in Seq(WorkCompletions) /\ w \in Seq(WorkCompletions)
    BY <1>2
  <2>. HIDE DEF g, w
  <2>. QED
    BY <2>1, ToSetConcat
<1>4. ToSet(g) \subseteq ToSet(got[p]) /\ ToSet(w) \subseteq ToSet(cq[p].wcs)
  BY <1>1
<1>5. Completions(p)' = g \o w
  BY DEF Completions
<1>. HIDE DEF g, w
<1>. QED
  BY <1>3, <1>4, <1>5, CompletionsSet

\* A call that finds only good completions ends well.
LEMMA PollSound ==
  ASSUME TypeInv, NEW p \in Procs, PollCq(p),
         \A w \in ToSet(Completions(p)) : w.ok, wait'[p] = "returned"
  PROVE  ret'[p] = Expected(p)
<1>1. /\ Domains /\ got[p] \in Seq(WorkCompletions) /\ cq[p] \in Cqs
  BY AccountTypes
<1>2. PICK n \in 1 .. Expected(p) - Len(got[p]) :
        LET wcs == got[p] \o Polled(cq[p], n)
            allGood == \A i \in DOMAIN wcs : wcs[i].ok
        IN  /\ n <= Len(cq[p].wcs)
            /\ IF Len(wcs) < Expected(p)
               THEN UNCHANGED <<wait, ret>>
               ELSE Returned(p, IF allGood THEN Len(wcs) ELSE -1)
  BY DEF PollCq
<1>. DEFINE wcs == got[p] \o Polled(cq[p], n)
            rest == ibv_poll_cq(cq[p], n).wcs
<1>3. n \in 1 .. Len(cq[p].wcs) /\ Len(got[p]) \in Nat /\ Expected(p) \in {1, 2}
  BY <1>1, <1>2, CqFields, AccountTypes DEF Expected
<1>4. /\ wcs \o rest = got[p] \o cq[p].wcs
      /\ wcs \in Seq(WorkCompletions) /\ rest \in Seq(WorkCompletions)
      /\ Len(wcs) = Len(got[p]) + n
  <2>1. wcs \o rest = got[p] \o cq[p].wcs
    BY <1>1, <1>3, PollKeeps
  <2>2. wcs \in Seq(WorkCompletions) /\ Len(wcs) = Len(got[p]) + n
    BY <1>1, <1>3, PollKeeps
  <2>3. rest \in Seq(WorkCompletions)
    <3>1. ibv_poll_cq(cq[p], n) \in Cqs
      BY <1>1, <1>3, PollType
    <3>. QED
      BY <3>1, CqFields
  <2>. QED
    BY <2>1, <2>2, <2>3
<1>5. wait[p] = "poll" /\ wait'[p] = "returned"
  BY DEF PollCq
<1>6. /\ n <= Expected(p) - Len(got[p])
      /\ IF Len(wcs) < Expected(p)
         THEN UNCHANGED <<wait, ret>>
         ELSE Returned(p, IF \A i \in DOMAIN wcs : wcs[i].ok
                          THEN Len(wcs) ELSE -1)
  <2>1. n \in 1 .. Expected(p) - Len(got[p])
    BY <1>2
  <2>2. n <= Expected(p) - Len(got[p])
    BY <1>3, <2>1
  <2>. QED
    BY <1>2, <2>2, Zenon
<1>. HIDE DEF wcs, rest
<1>7. \A i \in DOMAIN wcs : wcs[i].ok
  <2>1. ToSet(wcs \o rest) = ToSet(wcs) \cup ToSet(rest)
    <3>1. wcs \in Seq(WorkCompletions) /\ rest \in Seq(WorkCompletions)
      BY <1>4
    <3>. QED
      BY <3>1, ToSetConcat
  <2>2. Completions(p) = wcs \o rest
    BY <1>4 DEF Completions
  <2>. QED
    BY <2>1, <2>2 DEF ToSet
<1>8. Returned(p, Len(wcs)) /\ Len(wcs) = Expected(p)
  BY <1>3, <1>4, <1>5, <1>6, <1>7
<1>. QED
  BY <1>1, <1>8 DEF Returned, Domains

\* What the steps of the server leave of its completions.
LEMMA ServerKeepsSound ==
  ASSUME TypeInv, "errno" \notin Faults, ServerStep \/ KillServer
  PROVE  \/ CallStep(Server)
         \/ /\ got'[Server] \in {got[Server], <<>>}
            /\ wait'[Server] # "returned"
            /\ qp'[Server] = "up" \/ pc'[Server] \in ServerUnconnected =>
                 cq'[Server].wcs \in {cq[Server].wcs, <<>>}
            /\ qp'[Server] = "up" =>
                 qp[Server] = "up" \/ pc[Server] \in ServerUnconnected
            /\ pc'[Server] \in ServerUnconnected =>
                 pc[Server] \in ServerUnconnected
<1>. USE DomainsHold, NewCqType
     DEF Domains, Goto, Fail, Holding, workVars, ServerUnconnected
<1>0. Server \in Procs /\ (pc[Server] \notin Awaiting => wait[Server] = "none")
  BY ProcFacts, NotWaiting
<1>9. ibv_req_notify_cq(NewCq).wcs = <<>>
  BY NewCqType, NotifyType
<1>1. CASE SetupServer \/ ConnectRequest
  BY <1>0, <1>1 DEF SetupServer, FailsPartway, ConnectRequest, Awaiting
<1>2. CASE setup_communication_resources
  BY <1>0, <1>2, <1>9 DEF setup_communication_resources, FailsPartway, FailsUnnoticed,
     Awaiting
<1>3. CASE ServerPostsRecv \/ ServerPostsToNoQp
  BY <1>0, <1>3 DEF ServerPostsRecv, ServerPostsToNoQp, FailsPartway,
     FailsUnnoticed, ServerDies, Awaiting
<1>4. CASE accept_client_connection \/ ServerEstablished
  BY <1>0, <1>4 DEF accept_client_connection, FailsPartway, ServerEstablished,
     AwaitCompletions, Awaiting
<1>5. CASE SendServerMetadata
  BY <1>0, <1>5 DEF SendServerMetadata, FailsUnnoticed, AwaitCompletions,
     PostSend
<1>6. CASE ServerMetadataSent \/ disconnect_from_client
  BY <1>0, <1>6 DEF ServerMetadataSent, disconnect_from_client, Awaiting
<1>7. CASE RdmaEventFails(Server) \/ WorkCompletionEvent(Server)
  BY <1>0, <1>7 DEF RdmaEventFails, WorkCompletionEvent, AwaitFailed, CallStep
<1>8. CASE cleanup_server \/ KillServer
  BY <1>0, <1>8 DEF cleanup_server, FreePlain, DestroyQp, DestroyCq,
     ServerDestroysClientId, ServerDestroysServerId, ServerDestroysChannel,
     Exit, Releases, KillServer, ServerDies, Awaiting
<1>. QED
  BY <1>1, <1>2, <1>3, <1>4, <1>5, <1>6, <1>7, <1>8 DEF ServerStep

LEMMA CallChangesNothing ==
  ASSUME TypeInv, NEW p \in Procs, CallStep(p)
  PROVE  /\ UNCHANGED <<pc, held, sq, sent, rq, qp, dataVars, cmVars, channel, ub>>
         /\ Completions(p)' = Completions(p) /\ wait[p] # "none"
<1>1. CASE PollCq(p)
  BY <1>1, PollEffect
<1>2. CASE GetCqEvent(p) \/ ReqNotifyCq(p) \/ WorkCompletionError(p)
  <2>1. wait[p] # "none"
    BY <1>2 DEF GetCqEvent, ReqNotifyCq, WorkCompletionError
  <2>. QED
    BY <1>2, <2>1, CallEffect DEF Completions
<1>. QED
  BY <1>1, <1>2 DEF CallStep

LEMMA ServerSound ==
  ASSUME Dependable, TypeInv, SoundInv, ServerStep \/ KillServer
  PROVE  SoundInv'
<1>1. Server \in Procs /\ "errno" \notin Faults /\ Domains
  BY ProcFacts, DomainsHold DEF Dependable
<1>2. CASE CallStep(Server)
  <2>1. /\ pc' = pc /\ qp' = qp /\ Completions(Server)' = Completions(Server)
        /\ wait[Server] # "none"
    BY <1>1, <1>2, CallChangesNothing
  <2>2. pc[Server] \notin ServerUnconnected
    BY <1>1, <2>1, NotWaiting DEF Awaiting, ServerUnconnected
  <2>3. ~WorkCompletionError(Server)
    BY DEF Dependable, WorkCompletionError
  <2>4. wait'[Server] = "returned" => PollCq(Server)
    BY <1>1, <1>2, <2>3 DEF CallStep, GetCqEvent, ReqNotifyCq, Domains
  <2>5. ASSUME qp[Server] = "up", wait'[Server] = "returned"
        PROVE  ret'[Server] = Expected(Server)
    BY <1>1, <2>4, <2>5, PollSound DEF SoundInv
  <2>6. Expected(Server)' = Expected(Server)
    BY <2>1 DEF Expected
  <2>. QED
    BY <2>1, <2>2, <2>5, <2>6 DEF SoundInv
<1>3. CASE /\ got'[Server] \in {got[Server], <<>>}
           /\ wait'[Server] # "returned"
           /\ qp'[Server] = "up" \/ pc'[Server] \in ServerUnconnected =>
                cq'[Server].wcs \in {cq[Server].wcs, <<>>}
           /\ qp'[Server] = "up" =>
                qp[Server] = "up" \/ pc[Server] \in ServerUnconnected
           /\ pc'[Server] \in ServerUnconnected =>
                pc[Server] \in ServerUnconnected
  <2>1. qp'[Server] = "up" \/ pc'[Server] \in ServerUnconnected =>
          ToSet(Completions(Server)') \subseteq ToSet(Completions(Server))
    BY <1>1, <1>3, ShrinkingCompletions
  <2>. QED
    BY <1>3, <2>1 DEF SoundInv
<1>. QED
  BY <1>1, <1>2, <1>3, ServerKeepsSound

\* What a device adds to the completions of the server.
LEMMA DeviceCompletes ==
  ASSUME TypeInv, ReadyInv, NEW p \in Procs, Device(p)
  PROVE  /\ qp'[Server] = "up" => qp[Server] = "up"
         /\ pc[Server] \in ServerUnconnected => cq'[Server] = cq[Server]
         /\ \/ cq'[Server] = cq[Server]
            \/ qp'[Server] # "up"
            \/ \E op \in Opcodes :
                 cq'[Server] = Arrive(cq[Server], <<Wc(op, TRUE)>>)
<1>1. /\ Server \in Procs /\ sent[Server] \in Seq(Opcodes)
      /\ sq[Server] \in Seq(Opcodes)
      /\ pc[Server] \in ServerUnconnected =>
           qp[Server] # "up" /\ sq[Server] = <<>> /\ sent[Server] = <<>>
  BY ReadyParts DEF ReadyInv, PostedInv, ServerBeforeSend
<1>2. qp'[Server] = "up" => qp[Server] = "up"
  BY <1>1, DeviceLowersQps
<1>3. CASE CarryOut(p) /\ CarriesOut(p)
  <2>1. CASE cq'[Server] = cq[Server]
    BY <1>2, <2>1
  <2>2. CASE /\ Head(sq[p]) = "SEND" /\ Server = Remote(p)
             /\ cq'[Server] = Arrive(cq[Server], <<Wc("RECV", TRUE)>>)
    <3>1. qp[Server] = "up"
      BY <1>3, <2>2 DEF CarriesOut, CanCarryOut, Linked
    <3>. QED
      BY <1>1, <1>2, <2>2, <3>1 DEF Opcodes
  <2>. QED
    BY <1>1, <1>3, <2>1, <2>2 DEF CarriesOut
<1>4. CASE Reports(p)
  <2>1. CASE p = Server
    <3>1. Head(sent[Server]) \in Opcodes /\ sent[Server] # <<>>
      BY <1>1, <1>4, <2>1, HeadOf DEF Reports
    <3>. QED
      BY <1>1, <1>2, <1>4, <2>1, <3>1 DEF Reports
  <2>2. CASE p # Server
    BY <1>1, <1>2, <1>4, <2>2 DEF Reports
  <2>. QED
    BY <2>1, <2>2
<1>5. ASSUME NEW ps, Stops(p, ps)
      PROVE  /\ pc[Server] \in ServerUnconnected => cq'[Server] = cq[Server]
             /\ cq'[Server] = cq[Server] \/ qp'[Server] # "up"
  <2>1. CASE Server \in ps
    <3>1. qp'[Server] = "error"
      BY <1>5, <2>1 DEF Stops
    <3>2. pc[Server] \notin ServerUnconnected
      <4>1. CASE p = Server
        BY <1>1, <1>5, <4>1 DEF Stops
      <4>2. CASE p # Server
        <5>1. Linked(p)
          BY <1>5, <2>1, <4>2 DEF Stops
        <5>2. qp[Server] = "up"
          BY <4>2, <5>1 DEF Linked, Remote
        <5>. QED
          BY <1>1, <5>2
      <4>. QED
        BY <4>1, <4>2
    <3>. QED
      BY <3>1, <3>2
  <2>2. CASE Server \notin ps
    BY <1>1, <1>5, <2>2 DEF Stops
  <2>. QED
    BY <2>1, <2>2
<1>. QED
  BY <1>2, <1>3, <1>4, <1>5, DeviceSteps

LEMMA DeviceSound ==
  ASSUME TypeInv, ReadyInv, SoundInv, NEW p \in Procs, Device(p)
  PROVE  SoundInv'
<1>1. /\ Server \in Procs /\ UNCHANGED <<pc, wait, got, ret>>
      /\ cq[Server] \in Cqs
  BY ProcFacts, AccountTypes DEF Device, procVars
<1>2. /\ qp'[Server] = "up" => qp[Server] = "up"
      /\ pc[Server] \in ServerUnconnected => cq'[Server] = cq[Server]
      /\ \/ cq'[Server] = cq[Server]
         \/ qp'[Server] # "up"
         \/ \E op \in Opcodes :
              cq'[Server] = Arrive(cq[Server], <<Wc(op, TRUE)>>)
  BY DeviceCompletes
<1>3. cq'[Server] = cq[Server] => Completions(Server)' = Completions(Server)
  BY <1>1 DEF Completions
<1>4. Expected(Server)' = Expected(Server)
  BY <1>1 DEF Expected
<1>5. ASSUME NEW op \in Opcodes,
             cq'[Server] = Arrive(cq[Server], <<Wc(op, TRUE)>>)
      PROVE  \A w \in ToSet(Completions(Server)') :
               w \in ToSet(Completions(Server)) \/ w.ok
  <2>1. <<Wc(op, TRUE)>> \in Seq(WorkCompletions)
    BY WcType
  <2>2. /\ ToSet(Completions(Server)') =
             ToSet(Completions(Server)) \cup ToSet(<<Wc(op, TRUE)>>)
        /\ ToSet(<<Wc(op, TRUE)>>) = {Wc(op, TRUE)}
    BY <1>1, <1>5, <2>1, CompletionsArrive, ToSetOne
  <2>3. Wc(op, TRUE).ok
    BY DEF Wc
  <2>. QED
    BY <2>2, <2>3
<1>6. ASSUME qp'[Server] = "up"
      PROVE  \A w \in ToSet(Completions(Server)') : w.ok
  BY <1>2, <1>3, <1>5, <1>6 DEF SoundInv
<1>. QED
  BY <1>1, <1>2, <1>3, <1>4, <1>6 DEF SoundInv

LEMMA NextSoundInv ==
  ASSUME Dependable, TypeInv, ReadyInv, SoundInv, [Next]_vars
  PROVE  SoundInv'
<1>1. ASSUME UNCHANGED <<procVars, workVars>> PROVE SoundInv'
  BY <1>1 DEF procVars, workVars, SoundInv, Completions, Expected
<1>2. ASSUME NEW c \in Clients, ClientStep(c) \/ KillClient(c) PROVE SoundInv'
  <2>1. /\ Server \in Procs /\ Server # c
        /\ ProcElsewhere(c) /\ WorkElsewhere(c)
    BY <1>2, ProcFacts, DomainsHold, ClientElsewhere DEF Elsewhere
  <2>2. /\ pc'[Server] = pc[Server] /\ wait'[Server] = wait[Server]
        /\ got'[Server] = got[Server] /\ ret'[Server] = ret[Server]
        /\ cq'[Server] = cq[Server] /\ qp'[Server] = qp[Server]
    BY <2>1 DEF ProcElsewhere, WorkElsewhere
  <2>. QED
    BY <2>2 DEF SoundInv, Completions, Expected
<1>3. CASE ServerStep \/ KillServer
  BY <1>3, ServerSound
<1>4. ASSUME NEW c \in Clients, Cm(c) PROVE SoundInv'
  BY <1>1, <1>4 DEF Cm
<1>5. ASSUME NEW p \in Procs, Device(p) PROVE SoundInv'
  BY <1>5, DeviceSound
<1>6. CASE UNCHANGED vars
  BY <1>1, <1>6 DEF vars
<1>. QED
  BY <1>2, <1>3, <1>4, <1>5, <1>6 DEF Next, Terminated

LEMMA InitSoundInv == Init => SoundInv
<1>. SUFFICES ASSUME Init PROVE SoundInv
  OBVIOUS
<1>1. Server \in Procs /\ ToSet(<<>>) = {}
  BY ProcFacts, FirstOnlyNone
<1>2. got[Server] = <<>> /\ cq[Server].wcs = <<>> /\ qp[Server] = "none"
  BY <1>1 DEF Init, NewCq
<1>3. <<>> \o <<>> = <<>>
  OBVIOUS
<1>4. Completions(Server) = <<>>
  BY <1>2, <1>3 DEF Completions
<1>. QED
  BY <1>1, <1>2, <1>4 DEF SoundInv

-----------------------------------------------------------------------------
(* The events of the only client reach the server in the order in which its *)
(* functions expect them.                                                   *)

Expecting(l, s, e, c) ==
  /\ l = "setup_server" => s = "none" /\ e = <<>> /\ ~listening
  /\ l = "connect_request" =>
       \/ s = "none" /\ e = <<>>
       \/ s = "requested" /\ e = <<Ok("CONNECT_REQUEST", c)>>
  /\ l \in {"setup_communication_resources", "post_metadata_recv_buffer",
            "accept_client_connection"} => s = "requested" /\ e = <<>>
  /\ l = "established" =>
       \/ s = "accepted" /\ e = <<>>
       \/ s = "connected" /\ e = <<Ok("ESTABLISHED", c)>>
       \/ s = "parted" /\ e = <<Ok("ESTABLISHED", c), Ok("DISCONNECTED", c)>>
       \/ s = "lost" /\ e = <<Bad("FAILURE", c)>>
  /\ l \in {"exchange_metadata_with_client", "send_server_metadata",
            "disconnect_from_client"} =>
       \/ s = "connected" /\ e = <<>>
       \/ s = "parted" /\ e = <<Ok("DISCONNECTED", c)>>

EventsInv ==
  \A c \in Clients : Expecting(pc[Server], sv[c], channel[Server], c)

LEMMA ShortQueues ==
  ASSUME NEW x, NEW y
  PROVE  /\ <<x>> # <<>> /\ <<x, y>> # <<>>
         /\ Head(<<x>>) = x /\ Head(<<x, y>>) = x
         /\ Tail(<<x>>) = <<>> /\ Tail(<<x, y>>) = <<y>>
         /\ Append(<<>>, x) = <<x>> /\ Append(<<x>>, y) = <<x, y>>
<1>1. <<x>> # <<>> /\ <<x, y>> # <<>>
  OBVIOUS
<1>2. Head(<<x>>) = x /\ Head(<<x, y>>) = x
  OBVIOUS
<1>3. Tail(<<x>>) = <<>>
  OBVIOUS
<1>4. Tail(<<x, y>>) = <<y>>
  OBVIOUS
<1>5. Append(<<>>, x) = <<x>>
  OBVIOUS
<1>6. Append(<<x>>, y) = <<x, y>>
  <2>. DEFINE s == Append(<<x>>, y)  t == <<x, y>>
  <2>1. <<x>> \in Seq({x, y}) /\ t \in Seq({x, y})
    OBVIOUS
  <2>2. s \in Seq({x, y}) /\ Len(s) = 2 /\ Len(t) = 2
    OBVIOUS
  <2>3. s[1] = x /\ s[2] = y /\ t[1] = x /\ t[2] = y
    OBVIOUS
  <2>4. \A i \in 1 .. Len(s) : s[i] = t[i]
    BY <2>2, <2>3
  <2>. HIDE DEF s, t
  <2>. QED
    BY <2>1, <2>2, <2>4, SeqEqual DEF s, t
<1>. QED
  BY <1>1, <1>2, <1>3, <1>4, <1>5, <1>6

LEMMA ServerExpected ==
  ASSUME Dependable, TypeInv, ServingInv, EventsInv, ServerStep \/ KillServer
  PROVE  EventsInv'
<1>. SUFFICES ASSUME NEW c \in Clients
              PROVE  Expecting(pc[Server], sv[c], channel[Server], c)'
  BY DEF EventsInv
<1>1. /\ Server \in Procs /\ Domains
      /\ Expecting(pc[Server], sv[c], channel[Server], c)
      /\ "errno" \notin Faults
      /\ pc[Server] = "accept_client_connection" => peer = c
  BY ProcFacts, DomainsHold DEF EventsInv, Dependable, ServingInv, Serving
<1>2. ASSUME pc'[Server] \in {"release", "exited", "killed"}
      PROVE  Expecting(pc[Server], sv[c], channel[Server], c)'
  BY <1>2 DEF Expecting
<1>3. CASE SetupServer
  BY <1>1, <1>2, <1>3 DEF SetupServer, FailsPartway, Fail, Goto, Domains,
     Expecting
<1>4. CASE ConnectRequest
  BY <1>1, <1>4, ShortQueues DEF ConnectRequest, process_rdma_event, TakeEvent,
     Goto, Domains, Expecting
<1>5. CASE setup_communication_resources \/ ServerPostsRecv \/ ServerPostsToNoQp
  BY <1>1, <1>2, <1>5 DEF setup_communication_resources, ServerPostsRecv,
     ServerPostsToNoQp, ServerDies, FailsPartway, FailsUnnoticed, Fail, Goto,
     Domains, Expecting, cmVars
<1>6. CASE accept_client_connection
  BY <1>1, <1>2, <1>6 DEF accept_client_connection, FailsPartway, Fail, Goto,
     Domains, Expecting
<1>7. CASE ServerEstablished
  <2>1. /\ pc[Server] = "established" /\ IsExpected(Server, "ESTABLISHED")
        /\ channel'[Server] = Tail(channel[Server]) /\ UNCHANGED sv
        /\ pc'[Server] = "exchange_metadata_with_client"
    BY <1>1, <1>7 DEF ServerEstablished, process_rdma_event, TakeEvent, Awaited,
       Goto, Domains, cmVars
  <2>2. ~Bad("FAILURE", c).ok
    BY DEF Bad
  <2>3. \/ /\ sv[c] = "connected"
           /\ channel[Server] = <<Ok("ESTABLISHED", c)>>
        \/ /\ sv[c] = "parted"
           /\ channel[Server] = <<Ok("ESTABLISHED", c), Ok("DISCONNECTED", c)>>
        \/ /\ sv[c] = "lost"
           /\ channel[Server] = <<Bad("FAILURE", c)>>
        \/ channel[Server] = <<>>
    BY <1>1, <2>1 DEF Expecting
  <2>4. channel[Server] # <<>>
    BY <1>7 DEF ServerEstablished, process_rdma_event
  <2>5. channel[Server] # <<Bad("FAILURE", c)>>
    BY <2>1, <2>2, ShortQueues DEF IsExpected
  <2>6. /\ Tail(<<Ok("ESTABLISHED", c)>>) = <<>>
        /\ Tail(<<Ok("ESTABLISHED", c), Ok("DISCONNECTED", c)>>) =
             <<Ok("DISCONNECTED", c)>>
    BY ShortQueues
  <2>. QED
    BY <2>1, <2>3, <2>4, <2>5, <2>6 DEF Expecting
<1>8. CASE SendServerMetadata \/ ServerMetadataSent
  BY <1>1, <1>2, <1>8 DEF SendServerMetadata, ServerMetadataSent,
     FailsUnnoticed, Fail, Goto, Domains, Expecting, cmVars
<1>9. CASE disconnect_from_client \/ RdmaEventFails(Server)
  BY <1>1, <1>2, <1>9 DEF disconnect_from_client, RdmaEventFails, Fail, Goto,
     Domains
<1>10. CASE WorkCompletionEvent(Server)
  BY <1>1, <1>2, <1>10 DEF WorkCompletionEvent, GetCqEvent, ReqNotifyCq, PollCq,
     WorkCompletionError, AwaitFailed, Fail, Goto, Domains, Expecting, cmVars
<1>11. CASE cleanup_server \/ KillServer
  <2>1. pc'[Server] \in {"release", "exited", "killed"}
    BY <1>1, <1>11 DEF cleanup_server, FreePlain, DestroyQp, DestroyCq,
       ServerDestroysClientId, ServerDestroysServerId, ServerDestroysChannel,
       Exit, Releases, KillServer, ServerDies, Goto, Domains
  <2>. QED
    BY <1>2, <2>1
<1>. QED
  BY <1>3, <1>4, <1>5, <1>6, <1>7, <1>8, <1>9, <1>10, <1>11 DEF ServerStep

LEMMA CmExpected ==
  ASSUME Dependable, TypeInv, EventsInv, NEW d \in Clients, Cm(d)
  PROVE  EventsInv'
<1>. SUFFICES ASSUME NEW c \in Clients
              PROVE  Expecting(pc[Server], sv[c], channel[Server], c)'
  BY DEF EventsInv
<1>1. /\ Server \in Procs /\ Domains /\ c = d /\ c # Server /\ c \in Procs
      /\ Expecting(pc[Server], sv[c], channel[Server], c)
      /\ UNCHANGED <<pc, listening>>
  BY ProcFacts, DomainsHold DEF EventsInv, Dependable, Cm, procVars
<1>2. CASE Resolve(d) \/ Refused(d) \/ ReplyArrives(d) \/ DisconnectAnswered(d)
  <2>1. sv' = sv /\ channel'[Server] = channel[Server]
    BY <1>1, <1>2 DEF Resolve, Refused, ReplyArrives, DisconnectAnswered,
       Client, Deliver, Domains
  <2>. QED
    BY <1>1, <2>1 DEF Expecting
<1>. USE <1>1, ShortQueues DEF Domains, Deliver, Peer, Expecting
<1>3. CASE RequestArrives(d)
  BY <1>3 DEF RequestArrives
<1>4. CASE ReadyArrives(d)
  BY <1>4 DEF ReadyArrives
<1>5. CASE ReadyNeverArrives(d)
  BY <1>5 DEF ReadyNeverArrives
<1>6. CASE DisconnectArrives(d)
  <2>1. /\ Append(<<Ok("ESTABLISHED", c)>>, Ok("DISCONNECTED", c)) =
             <<Ok("ESTABLISHED", c), Ok("DISCONNECTED", c)>>
        /\ Append(<<>>, Ok("DISCONNECTED", c)) = <<Ok("DISCONNECTED", c)>>
    BY ShortQueues
  <2>. QED
    BY <1>6, <2>1 DEF DisconnectArrives
<1>. QED
  BY <1>2, <1>3, <1>4, <1>5, <1>6 DEF Cm

LEMMA NextEventsInv ==
  ASSUME Dependable, TypeInv, ServingInv, EventsInv, [Next]_vars
  PROVE  EventsInv'
<1>1. ASSUME pc'[Server] = pc[Server], channel'[Server] = channel[Server],
             UNCHANGED <<sv, listening>>
      PROVE  EventsInv'
  BY <1>1 DEF EventsInv, Expecting
<1>2. ASSUME NEW c \in Clients, ClientStep(c) \/ KillClient(c) PROVE EventsInv'
  <2>1. /\ Server \in Procs /\ Server # c /\ UNCHANGED <<sv, listening>>
        /\ ProcElsewhere(c) /\ ChannelElsewhere(c)
    BY <1>2, ProcFacts, DomainsHold, ClientElsewhere DEF Elsewhere
  <2>. QED
    BY <1>1, <2>1 DEF ProcElsewhere, ChannelElsewhere
<1>3. CASE ServerStep \/ KillServer
  BY <1>3, ServerExpected
<1>4. ASSUME NEW c \in Clients, Cm(c) PROVE EventsInv'
  BY <1>4, CmExpected
<1>5. ASSUME NEW p \in Procs, Device(p) PROVE EventsInv'
  BY <1>1, <1>5 DEF Device, procVars, cmVars
<1>6. CASE UNCHANGED vars
  BY <1>1, <1>6 DEF vars, procVars, cmVars
<1>. QED
  BY <1>2, <1>3, <1>4, <1>5, <1>6 DEF Next, Terminated

LEMMA InitEventsInv == Init => EventsInv
BY ProcFacts DEF Init, EventsInv, Expecting

-----------------------------------------------------------------------------
(* What each side has been told about the memory of the other.             *)

ToldInv ==
  /\ pc[Server] \in ServerBeforeSend =>
       /\ \A c \in Clients : meta[c] = NoMetadata
       /\ Good(Server, "RECV") =>
            peer \in Clients /\ meta[Server].length = MsgLen[peer]
  /\ \A c \in Clients :
       /\ meta[c] # NoMetadata => meta[c].key = "lkey"
       /\ ToSet(sq[c]) \cap {"WRITE", "READ"} # {} => meta[c] # NoMetadata

\* What a step of a client posts: no access to memory it was not told about.
LEMMA ClientAsks ==
  ASSUME Domains, NEW c \in Clients, ClientStep(c) \/ KillClient(c)
  PROVE  \/ sq'[c] \in {sq[c], <<>>}
         \/ \E op \in Opcodes :
              /\ sq'[c] = Append(sq[c], op)
              /\ op \in {"WRITE", "READ"} => meta[c] # NoMetadata
<1>. USE DEF Domains, workVars
<1>0. c \in Procs /\ c # Server
  BY ProcFacts
<1>1. CASE \/ SetupClient(c) \/ AddrResolved(c) \/ RouteResolved(c)
           \/ setup_protection_domain(c) \/ create_completion_channel(c)
           \/ create_completion_queue(c) \/ setup_queue_pairs(c)
           \/ ClientPostsRecv(c) \/ connect_to_server(c) \/ ClientEstablished(c)
  BY <1>1 DEF SetupClient, AddrResolved, RouteResolved,
     setup_protection_domain, create_completion_channel,
     create_completion_queue, setup_queue_pairs, ClientPostsRecv,
     connect_to_server, ClientEstablished
<1>2. CASE exchange_metadata_with_server(c)
  BY <1>0, <1>2 DEF exchange_metadata_with_server, PostSend, Opcodes
<1>3. CASE client_write_message(c) \/ client_read_message(c)
  BY <1>0, <1>3 DEF client_write_message, client_read_message, PostRdma,
     PostSend, Opcodes
<1>4. CASE \/ ReadComplete(c) \/ RdmaEventFails(c) \/ WorkCompletionEvent(c)
           \/ KillClient(c)
  BY <1>0, <1>4 DEF ReadComplete, RdmaEventFails, WorkCompletionEvent,
     GetCqEvent, ReqNotifyCq, PollCq, WorkCompletionError, AwaitFailed,
     KillClient, ClientDies
<1>5. CASE cleanup_client(c)
  BY <1>0, <1>5 DEF cleanup_client, Disconnect, QpsToError, Disconnected,
     NoDisconnected, FreePlain, DestroyQp, DestroyCq, ClientDestroysId,
     ClientDestroysChannel, Exit, Releases, ClientDies
<1>. QED
  BY <1>1, <1>2, <1>3, <1>4, <1>5 DEF ClientStep

LEMMA ClientTold ==
  ASSUME TypeInv, ToldInv, NEW c \in Clients, ClientStep(c) \/ KillClient(c)
  PROVE  ToldInv'
<1>1. /\ Server \in Procs /\ Server # c /\ c \in Procs /\ Domains
      /\ ProcElsewhere(c) /\ WorkElsewhere(c) /\ UNCHANGED <<meta, peer>>
      /\ \A d \in Clients : d \in Procs
      /\ sq[c] \in Seq(Opcodes) /\ ToSet(<<>>) = {}
  BY ProcFacts, DomainsHold, ClientElsewhere, AccountTypes, FirstOnlyNone
  DEF Elsewhere
<1>2. /\ pc'[Server] = pc[Server] /\ got'[Server] = got[Server]
      /\ cq'[Server] = cq[Server]
      /\ \A d \in Clients : d # c => sq'[d] = sq[d]
  BY <1>1 DEF ProcElsewhere, WorkElsewhere
<1>3. ToSet(sq'[c]) \cap {"WRITE", "READ"} # {} => meta[c] # NoMetadata
  <2>1. CASE sq'[c] \in {sq[c], <<>>}
    BY <1>1, <2>1 DEF ToldInv
  <2>2. ASSUME NEW op \in Opcodes, sq'[c] = Append(sq[c], op),
               op \in {"WRITE", "READ"} => meta[c] # NoMetadata
        PROVE  ToSet(sq'[c]) \cap {"WRITE", "READ"} # {} => meta[c] # NoMetadata
    <3>1. ToSet(sq'[c]) = ToSet(sq[c]) \cup {op}
      BY <1>1, <2>2, ToSetAppend
    <3>. QED
      BY <2>2, <3>1 DEF ToldInv
  <2>. QED
    BY <1>1, <2>1, <2>2, ClientAsks
<1>. QED
  BY <1>1, <1>2, <1>3 DEF ToldInv, Good, Completions

\* Before it sends its metadata the server only takes completions.
LEMMA ServerTakes ==
  ASSUME TypeInv, ServerStep \/ KillServer, pc'[Server] \in ServerBeforeSend
  PROVE  ToSet(Completions(Server)') \subseteq ToSet(Completions(Server))
<1>1. Server \in Procs /\ Domains /\ ServerGetsOn
  BY ProcFacts, DomainsHold, ServerBeforeSteps
<1>2. CASE CallStep(Server)
  BY <1>1, <1>2, CallChangesNothing
<1>3. CASE /\ got'[Server] \in {got[Server], <<>>}
           /\ cq'[Server] \in {cq[Server], ibv_req_notify_cq(NewCq)}
  <2>1. ibv_req_notify_cq(NewCq).wcs = <<>>
    BY NewCqType, NotifyType
  <2>2. cq'[Server].wcs \in {cq[Server].wcs, <<>>}
    BY <1>3, <2>1
  <2>. QED
    BY <1>1, <1>3, <2>2, ShrinkingCompletions
<1>. QED
  BY <1>1, <1>2, <1>3 DEF ServerGetsOn, CallStep

LEMMA ServerTold ==
  ASSUME TypeInv, SoundInv, ToldInv, ServerStep \/ KillServer
  PROVE  ToldInv'
<1>1. /\ Server \in Procs /\ Domains /\ WorkElsewhere(Server) /\ UNCHANGED meta
      /\ \A c \in Clients : c \in Procs /\ c # Server
      /\ UNCHANGED peer \/ pc[Server] = "connect_request"
      /\ pc'[Server] \in ServerBeforeSend => pc[Server] \in ServerBeforeSend
  BY ProcFacts, DomainsHold, ServerElsewhere, ServerChooses, ServerStores
  DEF Elsewhere
<1>2. \A c \in Clients : sq'[c] = sq[c]
  BY <1>1 DEF WorkElsewhere
<1>3. ASSUME pc'[Server] \in ServerBeforeSend, Good(Server, "RECV")'
      PROVE  peer' \in Clients /\ meta'[Server].length = MsgLen[peer']
  <2>1. ToSet(Completions(Server)') \subseteq ToSet(Completions(Server))
    BY <1>3, ServerTakes
  <2>2. Good(Server, "RECV")
    BY <1>3, <2>1 DEF Good
  <2>3. pc[Server] # "connect_request"
    BY <2>2 DEF Good, SoundInv, ServerUnconnected
  <2>. QED
    BY <1>1, <1>3, <2>2, <2>3 DEF ToldInv
<1>. QED
  BY <1>1, <1>2, <1>3 DEF ToldInv

\* What a step of a device tells, and to whom.
Tells(p) == CarryOut(p) /\ Head(sq[p]) = "SEND"

LEMMA DeviceTells ==
  ASSUME TypeInv, NEW p \in Procs, Device(p)
  PROVE  IF Tells(p)
         THEN /\ Linked(p) /\ sq[p] # <<>>
              /\ meta' = [meta EXCEPT ![Remote(p)] = MetadataOf(p)]
              /\ Remote(p) \in Procs
              /\ p = Server \/ (p \in Clients /\ peer = p /\ Remote(p) = Server)
              /\ p = Server => Remote(p) = peer
         ELSE UNCHANGED meta
<1>1. CASE Tells(p)
  <2>1. Linked(p) /\ sq[p] # <<>> /\ CarryOutSend(p)
    BY <1>1 DEF Tells, CarryOut, CanCarryOut, CarryOutWrite, CarryOutRead
  <2>2. Remote(p) \in Procs
    BY <2>1, RemoteType, TypeParts DEF TypeInv
  <2>. QED
    BY <1>1, <2>1, <2>2 DEF CarryOutSend, Linked, Remote, Procs
<1>2. CASE ~Tells(p)
  BY <1>2 DEF Tells, Device, CarryOut, CarryOutSend, CarryOutWrite,
     CarryOutRead, Completes, CannotCarryOut, AnswerLost, dataVars
<1>. QED
  BY <1>1, <1>2

LEMMA DeviceReceives ==
  ASSUME TypeInv, ReadyInv, NEW p \in Procs, Device(p),
         pc[Server] \in ServerBeforeSend, Good(Server, "RECV")'
  PROVE  \/ Good(Server, "RECV")
         \/ Tells(p) /\ Remote(p) = Server
<1>1. /\ Server \in Procs /\ UNCHANGED got /\ sent[Server] = <<>>
      /\ ToSet(<<>>) = {} /\ "RECV" \in Opcodes /\ Did(Server, "RECV")'
  BY ProcFacts, FirstOnlyNone DEF Device, procVars, ReadyInv, PostedInv, Opcodes,
     Did
<1>2. Did(Server, "RECV") => Good(Server, "RECV")
  BY <1>1 DEF Did
<1>3. CASE CarryOut(p) /\ CarriesOut(p)
  <2>1. CASE cq'[Server] = cq[Server]
    BY <1>1, <2>1 DEF Good, Completions
  <2>. QED
    BY <1>1, <1>3, <2>1 DEF CarriesOut, Tells
<1>4. CASE Reports(p)
  BY <1>1, <1>2, <1>4, ReportsDid
<1>5. CASE \E ps : Stops(p, ps)
  BY <1>1, <1>2, <1>5, StopsDid
<1>. QED
  BY <1>3, <1>4, <1>5, DeviceSteps

\* A device takes requests from the queues and adds none.
LEMMA DeviceTakes ==
  ASSUME TypeInv, NEW p \in Procs, Device(p), NEW q \in Procs
  PROVE  ToSet(sq'[q]) \subseteq ToSet(sq[q])
<1>1. sq[q] \in Seq(Opcodes) /\ ToSet(<<>>) = {}
  BY AccountTypes, FirstOnlyNone
<1>2. sq'[q] \in {sq[q], <<>>} \/ (sq[q] # <<>> /\ sq'[q] = Tail(sq[q]))
  BY DeviceSteps DEF CarriesOut, Reports, Stops
<1>. QED
  BY <1>1, <1>2, ToSetTail

LEMMA DeviceTold ==
  ASSUME TypeInv, ReadyInv, ToldInv, NEW p \in Procs, Device(p)
  PROVE  ToldInv'
<1>1. /\ Server \in Procs /\ \A c \in Clients : c \in Procs /\ c # Server
      /\ UNCHANGED <<pc, peer>> /\ meta \in [Procs -> Metadata]
      /\ \A c \in Clients : ToSet(sq'[c]) \subseteq ToSet(sq[c])
      /\ pc[Server] \in ServerBeforeSend => sq[Server] = <<>>
  BY ProcFacts, DeviceTakes, TypeParts
  DEF Device, procVars, cmVars, TypeInv, DataTypes, ReadyInv, PostedInv
<1>2. MetadataOf(p).key = "lkey" /\ MetadataOf(p) # NoMetadata
      /\ (p \in Clients => MetadataOf(p).length = MsgLen[p])
  BY <1>1 DEF MetadataOf, NoMetadata
<1>3. CASE ~Tells(p)
  <2>1. UNCHANGED meta
    BY <1>3, DeviceTells
  <2>2. pc[Server] \in ServerBeforeSend /\ Good(Server, "RECV")' =>
          Good(Server, "RECV")
    BY <1>3, DeviceReceives
  <2>. QED
    BY <1>1, <2>1, <2>2 DEF ToldInv
<1>4. CASE Tells(p)
  <2>1. /\ Linked(p) /\ sq[p] # <<>>
        /\ meta' = [meta EXCEPT ![Remote(p)] = MetadataOf(p)]
        /\ Remote(p) \in Procs
        /\ p = Server \/ (p \in Clients /\ peer = p /\ Remote(p) = Server)
        /\ p = Server => Remote(p) = peer
    BY <1>4, DeviceTells
  <2>2. CASE p = Server
    <3>1. pc[Server] \notin ServerBeforeSend /\ Remote(p) = peer
      BY <1>1, <2>1, <2>2
    <3>. QED
      BY <1>1, <1>2, <2>1, <3>1 DEF ToldInv
  <2>3. CASE p \in Clients /\ peer = p /\ Remote(p) = Server
    <3>1. /\ meta'[Server] = MetadataOf(p)
          /\ \A c \in Clients : meta'[c] = meta[c]
      BY <1>1, <2>1, <2>3
    <3>. QED
      BY <1>1, <1>2, <2>3, <3>1 DEF ToldInv
  <2>. QED
    BY <2>1, <2>2, <2>3
<1>. QED
  BY <1>3, <1>4

LEMMA NextToldInv ==
  ASSUME TypeInv, ReadyInv, SoundInv, ToldInv, [Next]_vars
  PROVE  ToldInv'
<1>1. ASSUME UNCHANGED <<procVars, workVars, meta, peer>> PROVE ToldInv'
  BY <1>1 DEF procVars, workVars, ToldInv, Good, Completions
<1>2. ASSUME NEW c \in Clients, ClientStep(c) \/ KillClient(c) PROVE ToldInv'
  BY <1>2, ClientTold
<1>3. CASE ServerStep \/ KillServer
  BY <1>3, ServerTold
<1>4. ASSUME NEW c \in Clients, Cm(c) PROVE ToldInv'
  BY <1>1, <1>4 DEF Cm, dataVars
<1>5. ASSUME NEW p \in Procs, Device(p) PROVE ToldInv'
  BY <1>5, DeviceTold
<1>6. CASE UNCHANGED vars
  BY <1>1, <1>6 DEF vars, dataVars, cmVars
<1>. QED
  BY <1>2, <1>3, <1>4, <1>5, <1>6 DEF Next, Terminated

LEMMA InitToldInv == Init => ToldInv
<1>. SUFFICES ASSUME Init PROVE ToldInv
  OBVIOUS
<1>1. /\ Server \in Procs /\ \A c \in Clients : c \in Procs
      /\ ToSet(<<>>) = {}
  BY ProcFacts, FirstOnlyNone
<1>2. SoundInv /\ pc[Server] = "setup_server"
  BY <1>1, InitSoundInv DEF Init
<1>3. ~Good(Server, "RECV")
  BY <1>2 DEF SoundInv, ServerUnconnected, Good
<1>4. \A c \in Clients : meta[c] = NoMetadata /\ sq[c] = <<>>
  BY <1>1 DEF Init
<1>. QED
  BY <1>1, <1>3, <1>4 DEF ToldInv

-----------------------------------------------------------------------------
(* The buffer that the server has told its client about is there as long as *)
(* the client can use it.                                                   *)

\* The client c has been told, or is about to be, and has not left.
Promised(c) ==
  /\ qp[Server] = "up" /\ peer = c /\ pc[c] \notin Quiet
  /\ meta[c] # NoMetadata \/ sq[Server] # <<>>

Kept(c) ==
  /\ pc[Server] \in {"send_server_metadata", "disconnect_from_client"}
  /\ {"server_buffer", "server_buffer_mr"} \subseteq held[Server]
  /\ buf.len = MsgLen[c]

ServedInv == \A c \in Clients : Promised(c) => Kept(c)

\* The server posts its SEND once it has the buffer.
LEMMA ServerPromises ==
  ASSUME TypeInv, ServerStep \/ KillServer
  PROVE  \/ sq'[Server] \in {sq[Server], <<>>}
         \/ /\ pc[Server] = "exchange_metadata_with_client"
            /\ AwaitSucceeded(Server) /\ pc'[Server] = "send_server_metadata"
            /\ {"server_buffer", "server_buffer_mr"} \subseteq held'[Server]
            /\ buf'.len = meta[Server].length /\ UNCHANGED peer
<1>. USE DomainsHold DEF Domains, Goto, Fail, Holding, workVars
<1>0. Server \in Procs
  BY ProcFacts
<1>1. CASE SendServerMetadata
  BY <1>0, <1>1 DEF SendServerMetadata, create_rdma_buffer, PostSend, cmVars
<1>2. CASE \/ SetupServer \/ ConnectRequest \/ setup_communication_resources
           \/ ServerPostsRecv \/ ServerPostsToNoQp \/ accept_client_connection
           \/ ServerEstablished \/ ServerMetadataSent \/ disconnect_from_client
  BY <1>0, <1>2 DEF SetupServer, ConnectRequest, setup_communication_resources,
     ServerPostsRecv, ServerPostsToNoQp, ServerDies, accept_client_connection,
     ServerEstablished, ServerMetadataSent, disconnect_from_client
<1>3. CASE RdmaEventFails(Server) \/ WorkCompletionEvent(Server)
  BY <1>0, <1>3 DEF RdmaEventFails, WorkCompletionEvent, GetCqEvent,
     ReqNotifyCq, PollCq, WorkCompletionError, AwaitFailed
<1>4. CASE cleanup_server \/ KillServer
  BY <1>0, <1>4 DEF cleanup_server, FreePlain, DestroyQp, DestroyCq,
     ServerDestroysClientId, ServerDestroysServerId, ServerDestroysChannel,
     Exit, Releases, KillServer, ServerDies
<1>. QED
  BY <1>1, <1>2, <1>3, <1>4 DEF ServerStep

\* Nothing but the end of the connection makes the server go on to cleanup.
LEMMA ServerStays ==
  ASSUME Dependable, TypeInv, SoundInv, EventsInv, ConnectionInv,
         ServerStep \/ KillServer,
         pc[Server] \in {"send_server_metadata", "disconnect_from_client"},
         qp[Server] = "up", qp'[Server] = "up",
         peer \in Clients, pc[peer] \notin Quiet
  PROVE  /\ pc'[Server] \in {"send_server_metadata", "disconnect_from_client"}
         /\ UNCHANGED <<held, buf>>
<1>1. Server \in Procs /\ Domains
  BY ProcFacts, DomainsHold
<1>2. \/ CallStep(Server) \/ AwaitFailed(Server) \/ ServerMetadataSent
      \/ disconnect_from_client \/ RdmaEventFails(Server)
  <2>1. ~KillServer
    BY <1>1 DEF KillServer, ServerDies, Domains
  <2>2. ~cleanup_server
    BY DEF cleanup_server, FreePlain, DestroyQp, DestroyCq,
       ServerDestroysClientId, ServerDestroysServerId, ServerDestroysChannel,
       Exit, Releases
  <2>. QED
    BY <2>1, <2>2 DEF ServerStep, SetupServer, ConnectRequest,
       setup_communication_resources, ServerPostsRecv, ServerPostsToNoQp,
       accept_client_connection, ServerEstablished, SendServerMetadata,
       WorkCompletionEvent, CallStep
<1>3. CASE CallStep(Server)
  BY <1>1, <1>3, CallChangesNothing DEF dataVars
<1>4. ~AwaitFailed(Server)
  BY DEF AwaitFailed, AwaitPasses, AwaitSucceeded, SoundInv
<1>5. CASE ServerMetadataSent
  BY <1>1, <1>5 DEF ServerMetadataSent, Goto, Domains, dataVars
<1>6. channel[Server] \in {<<>>, <<Ok("DISCONNECTED", peer)>>}
  BY DEF EventsInv, Expecting
<1>7. ~disconnect_from_client
  <2>1. channel[Server] = <<Ok("DISCONNECTED", peer)>> =>
          Ok("DISCONNECTED", peer) \in ToSet(channel[Server])
    BY ToSetOne
  <2>2. /\ Ok("DISCONNECTED", peer).ok
        /\ Ok("DISCONNECTED", peer).type = "DISCONNECTED"
    BY DEF Ok
  <2>3. channel[Server] # <<Ok("DISCONNECTED", peer)>>
    BY <2>1, <2>2 DEF ConnectionInv, Ends
  <2>. QED
    BY <1>6, <2>3 DEF disconnect_from_client, process_rdma_event
<1>8. ~RdmaEventFails(Server)
  <2>1. CASE channel[Server] = <<>>
    BY <2>1 DEF RdmaEventFails, Dependable
  <2>2. CASE channel[Server] = <<Ok("DISCONNECTED", peer)>>
    <3>1. Head(channel[Server]) = Ok("DISCONNECTED", peer)
      BY <2>2, ShortQueues
    <3>2. IsExpected(Server, "DISCONNECTED")
      BY <3>1 DEF IsExpected, Ok
    <3>3. pc[Server] \in DOMAIN Awaited => Awaited[pc[Server]] = "DISCONNECTED"
      BY DEF Awaited
    <3>. QED
      BY <3>2, <3>3 DEF RdmaEventFails, Dependable
  <2>. QED
    BY <1>6, <2>1, <2>2
<1>. QED
  BY <1>2, <1>3, <1>4, <1>5, <1>7, <1>8

LEMMA ServerServed ==
  ASSUME Dependable, TypeInv, LedgerInv, ReadyInv, SoundInv, EventsInv,
         ConnectionInv, ToldInv, ServedInv, ServerStep \/ KillServer
  PROVE  ServedInv'
<1>. SUFFICES ASSUME NEW c \in Clients, Promised(c)'
              PROVE  Kept(c)'
  BY DEF ServedInv
<1>1. /\ Server \in Procs /\ Domains /\ c \in Procs /\ c # Server
      /\ ProcElsewhere(Server) /\ UNCHANGED meta
      /\ UNCHANGED peer \/ pc[Server] = "connect_request"
  BY ProcFacts, DomainsHold, ServerElsewhere, ServerChooses DEF Elsewhere
<1>2. /\ qp'[Server] = "up" /\ peer' = c /\ pc[c] \notin Quiet
      /\ meta[c] # NoMetadata \/ sq'[Server] # <<>>
  BY <1>1 DEF Promised, ProcElsewhere
<1>3. CASE /\ pc[Server] = "exchange_metadata_with_client"
           /\ AwaitSucceeded(Server) /\ pc'[Server] = "send_server_metadata"
           /\ {"server_buffer", "server_buffer_mr"} \subseteq held'[Server]
           /\ buf'.len = meta[Server].length /\ UNCHANGED peer
  <2>1. Good(Server, "RECV")
    BY <1>1, <1>3, SucceededDid
  <2>2. meta[Server].length = MsgLen[c]
    BY <1>2, <1>3, <2>1 DEF ToldInv, ServerBeforeSend
  <2>. QED
    BY <1>3, <2>2 DEF Kept
<1>4. CASE sq'[Server] \in {sq[Server], <<>>}
  <2>1. meta[c] # NoMetadata \/ sq[Server] # <<>>
    BY <1>2, <1>4
  <2>2. pc[Server] \notin ServerBeforeSend
    BY <2>1 DEF ToldInv, ReadyInv, PostedInv
  <2>3. UNCHANGED peer /\ pc[Server] \notin ServerUnconnected
    BY <1>1, <2>2 DEF ServerBeforeSend, ServerUnconnected
  <2>4. qp[Server] = "up"
    <3>1. "errno" \notin Faults
      BY DEF Dependable
    <3>2. CallStep(Server) => qp' = qp
      BY <1>1, CallChangesNothing
    <3>. QED
      BY <1>2, <2>3, <3>1, <3>2, ServerKeepsSound
  <2>5. Kept(c)
    BY <1>2, <2>1, <2>3, <2>4 DEF ServedInv, Promised
  <2>6. /\ pc'[Server] \in {"send_server_metadata", "disconnect_from_client"}
        /\ UNCHANGED <<held, buf>>
    BY <1>2, <2>3, <2>4, <2>5, ServerStays DEF Kept
  <2>. QED
    BY <2>5, <2>6 DEF Kept
<1>. QED
  BY <1>3, <1>4, ServerPromises

LEMMA ClientServed ==
  ASSUME TypeInv, ServedInv, NEW c \in Clients, ClientStep(c) \/ KillClient(c)
  PROVE  ServedInv'
<1>. SUFFICES ASSUME NEW d \in Clients, Promised(d)'
              PROVE  Kept(d)'
  BY DEF ServedInv
<1>1. /\ Server \in Procs /\ Domains /\ Server # c /\ d \in Procs
      /\ ProcElsewhere(c) /\ WorkElsewhere(c) /\ UNCHANGED <<meta, buf, peer>>
  BY ProcFacts, DomainsHold, ClientElsewhere DEF Elsewhere
<1>2. /\ pc'[Server] = pc[Server] /\ held'[Server] = held[Server]
      /\ qp'[Server] = qp[Server] /\ sq'[Server] = sq[Server]
  BY <1>1 DEF ProcElsewhere, WorkElsewhere
<1>3. pc[d] \in Quiet => pc'[d] \in Quiet
  <2>1. CASE d = c
    BY <1>1, <2>1, QuietDoesNotWait, ClientStaysQuiet
  <2>2. CASE d # c
    BY <1>1, <2>2 DEF ProcElsewhere
  <2>. QED
    BY <2>1, <2>2
<1>. QED
  BY <1>1, <1>2, <1>3 DEF ServedInv, Promised, Kept

LEMMA DeviceServed ==
  ASSUME TypeInv, ServedInv, NEW p \in Procs, Device(p)
  PROVE  ServedInv'
<1>. SUFFICES ASSUME NEW c \in Clients, Promised(c)'
              PROVE  Kept(c)'
  BY DEF ServedInv
<1>1. /\ Server \in Procs /\ c \in Procs /\ c # Server
      /\ UNCHANGED <<pc, held, peer>>
      /\ meta \in [Procs -> Metadata]
      /\ qp'[Server] = "up" => qp[Server] = "up"
  BY ProcFacts, DeviceLowersQps, TypeParts
  DEF Device, procVars, cmVars, TypeInv, DataTypes
<1>2. sq'[Server] # <<>> => sq[Server] # <<>>
  BY <1>1, DeviceSteps DEF CarriesOut, Reports, Stops
<1>3. meta'[c] # NoMetadata => meta[c] # NoMetadata \/ sq[Server] # <<>>
  <2>1. CASE Tells(p)
    BY <1>1, <2>1, DeviceTells
  <2>2. CASE ~Tells(p)
    BY <2>2, DeviceTells
  <2>. QED
    BY <2>1, <2>2
<1>4. buf'.len = buf.len
  BY BufferType DEF Device, CarryOut, CarryOutSend, CarryOutWrite,
     CarryOutRead, Completes, CannotCarryOut, AnswerLost, dataVars
<1>. QED
  BY <1>1, <1>2, <1>3, <1>4 DEF ServedInv, Promised, Kept

LEMMA NextServedInv ==
  ASSUME Dependable, TypeInv, LedgerInv, ReadyInv, SoundInv, EventsInv,
         ConnectionInv, ToldInv, ServedInv, [Next]_vars
  PROVE  ServedInv'
<1>1. ASSUME UNCHANGED <<procVars, workVars, dataVars, peer>> PROVE ServedInv'
  BY <1>1 DEF procVars, workVars, dataVars, ServedInv, Promised, Kept
<1>2. ASSUME NEW c \in Clients, ClientStep(c) \/ KillClient(c) PROVE ServedInv'
  BY <1>2, ClientServed
<1>3. CASE ServerStep \/ KillServer
  BY <1>3, ServerServed
<1>4. ASSUME NEW c \in Clients, Cm(c) PROVE ServedInv'
  BY <1>1, <1>4 DEF Cm
<1>5. ASSUME NEW p \in Procs, Device(p) PROVE ServedInv'
  BY <1>5, DeviceServed
<1>6. CASE UNCHANGED vars
  BY <1>1, <1>6 DEF vars, cmVars
<1>. QED
  BY <1>2, <1>3, <1>4, <1>5, <1>6 DEF Next, Terminated

LEMMA InitServedInv == Init => ServedInv
BY ProcFacts DEF Init, ServedInv, Promised

-----------------------------------------------------------------------------
(* The invariant of the exchange as a whole.                               *)

ExchangeInv ==
  /\ ReadyInv /\ ServingInv /\ SoundInv /\ EventsInv /\ ToldInv /\ ServedInv

LEMMA DependableReliable ==
  Dependable => Reliable /\ Faults \cap {"errno", "notify"} = {}
BY DEF Dependable, Reliable

\* While the only client waits for its accesses, what it was told about the
\* server's buffer stays true, whatever fails at the other side, on the wire
\* and in the calls that start something (rdma_server.c:490-515, 585-607).
THEOREM ExchangeInvCorrect == ASSUME Dependable PROVE Spec => []ExchangeInv
<1>0. Reliable /\ "errno" \notin Faults
  BY DependableReliable DEF Reliable
<1>1. Init => ExchangeInv
  BY InitReadyInv, InitServingInv, InitSoundInv, InitEventsInv, InitToldInv,
     InitServedInv DEF ExchangeInv
<1>2. TypeInv /\ LedgerInv /\ ConnectionInv /\ StoredInv /\ ExchangeInv
        /\ [Next]_vars => ExchangeInv'
  BY <1>0, NextReadyInv, NextServingInv, NextSoundInv, NextEventsInv,
     NextToldInv, NextServedInv DEF ExchangeInv
<1>3. Spec => []LedgerInv /\ []StoredInv
  BY <1>0, LedgerInvCorrect, StoredInvCorrect
<1>. QED
  BY <1>1, <1>2, <1>3, TypeInvCorrect, ConnectionInvCorrect, PTL DEF Spec

\* A request to access the buffer that finds both queue pairs up finds the
\* buffer as its client was told.
LEMMA AccessFinds ==
  ASSUME TypeInv, ConnectionInv, ExchangeInv, NEW c \in Clients, Linked(c),
         sq[c] # <<>>, Head(sq[c]) \in {"WRITE", "READ"}
  PROVE  Kept(c) /\ meta[c].key = "lkey"
<1>1. /\ c \in Procs /\ c # Server /\ peer = c
      /\ qp[c] = "up" /\ qp[Server] = "up"
  BY ProcFacts DEF Linked, Remote
<1>2. meta[c] # NoMetadata /\ meta[c].key = "lkey"
  <2>1. sq[c] \in Seq(Opcodes)
    BY <1>1, ReadyParts
  <2>2. Head(sq[c]) \in ToSet(sq[c])
    BY <2>1, HeadOf
  <2>. QED
    BY <2>2 DEF ExchangeInv, ToldInv
<1>3. pc[c] \notin Quiet
  BY <1>1 DEF ConnectionInv, Up, Using, Quiet
<1>. QED
  BY <1>1, <1>2, <1>3 DEF ExchangeInv, ServedInv, Promised

\* A WRITE or READ that is to be carried out is allowed by the region it goes
\* to, in length and key: with one client, a device whose keys coincide, and
\* no wait of the server that fails by itself (rdma_client.c:601-602,
\* 691-692; rdma_server.c:490-515).
THEOREM RemoteAccessValidCorrect ==
  ASSUME Dependable, KeysCoincide = TRUE PROVE Spec => []RemoteAccessValid
<1>1. TypeInv /\ ConnectionInv /\ ExchangeInv => RemoteAccessValid
  <2>. SUFFICES ASSUME TypeInv, ConnectionInv, ExchangeInv, NEW c \in Clients,
                       Linked(c), sq[c] # <<>>,
                       Head(sq[c]) \in {"WRITE", "READ"}
                PROVE  AccessAllowed(c)
    BY DEF RemoteAccessValid
  <2>1. Kept(c) /\ meta[c].key = "lkey"
    BY AccessFinds
  <2>2. MsgLen[c] \in Nat
    BY MsgLenAssumption
  <2>. QED
    BY <2>1, <2>2 DEF Kept, AccessAllowed, KeyFits
<1>2. Spec => []ExchangeInv
  BY ExchangeInvCorrect
<1>. QED
  BY <1>1, <1>2, TypeInvCorrect, ConnectionInvCorrect, PTL

\* What the device carries out for the server is its SEND.
LEMMA OnlyClientsAccess ==
  ASSUME TypeInv, NEW p \in Procs, CarryOut(p), Head(sq[p]) # "SEND"
  PROVE  /\ p \in Clients /\ Linked(p) /\ sq[p] # <<>>
         /\ Head(sq[p]) \in {"WRITE", "READ"}
<1>1. p # Server
  <2>1. ASSUME p = Server PROVE FALSE
    <3>1. sq[p] \in Seq({"SEND"}) /\ sq[p] # <<>>
      BY <2>1, ReadyParts DEF CarryOut
    <3>2. Head(sq[p]) = "SEND"
      BY <3>1
    <3>. QED
      BY <3>2
  <2>. QED
    BY <2>1
<1>. QED
  BY <1>1 DEF Procs, CarryOut, CanCarryOut, CarryOutSend, CarryOutWrite,
     CarryOutRead

\* No access finds the buffer freed: the region outlives the buffer in
\* cleanup_server (rdma_server.c:53-61), but the client has left by then.
THEOREM NoFreedAccessCorrect ==
  ASSUME Dependable PROVE Spec => []NoFreedAccess
<1>1. TypeInv /\ ConnectionInv /\ ExchangeInv /\ NoFreedAccess /\ [Next]_vars
        => NoFreedAccess'
  <2>. SUFFICES ASSUME TypeInv, ConnectionInv, ExchangeInv, NoFreedAccess,
                       [Next]_vars
                PROVE  NoFreedAccess'
    OBVIOUS
  <2>1. ASSUME UNCHANGED ub PROVE NoFreedAccess'
    BY <2>1 DEF NoFreedAccess
  <2>2. ASSUME NEW c \in Clients, ClientStep(c) \/ KillClient(c)
        PROVE  NoFreedAccess'
    <3>1. UNCHANGED ub \/ ub' = ub \cup {"event_freed_twice"}
      <4>1. CASE \/ SetupClient(c) \/ AddrResolved(c) \/ RouteResolved(c)
                 \/ setup_protection_domain(c) \/ create_completion_channel(c)
                 \/ create_completion_queue(c) \/ setup_queue_pairs(c)
                 \/ ClientPostsRecv(c) \/ connect_to_server(c)
                 \/ ClientEstablished(c)
        BY <4>1 DEF SetupClient, AddrResolved, RouteResolved,
           setup_protection_domain, create_completion_channel,
           create_completion_queue, setup_queue_pairs, ClientPostsRecv,
           connect_to_server, ClientEstablished
      <4>2. CASE \/ exchange_metadata_with_server(c) \/ client_write_message(c)
                 \/ client_read_message(c) \/ ReadComplete(c)
                 \/ RdmaEventFails(c) \/ WorkCompletionEvent(c)
                 \/ KillClient(c)
        BY <4>2 DEF exchange_metadata_with_server, client_write_message,
           client_read_message, ReadComplete, RdmaEventFails,
           WorkCompletionEvent, GetCqEvent, ReqNotifyCq, PollCq,
           WorkCompletionError, AwaitFailed, KillClient
      <4>3. CASE cleanup_client(c)
        BY <4>3 DEF cleanup_client, Disconnect, Disconnected, NoDisconnected,
           FreePlain, DestroyQp, DestroyCq, ClientDestroysId,
           ClientDestroysChannel, Exit, Releases
      <4>. QED
        BY <2>2, <4>1, <4>2, <4>3 DEF ClientStep
    <3>. QED
      BY <3>1 DEF NoFreedAccess
  <2>3. CASE ServerStep \/ KillServer
    <3>1. CASE \/ SetupServer \/ ConnectRequest \/ setup_communication_resources
               \/ ServerPostsRecv \/ ServerPostsToNoQp \/ accept_client_connection
               \/ ServerEstablished \/ SendServerMetadata \/ ServerMetadataSent
               \/ disconnect_from_client
      BY <2>1, <3>1 DEF SetupServer, ConnectRequest,
         setup_communication_resources, ServerPostsRecv, ServerPostsToNoQp,
         ServerDies, accept_client_connection, ServerEstablished,
         SendServerMetadata, ServerMetadataSent, disconnect_from_client
    <3>2. CASE RdmaEventFails(Server) \/ WorkCompletionEvent(Server)
      BY <2>1, <3>2 DEF RdmaEventFails, WorkCompletionEvent, GetCqEvent,
         ReqNotifyCq, PollCq, WorkCompletionError, AwaitFailed
    <3>3. CASE cleanup_server \/ KillServer
      BY <2>1, <3>3 DEF cleanup_server, FreePlain, DestroyQp, DestroyCq,
         ServerDestroysClientId, ServerDestroysServerId, ServerDestroysChannel,
         Exit, Releases, KillServer, ServerDies
    <3>. QED
      BY <2>3, <3>1, <3>2, <3>3 DEF ServerStep
  <2>4. ASSUME NEW c \in Clients, Cm(c) PROVE NoFreedAccess'
    BY <2>1, <2>4 DEF Cm
  <2>5. ASSUME NEW p \in Procs, Device(p) PROVE NoFreedAccess'
    <3>1. CASE CarryOut(p) /\ Head(sq[p]) # "SEND"
      <4>1. /\ p \in Clients /\ Linked(p) /\ sq[p] # <<>>
            /\ Head(sq[p]) \in {"WRITE", "READ"}
        BY <3>1, OnlyClientsAccess
      <4>2. ~Freed
        BY <4>1, AccessFinds DEF Kept, Freed
      <4>. QED
        BY <2>1, <3>1, <4>2 DEF CarryOut, CarryOutSend, CarryOutWrite,
           CarryOutRead, NoteFreedAccess
    <3>2. CASE ~(CarryOut(p) /\ Head(sq[p]) # "SEND")
      BY <2>1, <2>5, <3>2 DEF Device, CarryOut, CarryOutSend, CarryOutWrite,
         CarryOutRead, Completes, CannotCarryOut, AnswerLost
    <3>. QED
      BY <3>1, <3>2
  <2>6. CASE UNCHANGED vars
    BY <2>1, <2>6 DEF vars
  <2>. QED
    BY <2>2, <2>3, <2>4, <2>5, <2>6 DEF Next, Terminated
<1>2. Init => NoFreedAccess
  BY DEF Init, NoFreedAccess
<1>3. Spec => []ExchangeInv
  BY ExchangeInvCorrect
<1>. QED
  BY <1>1, <1>2, <1>3, TypeInvCorrect, ConnectionInvCorrect, PTL DEF Spec

-----------------------------------------------------------------------------
(* What a client has read is its own message.                              *)

ReadInv ==
  \A c \in Clients :
    /\ printed[c] \in {Nothing, c}
    /\ pc[c] = "client_read_message" /\ Did(c, "READ") => dst[c] = c

LEMMA DstType == TypeInv => dst \in [Clients -> Contents]
BY TypeParts DEF TypeInv, DataTypes

\* What a client makes of dst_buffer: it asks for a new one or prints it.
LEMMA ClientShows ==
  ASSUME TypeInv, NEW c \in Clients, ClientStep(c) \/ KillClient(c)
  PROVE  /\ \A d \in Clients : d # c => dst'[d] = dst[d]
         /\ CallStep(c) => UNCHANGED dst
         /\ \/ UNCHANGED printed
            \/ /\ printed' = [printed EXCEPT ![c] = dst[c]] /\ UNCHANGED dst
               /\ pc[c] = "client_read_message" /\ AwaitSucceeded(c)
               /\ pc'[c] = "cleanup"
<1>. USE PrintedType, DstType DEF dataVars
<1>0. CallStep(c) => UNCHANGED <<dst, printed>>
  BY DEF CallStep, GetCqEvent, ReqNotifyCq, PollCq, WorkCompletionError
<1>1. CASE \/ SetupClient(c) \/ AddrResolved(c) \/ RouteResolved(c)
           \/ setup_protection_domain(c) \/ create_completion_channel(c)
           \/ create_completion_queue(c) \/ setup_queue_pairs(c)
           \/ ClientPostsRecv(c) \/ connect_to_server(c) \/ ClientEstablished(c)
  BY <1>1 DEF SetupClient, AddrResolved, RouteResolved, setup_protection_domain,
     create_completion_channel, create_completion_queue, setup_queue_pairs,
     ClientPostsRecv, connect_to_server, ClientEstablished
<1>2. CASE exchange_metadata_with_server(c) \/ client_write_message(c)
  BY <1>2 DEF exchange_metadata_with_server, client_write_message
<1>3. CASE client_read_message(c)
  BY <1>0, <1>3 DEF client_read_message
<1>4. CASE ReadComplete(c)
  <2>1. pc'[c] = "cleanup"
    BY <1>4, DomainsHold, ProcFacts DEF ReadComplete, Fail, Goto, Domains
  <2>. QED
    BY <1>0, <1>4, <2>1 DEF ReadComplete
<1>5. CASE RdmaEventFails(c) \/ WorkCompletionEvent(c) \/ KillClient(c)
  BY <1>5 DEF RdmaEventFails, WorkCompletionEvent, GetCqEvent, ReqNotifyCq,
     PollCq, WorkCompletionError, AwaitFailed, KillClient
<1>6. CASE cleanup_client(c)
  BY <1>6 DEF cleanup_client, Disconnect, Disconnected, NoDisconnected,
     FreePlain, DestroyQp, DestroyCq, ClientDestroysId, ClientDestroysChannel,
     Exit, Releases
<1>. QED
  BY <1>1, <1>2, <1>3, <1>4, <1>5, <1>6 DEF ClientStep

LEMMA ClientRead ==
  ASSUME Reliable, TypeInv, LedgerInv, ReadInv, NEW c \in Clients,
         ClientStep(c) \/ KillClient(c)
  PROVE  ReadInv'
<1>. SUFFICES ASSUME NEW d \in Clients
              PROVE  /\ printed'[d] \in {Nothing, d}
                     /\ pc'[d] = "client_read_message" /\ Did(d, "READ")' =>
                          dst'[d] = d
  BY DEF ReadInv
<1>1. /\ c \in Procs /\ d \in Procs /\ Domains
      /\ ProcElsewhere(c) /\ WorkElsewhere(c) /\ ProgramStep(c)
  BY ProcFacts, DomainsHold, ClientElsewhere, ClientProgramSteps
  DEF Elsewhere, Reliable
<1>2. CASE d # c
  <2>1. /\ printed'[d] = printed[d] /\ dst'[d] = dst[d]
    BY <1>1, <1>2, ClientShows, ClientPrints
  <2>2. pc'[d] = pc[d] /\ Did(d, "READ")' = Did(d, "READ")
    BY <1>1, <1>2 DEF ProcElsewhere, WorkElsewhere, Did, Good, Completions
  <2>. QED
    BY <2>1, <2>2 DEF ReadInv
<1>3. CASE d = c
  <2>1. pc'[c] = "client_read_message" /\ Did(c, "READ")' => dst'[c] = c
    <3>. SUFFICES ASSUME pc'[c] = "client_read_message", Did(c, "READ")'
                  PROVE  dst'[c] = c
      OBVIOUS
    <3>1. pc'[c] \in Working /\ "READ" \in Opcodes \ {"RECV"}
      BY DEF Working, Requesting, Opcodes
    <3>2. Did(c, "READ") /\ pc'[c] = pc[c] /\ CallStep(c)
      BY <1>1, <3>1, ProgramDid
    <3>3. UNCHANGED dst
      BY <3>2, ClientShows
    <3>. QED
      BY <3>2, <3>3 DEF ReadInv
  <2>2. CASE UNCHANGED printed
    BY <1>3, <2>1, <2>2 DEF ReadInv
  <2>3. CASE /\ printed' = [printed EXCEPT ![c] = dst[c]]
             /\ pc[c] = "client_read_message" /\ AwaitSucceeded(c)
    <3>1. Good(c, "READ")
      BY <1>1, <2>3, SucceededDid
    <3>2. dst[c] = c
      BY <2>3, <3>1 DEF ReadInv, Did
    <3>3. printed'[c] = c
      BY <1>1, <2>3, <3>2, PrintedType
    <3>. QED
      BY <1>3, <2>1, <3>3
  <2>. QED
    BY <2>2, <2>3, ClientShows
<1>. QED
  BY <1>2, <1>3

LEMMA DeviceRead ==
  ASSUME TypeInv, ConnectionInv, StoredInv, ExchangeInv, ReadInv,
         NEW p \in Procs, Device(p)
  PROVE  ReadInv'
<1>. SUFFICES ASSUME NEW c \in Clients
              PROVE  /\ printed'[c] \in {Nothing, c}
                     /\ pc'[c] = "client_read_message" /\ Did(c, "READ")' =>
                          dst'[c] = c
  BY DEF ReadInv
<1>. DEFINE ReadNow == CarryOut(p) /\ Head(sq[p]) = "READ"
<1>1. c \in Procs /\ UNCHANGED <<pc, printed>> /\ "READ" \in Opcodes \ {"RECV"}
  BY ProcFacts, DeviceStores DEF Device, procVars, Opcodes
<1>2. CASE p = c /\ ReadNow /\ pc[c] = "client_read_message"
  <2>1. /\ Linked(c) /\ sq[c] # <<>> /\ Head(sq[c]) \in {"WRITE", "READ"}
        /\ CarryOutRead(c)
    BY <1>2, OnlyClientsAccess DEF CarryOut, CarryOutSend, CarryOutWrite
  <2>2. ~Freed
    BY <2>1, AccessFinds DEF Kept, Freed
  <2>3. buf.data = c
    BY <1>2 DEF StoredInv, Wrote
  <2>4. dst'[c] = c
    BY <2>1, <2>2, <2>3, DstType DEF CarryOutRead
  <2>. QED
    BY <1>1, <2>4 DEF ReadInv
<1>3. CASE ~(p = c /\ ReadNow) /\ pc[c] = "client_read_message"
  <2>1. Did(c, "READ")' => Did(c, "READ")
    BY <1>1, <1>3, DeviceDid
  <2>2. dst'[c] = dst[c]
    BY <1>3, DstType DEF Device, CarryOut, CarryOutSend, CarryOutWrite,
       CarryOutRead, Completes, CannotCarryOut, AnswerLost, dataVars
  <2>. QED
    BY <1>1, <2>1, <2>2 DEF ReadInv
<1>. QED
  BY <1>1, <1>2, <1>3 DEF ReadInv

LEMMA ServerKeepsDst ==
  ASSUME ServerStep \/ KillServer
  PROVE  UNCHANGED dst
<1>. USE DEF dataVars
<1>1. CASE \/ SetupServer \/ ConnectRequest \/ setup_communication_resources
           \/ ServerPostsRecv \/ ServerPostsToNoQp \/ accept_client_connection
           \/ ServerEstablished \/ SendServerMetadata \/ ServerMetadataSent
           \/ disconnect_from_client
  BY <1>1 DEF SetupServer, ConnectRequest, setup_communication_resources,
     ServerPostsRecv, ServerPostsToNoQp, ServerDies, accept_client_connection,
     ServerEstablished, SendServerMetadata, ServerMetadataSent,
     disconnect_from_client
<1>2. CASE RdmaEventFails(Server) \/ WorkCompletionEvent(Server)
  BY <1>2 DEF RdmaEventFails, WorkCompletionEvent, GetCqEvent, ReqNotifyCq,
     PollCq, WorkCompletionError, AwaitFailed
<1>3. CASE cleanup_server \/ KillServer
  BY <1>3 DEF cleanup_server, FreePlain, DestroyQp, DestroyCq,
     ServerDestroysClientId, ServerDestroysServerId, ServerDestroysChannel,
     Exit, Releases, KillServer, ServerDies
<1>. QED
  BY <1>1, <1>2, <1>3 DEF ServerStep

LEMMA NextReadInv ==
  ASSUME Reliable, TypeInv, LedgerInv, ConnectionInv, StoredInv, ExchangeInv,
         ReadInv, [Next]_vars
  PROVE  ReadInv'
<1>1. ASSUME UNCHANGED <<procVars, workVars, dataVars>> PROVE ReadInv'
  BY <1>1 DEF procVars, workVars, dataVars, ReadInv, Did, Good, Completions
<1>2. ASSUME NEW c \in Clients, ClientStep(c) \/ KillClient(c) PROVE ReadInv'
  BY <1>2, ClientRead
<1>3. CASE ServerStep \/ KillServer
  <2>1. /\ Server \in Procs /\ ProcElsewhere(Server) /\ WorkElsewhere(Server)
        /\ \A c \in Clients : c \in Procs /\ c # Server
    BY <1>3, ProcFacts, DomainsHold, ServerElsewhere
    DEF Elsewhere
  <2>2. /\ UNCHANGED dst
        /\ \A c \in Clients : printed'[c] = printed[c]
    <3>1. UNCHANGED dst
      BY <1>3, ServerKeepsDst
    <3>2. \A c \in Clients : printed'[c] = printed[c]
      BY <1>3, <2>1, ServerStores, PrintedType DEF ServerPrints
    <3>. QED
      BY <3>1, <3>2
  <2>3. \A c \in Clients :
          pc'[c] = pc[c] /\ Did(c, "READ")' = Did(c, "READ")
    BY <2>1 DEF ProcElsewhere, WorkElsewhere, Did, Good, Completions
  <2>. QED
    BY <2>2, <2>3 DEF ReadInv
<1>4. ASSUME NEW c \in Clients, Cm(c) PROVE ReadInv'
  BY <1>1, <1>4 DEF Cm
<1>5. ASSUME NEW p \in Procs, Device(p) PROVE ReadInv'
  BY <1>5, DeviceRead
<1>6. CASE UNCHANGED vars
  BY <1>1, <1>6 DEF vars
<1>. QED
  BY <1>2, <1>3, <1>4, <1>5, <1>6 DEF Next, Terminated

\* A client holds its own message once it has read it back: the READ was carried
\* out after the WRITE and found the buffer as the WRITE had left it
\* (rdma_client.c:581-727).
THEOREM ReadInvCorrect == ASSUME Dependable PROVE Spec => []ReadInv
<1>0. Reliable
  BY DependableReliable
<1>1. Init => ReadInv
  BY ProcFacts DEF Init, ReadInv
<1>2. TypeInv /\ LedgerInv /\ ConnectionInv /\ StoredInv /\ ExchangeInv
        /\ ReadInv /\ [Next]_vars => ReadInv'
  BY <1>0, NextReadInv
<1>3. Spec => []LedgerInv /\ []StoredInv /\ []ExchangeInv
  BY <1>0, LedgerInvCorrect, StoredInvCorrect, ExchangeInvCorrect
<1>. QED
  BY <1>1, <1>2, <1>3, TypeInvCorrect, ConnectionInvCorrect, PTL DEF Spec

\* A client that reports a complete read prints its own message
\* (rdma_client.c:725), whatever fails at the other side, on the wire and in the
\* calls that start something.
THEOREM EchoIntegrityCorrect == ASSUME Dependable PROVE Spec => []EchoIntegrity
<1>1. ReadInv => EchoIntegrity
  BY DEF ReadInv, EchoIntegrity
<1>2. Spec => []ReadInv
  BY ReadInvCorrect
<1>. QED
  BY <1>1, <1>2, PTL

-----------------------------------------------------------------------------
(* The programs implement EchoService.                                     *)

\* What a step of the server does to the client, the buffer and the report.
LEMMA ServerActs ==
  ASSUME TypeInv, "errno" \notin Faults, LedgerInv, ServerStep \/ KillServer
  PROVE  \/ UNCHANGED <<peer, buf, printed>>
         \/ /\ pc[Server] = "connect_request" /\ UNCHANGED <<buf, printed>>
            /\ pc'[Server] \in Serving
         \/ /\ pc[Server] = "exchange_metadata_with_client"
            /\ buf'.data = Zeros /\ UNCHANGED <<peer, printed>>
         \/ /\ pc[Server] = "disconnect_from_client"
            /\ printed' = [printed EXCEPT ![Server] = buf.data]
            /\ UNCHANGED <<peer, buf>>
<1>. USE DEF dataVars, cmVars
<1>1. CASE \/ SetupServer \/ setup_communication_resources
           \/ ServerPostsRecv \/ ServerPostsToNoQp \/ accept_client_connection
           \/ ServerEstablished \/ ServerMetadataSent
  BY <1>1 DEF SetupServer, setup_communication_resources, ServerPostsRecv,
     ServerPostsToNoQp, ServerDies, accept_client_connection,
     ServerEstablished, ServerMetadataSent
<1>2. CASE ConnectRequest
  <2>1. pc'[Server] = "setup_communication_resources"
    BY <1>2, DomainsHold, ProcFacts DEF ConnectRequest, Goto, Domains
  <2>. QED
    BY <1>2, <2>1 DEF ConnectRequest, Serving
<1>3. CASE SendServerMetadata
  BY <1>3 DEF SendServerMetadata, create_rdma_buffer, NoRdmaBuffer
<1>4. CASE disconnect_from_client
  BY <1>4 DEF disconnect_from_client
<1>5. CASE RdmaEventFails(Server) \/ WorkCompletionEvent(Server)
  BY <1>5 DEF RdmaEventFails, WorkCompletionEvent, GetCqEvent, ReqNotifyCq,
     PollCq, WorkCompletionError, AwaitFailed
<1>6. CASE cleanup_server \/ KillServer
  BY <1>6 DEF cleanup_server, FreePlain, DestroyQp, DestroyCq,
     ServerDestroysClientId, ServerDestroysServerId, ServerDestroysChannel,
     Exit, Releases, KillServer, ServerDies
<1>. QED
  BY <1>1, <1>2, <1>3, <1>4, <1>5, <1>6 DEF ServerStep

LEMMA ServiceStutters ==
  ASSUME UNCHANGED <<peer, printed>>, buf'.data = buf.data
  PROVE  UNCHANGED Service!vars
BY DEF Service!vars

\* A server at work has not made its report, and will have a client to make
\* it about.
LEMMA ServiceOpen ==
  ASSUME StoredInv, ConnectionInv, NEW c \in Clients, peer = c,
         pc[c] \notin Quiet
  PROVE  printed[Server] = Nothing
BY DEF StoredInv

LEMMA ServerImplements ==
  ASSUME "errno" \notin Faults, TypeInv, LedgerInv, ConnectionInv, StoredInv,
         ExchangeInv, ExchangeInv', ServerStep \/ KillServer
  PROVE  [Service!Next]_Service!vars
<1>. USE DEF ExchangeInv, ServingInv
<1>1. CASE UNCHANGED <<peer, buf, printed>>
  BY <1>1, ServiceStutters
<1>2. CASE /\ pc[Server] = "connect_request" /\ UNCHANGED <<buf, printed>>
           /\ pc'[Server] \in Serving
  <2>1. peer = Nobody /\ peer' \in Clients
    BY <1>2 DEF ConnectionInv, ServerLink
  <2>2. Service!Choose(peer')
    BY <1>2, <2>1 DEF Service!Choose
  <2>. QED
    BY <2>1, <2>2 DEF Service!Next
<1>3. CASE /\ pc[Server] = "exchange_metadata_with_client"
           /\ buf'.data = Zeros /\ UNCHANGED <<peer, printed>>
  <2>1. peer \in Clients /\ peer # Nobody
    BY <1>3, ProcFacts DEF Serving
  <2>2. buf.data = Nothing
    BY <1>3 DEF StoredInv, ServerBeforeSend
  <2>3. Service!Allocate
    BY <1>3, <2>1, <2>2 DEF Service!Allocate
  <2>. QED
    BY <2>3 DEF Service!Next
<1>4. CASE /\ pc[Server] = "disconnect_from_client"
           /\ printed' = [printed EXCEPT ![Server] = buf.data]
           /\ UNCHANGED <<peer, buf>>
  <2>1. peer \in Clients /\ buf.data \in {Zeros, peer}
    BY <1>4 DEF HasBuffer
  <2>2. printed[Server] = Nothing
    BY <1>4 DEF Serving
  <2>3. buf.data # Nothing
    BY <2>1, ContentsAssumption DEF Zeros, Nothing
  <2>4. /\ printed'[Server] = buf.data
        /\ \A c \in Clients : printed'[c] = printed[c]
    BY <1>4, ProcFacts, PrintedType
  <2>5. [c \in Clients |-> printed[c]]' = [c \in Clients |-> printed[c]]
    BY <2>4
  <2>6. Service!Report
    BY <1>4, <2>2, <2>3, <2>4, <2>5 DEF Service!Report
  <2>. QED
    BY <2>6 DEF Service!Next
<1>. QED
  BY <1>1, <1>2, <1>3, <1>4, ServerActs

LEMMA ClientImplements ==
  ASSUME TypeInv, LedgerInv, ConnectionInv, StoredInv, ReadInv,
         NEW c \in Clients, ClientStep(c) \/ KillClient(c)
  PROVE  [Service!Next]_Service!vars
<1>1. UNCHANGED <<buf, peer>> /\ c \in Procs /\ c # Server
  BY DomainsHold, ClientElsewhere, ProcFacts
<1>2. CASE UNCHANGED printed
  BY <1>1, <1>2, ServiceStutters
<1>3. CASE /\ printed' = [printed EXCEPT ![c] = dst[c]]
           /\ pc[c] = "client_read_message" /\ AwaitSucceeded(c)
  <2>1. Good(c, "READ")
    BY <1>1, <1>3, SucceededDid
  <2>2. dst[c] = c
    BY <1>3, <2>1 DEF ReadInv, Did
  <2>3. peer = c /\ buf.data = c
    BY <1>3 DEF StoredInv, Wrote
  <2>4. printed[Server] = Nothing
    BY <1>3, <2>3, ServiceOpen DEF Quiet
  <2>5. /\ printed'[c] = c /\ printed'[Server] = printed[Server]
        /\ \A d \in Clients : d # c => printed'[d] = printed[d]
    BY <1>1, <1>3, <2>2, ProcFacts, PrintedType
  <2>6. [d \in Clients |-> printed[d]]' =
          [[d \in Clients |-> printed[d]] EXCEPT ![peer] = buf.data]
    BY <2>3, <2>5
  <2>7. Service!Echo
    BY <1>1, <2>3, <2>4, <2>5, <2>6 DEF Service!Echo
  <2>. QED
    BY <2>7 DEF Service!Next
<1>. QED
  BY <1>2, <1>3, ClientShows

LEMMA DeviceImplements ==
  ASSUME TypeInv, ConnectionInv, StoredInv, ExchangeInv, NEW p \in Procs,
         Device(p)
  PROVE  [Service!Next]_Service!vars
<1>1. UNCHANGED <<printed, peer>>
  BY DeviceStores DEF Device, cmVars
<1>2. CASE UNCHANGED buf
  BY <1>1, <1>2, ServiceStutters
<1>3. CASE CarryOut(p) /\ Head(sq[p]) = "WRITE"
  <2>1. /\ p \in Clients /\ peer = p /\ qp[p] = "up"
        /\ "server_buffer_mr" \in held[Server] /\ buf'.data = p
    BY <1>3, DeviceStores
  <2>2. buf.data \in {Zeros, p}
    BY <2>1 DEF ExchangeInv, ServingInv, HasBuffer
  <2>3. printed[Server] = Nothing
    <3>1. pc[p] \notin Quiet
      BY <2>1 DEF ConnectionInv, Up, Using, Quiet
    <3>. QED
      BY <2>1, <3>1, ServiceOpen
  <2>4. CASE buf.data = Zeros
    <3>1. Service!Store
      BY <1>1, <2>1, <2>3, <2>4 DEF Service!Store
    <3>. QED
      BY <3>1 DEF Service!Next
  <2>5. CASE buf.data = p
    BY <1>1, <2>1, <2>5, ServiceStutters
  <2>. QED
    BY <2>2, <2>4, <2>5
<1>. QED
  BY <1>2, <1>3, DeviceStores

LEMMA NextImplements ==
  ASSUME "errno" \notin Faults, TypeInv, LedgerInv, ConnectionInv, StoredInv,
         ExchangeInv, ExchangeInv', ReadInv, [Next]_vars
  PROVE  [Service!Next]_Service!vars
<1>1. ASSUME NEW c \in Clients, ClientStep(c) \/ KillClient(c)
      PROVE  [Service!Next]_Service!vars
  BY <1>1, ClientImplements
<1>2. CASE ServerStep \/ KillServer
  BY <1>2, ServerImplements
<1>3. ASSUME NEW c \in Clients, Cm(c) PROVE [Service!Next]_Service!vars
  <2>1. UNCHANGED <<peer, printed, buf>>
    BY <1>3 DEF Cm, dataVars
  <2>. QED
    BY <2>1, ServiceStutters
<1>4. ASSUME NEW p \in Procs, Device(p) PROVE [Service!Next]_Service!vars
  BY <1>4, DeviceImplements
<1>5. CASE UNCHANGED vars
  <2>1. UNCHANGED <<peer, printed, buf>>
    BY <1>5 DEF vars, dataVars, cmVars
  <2>. QED
    BY <2>1, ServiceStutters
<1>. QED
  BY <1>1, <1>2, <1>3, <1>4, <1>5 DEF Next, Terminated

\* Server and client together do no more than EchoService: choose one client,
\* make a buffer, store the message, show it to the client, report it
\* (rdma_client.c:581-727, rdma_server.c:490-607), whatever fails at the
\* other side, on the wire and in the calls that start something.
THEOREM ImplementsServiceCorrect ==
  ASSUME Dependable PROVE Spec => ImplementsService
<1>0. Reliable /\ "errno" \notin Faults
  BY DependableReliable DEF Reliable
<1>1. Init => Service!Init
  BY ProcFacts DEF Init, Service!Init
<1>2. TypeInv /\ LedgerInv /\ ConnectionInv /\ StoredInv /\ ExchangeInv
        /\ ExchangeInv' /\ ReadInv /\ [Next]_vars
        => [Service!Next]_Service!vars
  BY <1>0, NextImplements
<1>3. Spec => []LedgerInv /\ []StoredInv /\ []ExchangeInv /\ []ReadInv
  BY <1>0, LedgerInvCorrect, StoredInvCorrect, ExchangeInvCorrect,
     ReadInvCorrect
<1>. QED
  BY <1>1, <1>2, <1>3, TypeInvCorrect, ConnectionInvCorrect, PTL
  DEF Spec, ImplementsService, Service!Safety

-----------------------------------------------------------------------------
(* A server that nothing but its client ends keeps its buffer until then.   *)

Undisturbed == Faults \cap {"wc", "kill"} = {}

\* Where the client's queue pair is not up yet.
Unconnected ==
  {"setup_client", "addr", "route", "established"} \cup Preparing

OutlivesInv ==
  \A c \in Clients : meta[c] # NoMetadata =>
    /\ peer = c /\ sq[Server] = <<>> /\ pc[c] \notin Unconnected
    /\ qp[c] = "up" => qp[Server] = "up"

\* How a client's queue pair comes up.
LEMMA ClientConnects ==
  ASSUME TypeInv, NEW c \in Clients, ClientStep(c) \/ KillClient(c)
  PROVE  /\ pc'[c] \in Unconnected => pc[c] \in Unconnected
         /\ qp'[c] = "up" => qp[c] = "up" \/ pc[c] \in Unconnected
<1>. USE DomainsHold
     DEF Domains, Goto, Fail, Holding, workVars, Unconnected, Preparing
<1>0. c \in Procs /\ c # Server
  BY ProcFacts
<1>1. CASE \/ SetupClient(c) \/ AddrResolved(c) \/ RouteResolved(c)
           \/ setup_protection_domain(c) \/ create_completion_channel(c)
  BY <1>0, <1>1 DEF SetupClient, AddrResolved, RouteResolved, FailsPartway,
     setup_protection_domain, create_completion_channel, AllocatesOrFails
<1>2. CASE \/ create_completion_queue(c) \/ setup_queue_pairs(c)
           \/ ClientPostsRecv(c) \/ connect_to_server(c) \/ ClientEstablished(c)
  BY <1>0, <1>2 DEF create_completion_queue, setup_queue_pairs, FailsPartway,
     ClientPostsRecv, FailsUnnoticed, connect_to_server, ClientEstablished,
     AllocatesOrFails
<1>3. CASE \/ exchange_metadata_with_server(c) \/ client_write_message(c)
           \/ client_read_message(c)
  BY <1>0, <1>3 DEF exchange_metadata_with_server, client_write_message,
     client_read_message, FailsPartway, FailsUnnoticed, Enters
<1>4. CASE ReadComplete(c) \/ RdmaEventFails(c) \/ WorkCompletionEvent(c)
  BY <1>0, <1>4 DEF ReadComplete, RdmaEventFails, WorkCompletionEvent,
     GetCqEvent, ReqNotifyCq, PollCq, WorkCompletionError, AwaitFailed
<1>5. CASE cleanup_client(c) \/ KillClient(c)
  BY <1>0, <1>5 DEF cleanup_client, Disconnect, QpsToError, Disconnected,
     NoDisconnected, FreePlain, DestroyQp, DestroyCq, ClientDestroysId,
     ClientDestroysChannel, Exit, Releases, ClientDies, KillClient
<1>. QED
  BY <1>1, <1>2, <1>3, <1>4, <1>5 DEF ClientStep

LEMMA ClientOutlives ==
  ASSUME TypeInv, OutlivesInv, NEW c \in Clients, ClientStep(c) \/ KillClient(c)
  PROVE  OutlivesInv'
<1>1. /\ Server \in Procs /\ Server # c /\ \A d \in Clients : d \in Procs
      /\ ProcElsewhere(c) /\ WorkElsewhere(c) /\ UNCHANGED <<meta, peer>>
  BY ProcFacts, DomainsHold, ClientElsewhere DEF Elsewhere
<1>2. sq'[Server] = sq[Server] /\ qp'[Server] = qp[Server]
  BY <1>1 DEF WorkElsewhere
<1>3. ASSUME NEW d \in Clients, meta[d] # NoMetadata
      PROVE  /\ pc'[d] \notin Unconnected
             /\ qp'[d] = "up" => qp[d] = "up"
  <2>1. CASE d = c
    BY <1>3, <2>1, ClientConnects DEF OutlivesInv
  <2>2. CASE d # c
    BY <1>1, <1>3, <2>2 DEF OutlivesInv, ProcElsewhere, WorkElsewhere
  <2>. QED
    BY <2>1, <2>2
<1>. QED
  BY <1>1, <1>2, <1>3 DEF OutlivesInv

\* Where its client is connected and knows of the buffer the server waits, and
\* changes nothing by itself.
LEMMA ServerWaits ==
  ASSUME Dependable, Undisturbed, TypeInv, ConnectionInv, ExchangeInv,
         OutlivesInv, NEW c \in Clients, meta[c] # NoMetadata, qp[c] = "up",
         ServerStep \/ KillServer
  PROVE  UNCHANGED <<qp, held>>
<1>1. /\ qp[Server] = "up" /\ peer = c /\ pc[c] \notin Quiet
      /\ Server \in Procs /\ c \in Procs
  BY ProcFacts DEF OutlivesInv, ConnectionInv, Up, Using, Quiet
<1>2. pc[Server] \in {"send_server_metadata", "disconnect_from_client"}
  BY <1>1 DEF ExchangeInv, ServedInv, Promised, Kept
<1>3. UNCHANGED qp
  <2>1. ~cleanup_server /\ ~KillServer
    BY <1>2 DEF cleanup_server, FreePlain, DestroyQp, DestroyCq,
       ServerDestroysClientId, ServerDestroysServerId, ServerDestroysChannel,
       Exit, Releases, KillServer, Undisturbed
  <2>2. \/ SendServerMetadata \/ ServerMetadataSent \/ disconnect_from_client
        \/ RdmaEventFails(Server) \/ WorkCompletionEvent(Server)
    BY <1>2, <2>1 DEF ServerStep, SetupServer, ConnectRequest,
       setup_communication_resources, ServerPostsRecv, ServerPostsToNoQp,
       accept_client_connection, ServerEstablished
  <2>. QED
    BY <2>2 DEF SendServerMetadata, ServerMetadataSent, disconnect_from_client,
       RdmaEventFails, WorkCompletionEvent, GetCqEvent, ReqNotifyCq, PollCq,
       WorkCompletionError, AwaitFailed, workVars
<1>. QED
  BY <1>1, <1>2, <1>3, ServerStays DEF ExchangeInv

LEMMA ServerOutlives ==
  ASSUME Dependable, Undisturbed, TypeInv, ConnectionInv, ExchangeInv,
         OutlivesInv, ServerStep \/ KillServer
  PROVE  OutlivesInv'
<1>. SUFFICES ASSUME NEW c \in Clients, meta'[c] # NoMetadata
              PROVE  /\ peer' = c /\ sq'[Server] = <<>>
                     /\ pc'[c] \notin Unconnected
                     /\ qp'[c] = "up" => qp'[Server] = "up"
  BY DEF OutlivesInv
<1>1. /\ c \in Procs /\ c # Server /\ Server \in Procs /\ Domains
      /\ ProcElsewhere(Server) /\ WorkElsewhere(Server) /\ UNCHANGED meta
      /\ UNCHANGED peer \/ pc[Server] = "connect_request"
  BY ProcFacts, DomainsHold, ServerElsewhere, ServerChooses DEF Elsewhere
<1>2. meta[c] # NoMetadata /\ pc'[c] = pc[c] /\ qp'[c] = qp[c]
  BY <1>1 DEF ProcElsewhere, WorkElsewhere
<1>3. pc[Server] \notin ServerBeforeSend
  BY <1>2 DEF ExchangeInv, ToldInv
<1>4. UNCHANGED peer /\ sq'[Server] \in {sq[Server], <<>>}
  BY <1>1, <1>3, ServerPromises DEF ServerBeforeSend, ServerUnconnected
<1>5. qp[c] = "up" => qp'[Server] = qp[Server]
  BY <1>2, ServerWaits
<1>. QED
  BY <1>2, <1>4, <1>5 DEF OutlivesInv

LEMMA DeviceOutlives ==
  ASSUME Dependable, Undisturbed, TypeInv, ConnectionInv, ExchangeInv,
         OutlivesInv, NEW p \in Procs, Device(p)
  PROVE  OutlivesInv'
<1>. SUFFICES ASSUME NEW c \in Clients, meta'[c] # NoMetadata
              PROVE  /\ peer' = c /\ sq'[Server] = <<>>
                     /\ pc'[c] \notin Unconnected
                     /\ qp'[c] = "up" => qp'[Server] = "up"
  BY DEF OutlivesInv
<1>1. /\ c \in Procs /\ c # Server /\ Server \in Procs /\ Domains
      /\ UNCHANGED <<pc, peer>> /\ meta \in [Procs -> Metadata]
  BY ProcFacts, DomainsHold, TypeParts
  DEF Device, procVars, cmVars, TypeInv, DataTypes
<1>2. CASE meta[c] = NoMetadata
  <2>1. Tells(p)
    BY <1>1, <1>2, DeviceTells
  <2>2. /\ Linked(p) /\ sq[p] # <<>>
        /\ meta' = [meta EXCEPT ![Remote(p)] = MetadataOf(p)]
        /\ p = Server \/ (p \in Clients /\ peer = p /\ Remote(p) = Server)
        /\ p = Server => Remote(p) = peer
    BY <2>1, DeviceTells
  <2>3. p = Server /\ peer = c
    BY <1>1, <1>2, <2>2
  <2>4. qp[Server] = "up" /\ qp[c] = "up"
    BY <1>1, <2>2, <2>3 DEF Linked, Remote
  <2>5. pc[c] \notin Unconnected
    BY <2>4 DEF ConnectionInv, Up, Using, Unconnected, Preparing
  <2>6. UNCHANGED qp /\ sq'[Server] = Tail(sq[Server])
    BY <1>1, <2>1, <2>3 DEF Tells, CarryOut, Domains
  <2>7. sq'[Server] = <<>>
    <3>1. sq[Server] \in Seq(Opcodes) /\ Len(sq[Server]) <= 1
      BY ReadyParts DEF ExchangeInv, ReadyInv, PostedInv
    <3>. QED
      BY <2>2, <2>3, <2>6, <3>1, TailOfOne
  <2>. QED
    BY <1>1, <2>3, <2>4, <2>5, <2>6, <2>7
<1>3. CASE meta[c] # NoMetadata
  <2>1. /\ peer = c /\ sq[Server] = <<>> /\ pc[c] \notin Unconnected
        /\ qp[c] = "up" => qp[Server] = "up"
    BY <1>3 DEF OutlivesInv
  <2>2. CASE CarryOut(p) \/ Completes(p)
    <3>1. UNCHANGED qp
      BY <2>2 DEF CarryOut, Completes
    <3>2. sq'[Server] = sq[Server]
      BY <1>1, <2>1, <2>2 DEF CarryOut, Completes, Domains
    <3>. QED
      BY <1>1, <2>1, <3>1, <3>2
  <2>3. CASE CannotCarryOut(p)
    <3>1. p # Server
      BY <2>1, <2>3 DEF CannotCarryOut
    <3>2. PICK ps \in {{p}, {p, Server}} :
            QpsToError(ps) /\ (ps = {p, Server} => Linked(p))
      BY <2>3, <3>1 DEF CannotCarryOut, Remote
    <3>3. /\ \A q \in Procs : qp'[q] = IF q \in ps THEN "error" ELSE qp[q]
          /\ sq'[Server] = <<>>
      BY <1>1, <2>1, <3>2 DEF QpsToError
    <3>4. Linked(p) => p = c
      BY <2>1, <3>1 DEF Linked
    <3>. QED
      BY <1>1, <2>1, <3>1, <3>2, <3>3, <3>4
  <2>4. ~AnswerLost(p)
    BY DEF AnswerLost, Undisturbed
  <2>. QED
    BY <2>2, <2>3, <2>4 DEF Device
<1>. QED
  BY <1>2, <1>3

LEMMA NextOutlivesInv ==
  ASSUME Dependable, Undisturbed, TypeInv, ConnectionInv, ExchangeInv,
         OutlivesInv, [Next]_vars
  PROVE  OutlivesInv'
<1>1. ASSUME UNCHANGED <<procVars, workVars, meta, peer>> PROVE OutlivesInv'
  BY <1>1 DEF procVars, workVars, OutlivesInv
<1>2. ASSUME NEW c \in Clients, ClientStep(c) \/ KillClient(c) PROVE OutlivesInv'
  BY <1>2, ClientOutlives
<1>3. CASE ServerStep \/ KillServer
  BY <1>3, ServerOutlives
<1>4. ASSUME NEW c \in Clients, Cm(c) PROVE OutlivesInv'
  BY <1>1, <1>4 DEF Cm, dataVars
<1>5. ASSUME NEW p \in Procs, Device(p) PROVE OutlivesInv'
  BY <1>5, DeviceOutlives
<1>6. CASE UNCHANGED vars
  BY <1>1, <1>6 DEF vars, dataVars, cmVars
<1>. QED
  BY <1>2, <1>3, <1>4, <1>5, <1>6 DEF Next, Terminated

\* Once the client has been told where the buffer is, the buffer stays there
\* until the client disconnects (rdma_server.c:585-607), if neither side is
\* killed and no request is completed with an error that its sender did not
\* cause.
THEOREM BufferStaysCorrect ==
  ASSUME Dependable, Undisturbed PROVE Spec => BufferStays
<1>. DEFINE Stays ==
       \A c \in Clients :
         (qp[c] = "up" /\ meta[c] # NoMetadata) =>
           held'[Server] \cap {"server_buffer", "server_buffer_mr"}
             = held[Server] \cap {"server_buffer", "server_buffer_mr"}
<1>1. Init => OutlivesInv
  BY ProcFacts DEF Init, OutlivesInv
<1>2. TypeInv /\ ConnectionInv /\ ExchangeInv /\ OutlivesInv /\ [Next]_vars
        => OutlivesInv'
  BY NextOutlivesInv
<1>3. TypeInv /\ ConnectionInv /\ ExchangeInv /\ OutlivesInv /\ [Next]_vars
        => [Stays]_vars
  <2>. SUFFICES ASSUME TypeInv, ConnectionInv, ExchangeInv, OutlivesInv,
                       [Next]_vars, NEW c \in Clients, qp[c] = "up",
                       meta[c] # NoMetadata
                PROVE  held'[Server] = held[Server]
    OBVIOUS
  <2>1. ASSUME NEW d \in Clients, ClientStep(d) \/ KillClient(d)
        PROVE  held'[Server] = held[Server]
    BY <2>1, ProcFacts, DomainsHold, ClientElsewhere
    DEF Elsewhere, ProcElsewhere
  <2>2. CASE ServerStep \/ KillServer
    BY <2>2, ServerWaits
  <2>3. ASSUME NEW d \in Clients, Cm(d) PROVE held'[Server] = held[Server]
    BY <2>3 DEF Cm, procVars
  <2>4. ASSUME NEW p \in Procs, Device(p) PROVE held'[Server] = held[Server]
    BY <2>4 DEF Device, procVars
  <2>5. CASE UNCHANGED vars
    BY <2>5 DEF vars, procVars
  <2>. QED
    BY <2>1, <2>2, <2>3, <2>4, <2>5 DEF Next, Terminated
<1>4. Spec => []ExchangeInv
  BY ExchangeInvCorrect
<1>. QED
  BY <1>1, <1>2, <1>3, <1>4, TypeInvCorrect, ConnectionInvCorrect, PTL
  DEF Spec, BufferStays
=============================================================================
