-------------------------- MODULE CompletionProofs --------------------------
(***************************************************************************)
(* Theorems about Completion for any number of accounts, segments, tries,  *)
(* polls and retries, whatever the upstream answers.                       *)
(*                                                                         *)
(* The properties are not inductive.  That a message refers to             *)
(* what is there depends on where in its plan the request is: OnPlan says  *)
(* that the plan is what remains of the one the leg began with, Made what  *)
(* the steps already done have left for those to come.  That the messages  *)
(* are bounded depends on how many calls lie ahead (CallsCounted) and that *)
(* each beginning anew uses up an account (Accounts).  That a muted        *)
(* account rests depends on the accounts being tried in one order          *)
(* (MutedBehind).  That a message belongs to the account that posts it     *)
(* depends on what its beginning has made so far (Begun), and on who holds *)
(* it (Held).  That an answer is continued only when it is unfinished  *)
(* is a matter of the loops over a body and of what they begin with        *)
(* (Tells, ContFresh).                                                     *)
(***************************************************************************)
EXTENDS Completion, SequenceLemmas, FiniteSetTheorems, SequenceTheorems, TLAPS

Legs == {"start", "retry", "switch", "captcha"}
Ops == {"upload", "wait", "create", "pow", "fire", "call", "read", "collect"}
Statuses == {"", "uploaded", "processed"}
Sessions == [n : Nat, of : Nat, epoch : Nat]
Files == [of : Nat, epoch : Nat, status : Statuses]
Payloads == [session : Sessions, file : Files, parent : Nat, from : Nat, to : Nat]
LoopStates == [tries : Nat, refreshed : BOOLEAN]
Messages == [token : Nat, session : Sessions, file : Files, parent : Nat, from : Nat, to : Nat,
             leg : Legs, epoch : Nat, settled : {"committed", "broken", "unknown"}]

Types ==
    /\ req \in Requests /\ leg \in Legs /\ epoch \in Nat /\ plan \in Seq(Ops)
    /\ result \in {"", "answered", "failed"} /\ (plan = <<>> <=> result # "")
    /\ loop \in LoopStates /\ upload \in LoopStates
    /\ session \in Sessions /\ file \in Files /\ chain \in [parent : Nat, from : 1 .. req.segs]
    /\ payload \in Payloads /\ first \in Payloads /\ sent \in Seq(Messages)
    /\ muted \subseteq Nat /\ seen \in Nat /\ attempts \in 0 .. RetryMax

\* A request that has n other accounts has gone through some of them, and begun anew on some.
WhoTypes(w) ==
    /\ w \in [named : Nat, token : Nat, left : Nat]
    /\ w.named + w.left = 1 + req.others /\ w.named > 0 /\ w.token <= w.named
Accounts == WhoTypes(who) /\ epoch < who.named

Tries ==
    /\ upload.tries < MaxAttempts
    /\ loop.tries < IF result = "" /\ Head(plan) = "wait" THEN MaxPolls ELSE MaxAttempts
    /\ result = "" /\ Head(plan) = "upload" => loop.tries = 0

\* p is what remains of w.
Rest(p, w) == Len(p) <= Len(w) /\ \A j \in 1 .. Len(p) : p[j] = w[Len(w) - Len(p) + j]

\* The plan remains of the plan that the leg began with.
Whole == IF leg = "retry" THEN RetryPlan ELSE IF leg = "start" THEN StartPlan(req) ELSE SwitchPlan(req)
Reading == plan \in {<<"read">>, <<"collect">>}
OnPlan == Reading \/ Rest(plan, Whole)
Ahead == Range(plan)

Linked ==
    IF chain.parent = 0 THEN chain.from = 1
    ELSE /\ chain.parent \in 1 .. Len(sent)
         /\ LET p == sent[chain.parent]
            IN  /\ p.settled # "unknown" /\ p.to + 1 = chain.from /\ p.session = session
                /\ p.leg # "retry" /\ p.epoch = epoch

\* What the steps that are done have made for the steps to come.
Made ==
    result = "" /\ leg # "retry" =>
        /\ "create" \notin Ahead => session.epoch = epoch /\ Linked
        /\ req.file /\ "upload" \notin Ahead => file.epoch = epoch
        /\ req.file /\ "wait" \notin Ahead => IsReady(file.status)
        /\ "create" \notin Ahead /\ "fire" \in Ahead =>
             Len(plan) \in {2 * (req.segs - chain.from) + 1, 2 * (req.segs - chain.from) + 2}

FileReady(f) == f # NoFile => IsReady(f.status)
PayloadsReady ==
    /\ ~req.file => file = NoFile
    /\ FileReady(payload.file) /\ FileReady(first.file)

ParentsBefore ==
    \A i \in 1 .. Len(sent) :
        sent[i].leg # "retry" /\ sent[i].parent # 0 => sent[i].parent \in 1 .. (i - 1)

\* The messages that ask for an answer.
Calls == {i \in 1 .. Len(sent) : sent[i].to = req.segs}
CallsCounted ==
    Cardinality(Calls) + (IF "call" \in Ahead THEN 1 ELSE 0) <= 1 + attempts + epoch

MutedBehind ==
    /\ 0 \notin muted
    /\ result = "" => \A t \in muted : t < who.named /\ (who.token = 0 \/ t < who.token)

Messaging == ChainWhole /\ ParentsBefore /\ SwitchedFresh /\ FilesReady

IInv ==
    /\ Types /\ Accounts /\ Tries /\ OnPlan /\ Made /\ PayloadsReady
    /\ Messaging /\ CallsCounted /\ MutedBehind
-----------------------------------------------------------------------------
(* The plans.                                                              *)

LEMMA RangeFacts ==
    ASSUME NEW p \in Seq(Ops)
    PROVE  /\ p # <<>> => Range(p) = {Head(p)} \cup Range(Tail(p))
           /\ Range(<<"pow">> \o p) = {"pow"} \cup Range(p)
           /\ <<"pow">> \o p \in Seq(Ops) /\ Len(<<"pow">> \o p) = Len(p) + 1
           /\ (<<"pow">> \o p)[1] = "pow"
           /\ \A i \in 2 .. Len(p) + 1 : (<<"pow">> \o p)[i] = p[i - 1]
<1>1. ASSUME p # <<>> PROVE Range(p) = {Head(p)} \cup Range(Tail(p))
  <2>1. Tail(p) \in Seq(Ops) /\ Len(Tail(p)) = Len(p) - 1 /\ Head(p) = p[1] /\ Len(p) \in Nat \ {0}
    BY <1>1
  <2>2. \A i \in 1 .. Len(p) - 1 : Tail(p)[i] = p[i + 1]
    BY <1>1, <2>1, HeadTailProperties
  <2>3. \A i \in 1 .. Len(p) : i = 1 \/ i - 1 \in 1 .. Len(p) - 1
    BY <2>1
  <2>4. DOMAIN p = 1 .. Len(p) /\ DOMAIN Tail(p) = 1 .. Len(p) - 1
    BY <2>1
  <2>5. Range(p) \subseteq {Head(p)} \cup Range(Tail(p))
    <3> SUFFICES ASSUME NEW i \in 1 .. Len(p) PROVE p[i] \in {Head(p)} \cup Range(Tail(p))
      BY <2>4 DEF Range
    <3>1. CASE i = 1
      BY <3>1, <2>1
    <3>2. CASE i # 1
      <4>1. i - 1 \in 1 .. Len(p) - 1 /\ Tail(p)[i - 1] = p[i]
        BY <3>2, <2>1, <2>2
      <4> QED BY <4>1, <2>4 DEF Range
    <3> QED BY <3>1, <3>2
  <2>6. {Head(p)} \cup Range(Tail(p)) \subseteq Range(p)
    <3>1. 1 \in DOMAIN p /\ \A i \in 1 .. Len(p) - 1 : i + 1 \in DOMAIN p
      BY <2>1, <2>4
    <3> QED BY <3>1, <2>1, <2>2, <2>4 DEF Range
  <2> QED BY <2>5, <2>6
<1>2. /\ Range(<<"pow">> \o p) = {"pow"} \cup Range(p)
      /\ <<"pow">> \o p \in Seq(Ops) /\ Len(<<"pow">> \o p) = Len(p) + 1
      /\ (<<"pow">> \o p)[1] = "pow"
      /\ \A i \in 2 .. Len(p) + 1 : (<<"pow">> \o p)[i] = p[i - 1]
  <2> DEFINE q == <<"pow">> \o p
  <2>0. <<"pow">> \in Seq(Ops) /\ Len(<<"pow">>) = 1 /\ <<"pow">>[1] = "pow" /\ Len(p) \in Nat
    BY DEF Ops
  <2>1. /\ q \in Seq(Ops) /\ Len(q) = Len(p) + 1
        /\ \A i \in 1 .. Len(p) + 1 : q[i] = IF i <= 1 THEN <<"pow">>[i] ELSE p[i - 1]
    BY <2>0, ConcatProperties
  <2> HIDE DEF q
  <2>2. DOMAIN q = 1 .. Len(p) + 1 /\ DOMAIN p = 1 .. Len(p)
    BY <2>1
  <2>3. q[1] = "pow" /\ \A i \in 2 .. Len(p) + 1 : q[i] = p[i - 1]
    BY <2>0, <2>1
  <2>4. Range(q) \subseteq {"pow"} \cup Range(p)
    <3> SUFFICES ASSUME NEW i \in 1 .. Len(p) + 1 PROVE q[i] \in {"pow"} \cup Range(p)
      BY <2>2 DEF Range
    <3>1. CASE i = 1
      BY <3>1, <2>3
    <3>2. CASE i # 1
      <4>1. i - 1 \in DOMAIN p /\ q[i] = p[i - 1]
        BY <3>2, <2>0, <2>2, <2>3
      <4> QED BY <4>1 DEF Range
    <3> QED BY <3>1, <3>2
  <2>5. {"pow"} \cup Range(p) \subseteq Range(q)
    <3>1. 1 \in DOMAIN q
      BY <2>0, <2>2
    <3>2. \A i \in DOMAIN p : i + 1 \in DOMAIN q /\ q[i + 1] = p[i]
      BY <2>0, <2>2, <2>3
    <3> QED BY <3>1, <3>2, <2>3 DEF Range
  <2>6. Range(q) = {"pow"} \cup Range(p)
    BY <2>4, <2>5
  <2> QED BY <2>1, <2>3, <2>6 DEF q
<1> QED BY <1>1, <1>2

LEMMA RestFacts ==
    ASSUME NEW p \in Seq(Ops), NEW w \in Seq(Ops), Rest(p, w), p # <<>>
    PROVE  /\ Rest(Tail(p), w) /\ Head(p) = w[Len(w) - Len(p) + 1]
           /\ Len(p) \in 1 .. Len(w) /\ Tail(p) \in Seq(Ops) /\ Len(Tail(p)) = Len(p) - 1
<1>1. /\ Tail(p) \in Seq(Ops) /\ Len(Tail(p)) = Len(p) - 1 /\ Head(p) = p[1]
      /\ Len(p) \in Nat \ {0} /\ Len(w) \in Nat
  OBVIOUS
<1>2. \A i \in 1 .. Len(p) - 1 : Tail(p)[i] = p[i + 1]
  BY <1>1, HeadTailProperties
<1>3. Rest(Tail(p), w)
  <2> SUFFICES ASSUME NEW j \in 1 .. Len(p) - 1 PROVE Tail(p)[j] = w[Len(w) - (Len(p) - 1) + j]
    BY <1>1 DEF Rest
  <2>1. p[j + 1] = w[Len(w) - Len(p) + (j + 1)]
    BY <1>1 DEF Rest
  <2>2. Len(w) - Len(p) + (j + 1) = Len(w) - (Len(p) - 1) + j
    BY <1>1
  <2> QED BY <1>2, <2>1, <2>2
<1> QED BY <1>1, <1>3 DEF Rest

LEMMA JoinedPlans ==
    ASSUME NEW s \in Seq(Ops), NEW t \in Seq(Ops), NEW u \in Seq(Ops), Len(u) = Len(s) + Len(t),
           \A i \in 1 .. Len(s) : u[i] = s[i], \A i \in 1 .. Len(t) : u[Len(s) + i] = t[i]
    PROVE  s \o t = u
<1>1. /\ s \o t \in Seq(Ops) /\ Len(s \o t) = Len(u) /\ Len(s) \in Nat /\ Len(t) \in Nat
      /\ \A i \in 1 .. Len(u) : (s \o t)[i] = IF i <= Len(s) THEN s[i] ELSE t[i - Len(s)]
  BY ConcatProperties
<1>2. ASSUME NEW i \in 1 .. Len(u) PROVE (s \o t)[i] = u[i]
  <2>1. CASE i <= Len(s)
    BY <1>1, <2>1
  <2>2. CASE ~(i <= Len(s))
    <3>1. i - Len(s) \in 1 .. Len(t) /\ Len(s) + (i - Len(s)) = i
      BY <1>1, <2>2
    <3>2. u[Len(s) + (i - Len(s))] = t[i - Len(s)]
      BY <3>1
    <3> QED BY <1>1, <2>2, <3>1, <3>2
  <2> QED BY <2>1, <2>2
<1> QED BY <1>1, <1>2, SeqEqual

\* The plans for a prompt without a file, and with one (which is never split).
LEMMA Plans ==
    ASSUME NEW r \in Requests
    PROVE  /\ ~r.file => SwitchPlan(r) = StartPlan(r)
           /\ r.file => StartPlan(r) = <<"pow", "upload", "wait", "create", "pow", "call">>
           /\ r.file => SwitchPlan(r) \in {<<"pow", "upload", "wait", "create", "pow", "call">>,
                                           <<"create", "pow", "pow", "upload", "wait", "call">>}
<1>1. r.segs \in Nat \ {0} /\ r.file \in BOOLEAN /\ (r.file => r.segs = 1)
  BY CompletionAssumption DEF Requests
<1>2. ASSUME r.file PROVE StartPlan(r) = <<"pow", "upload", "wait", "create", "pow", "call">>
  <2>1. FirePlan(r) = <<>>
    BY <1>1, <1>2 DEF FirePlan
  <2>2. StartPlan(r) = <<"pow", "upload", "wait">> \o <<"create">> \o <<>> \o <<"pow", "call">>
    BY <1>2, <2>1 DEF StartPlan, UploadPlan
  <2>3. <<"pow", "upload", "wait">> \o <<"create">> = <<"pow", "upload", "wait", "create">>
    <3> DEFINE s == <<"pow", "upload", "wait">>
               t == <<"create">>
               u == <<"pow", "upload", "wait", "create">>
    <3>1. s \in Seq(Ops) /\ t \in Seq(Ops) /\ u \in Seq(Ops)
      BY DEF Ops
    <3>2. Len(u) = Len(s) + Len(t)
      OBVIOUS
    <3>3. \A i \in 1 .. Len(s) : u[i] = s[i]
      OBVIOUS
    <3>4. \A i \in 1 .. Len(t) : u[Len(s) + i] = t[i]
      OBVIOUS
    <3> HIDE DEF s, t, u
    <3>5. s \o t = u
      BY <3>1, <3>2, <3>3, <3>4, JoinedPlans
    <3> QED BY <3>5 DEF s, t, u
  <2>4. <<"pow", "upload", "wait", "create">> \o <<>> = <<"pow", "upload", "wait", "create">>
    <3>1. <<"pow", "upload", "wait", "create">> \in Seq(Ops)
      BY DEF Ops
    <3> QED BY <3>1, ConcatEmptySeq
  <2>5. <<"pow", "upload", "wait", "create">> \o <<"pow", "call">> = <<"pow", "upload", "wait", "create", "pow", "call">>
    <3> DEFINE s == <<"pow", "upload", "wait", "create">>
               t == <<"pow", "call">>
               u == <<"pow", "upload", "wait", "create", "pow", "call">>
    <3>1. s \in Seq(Ops) /\ t \in Seq(Ops) /\ u \in Seq(Ops)
      BY DEF Ops
    <3>2. Len(u) = Len(s) + Len(t)
      OBVIOUS
    <3>3. \A i \in 1 .. Len(s) : u[i] = s[i]
      OBVIOUS
    <3>4. \A i \in 1 .. Len(t) : u[Len(s) + i] = t[i]
      OBVIOUS
    <3> HIDE DEF s, t, u
    <3>5. s \o t = u
      BY <3>1, <3>2, <3>3, <3>4, JoinedPlans
    <3> QED BY <3>5 DEF s, t, u
  <2> QED BY <2>2, <2>3, <2>4, <2>5
<1>3. ASSUME ~r.file PROVE SwitchPlan(r) = StartPlan(r)
  <2>1. CASE r.stream /\ r.segs = 1
    <3>1. FirePlan(r) = <<>>
      BY <2>1 DEF FirePlan
    <3>2. SwitchPlan(r) = <<"create", "pow">> \o <<>> \o <<"call">>
      BY <1>3, <2>1 DEF SwitchPlan, ReuploadPlan
    <3>3. StartPlan(r) = <<>> \o <<"create">> \o <<>> \o <<"pow", "call">>
      BY <1>3, <3>1 DEF StartPlan, UploadPlan
    <3> QED BY <3>2, <3>3
  <2>2. UploadPlan(r) = ReuploadPlan(r)
    BY DEF UploadPlan, ReuploadPlan
  <2> QED BY <2>1, <2>2 DEF SwitchPlan, StartPlan
<1>4. ASSUME r.file
      PROVE  SwitchPlan(r) \in {<<"pow", "upload", "wait", "create", "pow", "call">>,
                                <<"create", "pow", "pow", "upload", "wait", "call">>}
  <2>1. CASE r.stream /\ r.segs = 1
    <3>1. SwitchPlan(r) = <<"create", "pow">> \o <<"pow", "upload", "wait">> \o <<"call">>
      BY <1>4, <2>1 DEF SwitchPlan, ReuploadPlan
    <3>2. <<"create", "pow">> \o <<"pow", "upload", "wait">> = <<"create", "pow", "pow", "upload", "wait">>
      <4> DEFINE s == <<"create", "pow">>
                 t == <<"pow", "upload", "wait">>
                 u == <<"create", "pow", "pow", "upload", "wait">>
      <4>1. s \in Seq(Ops) /\ t \in Seq(Ops) /\ u \in Seq(Ops)
        BY DEF Ops
      <4>2. Len(u) = Len(s) + Len(t)
        OBVIOUS
      <4>3. \A i \in 1 .. Len(s) : u[i] = s[i]
        OBVIOUS
      <4>4. \A i \in 1 .. Len(t) : u[Len(s) + i] = t[i]
        OBVIOUS
      <4> HIDE DEF s, t, u
      <4>5. s \o t = u
        BY <4>1, <4>2, <4>3, <4>4, JoinedPlans
      <4> QED BY <4>5 DEF s, t, u
    <3>3. <<"create", "pow", "pow", "upload", "wait">> \o <<"call">> = <<"create", "pow", "pow", "upload", "wait", "call">>
      <4> DEFINE s == <<"create", "pow", "pow", "upload", "wait">>
                 t == <<"call">>
                 u == <<"create", "pow", "pow", "upload", "wait", "call">>
      <4>1. s \in Seq(Ops) /\ t \in Seq(Ops) /\ u \in Seq(Ops)
        BY DEF Ops
      <4>2. Len(u) = Len(s) + Len(t)
        OBVIOUS
      <4>3. \A i \in 1 .. Len(s) : u[i] = s[i]
        OBVIOUS
      <4>4. \A i \in 1 .. Len(t) : u[Len(s) + i] = t[i]
        OBVIOUS
      <4> HIDE DEF s, t, u
      <4>5. s \o t = u
        BY <4>1, <4>2, <4>3, <4>4, JoinedPlans
      <4> QED BY <4>5 DEF s, t, u
    <3> QED BY <3>1, <3>2, <3>3
  <2>2. UploadPlan(r) = ReuploadPlan(r)
    BY DEF UploadPlan, ReuploadPlan
  <2> QED BY <1>2, <1>4, <2>1, <2>2 DEF SwitchPlan, StartPlan
<1> QED BY <1>2, <1>3, <1>4

LEMMA SegmentPlan ==
    ASSUME NEW r \in Requests, ~r.file
    PROVE  LET w == StartPlan(r)
           IN  /\ w \in Seq(Ops) /\ Len(w) = 2 * r.segs + 1
               /\ w[1] = "create" /\ w[2 * r.segs + 1] = "call" /\ w[2 * r.segs] = "pow"
               /\ \A j \in 2 .. 2 * r.segs : w[j] = IF j % 2 = 0 THEN "pow" ELSE "fire"
<1> DEFINE n == 2 * (r.segs - 1)
           f == [i \in 1 .. n |-> IF i % 2 = 1 THEN "pow" ELSE "fire"]
           c == <<"create">>
           e == <<"pow", "call">>
           w == StartPlan(r)
<1>1. r.segs \in Nat \ {0} /\ n \in Nat /\ n + 2 = 2 * r.segs /\ n % 2 = 0
  BY CompletionAssumption DEF Requests
<1>2. f \in Seq(Ops) /\ Len(f) = n /\ \A i \in 1 .. n : f[i] = IF i % 2 = 1 THEN "pow" ELSE "fire"
  BY <1>1 DEF Ops
<1>3. c \in Seq(Ops) /\ Len(c) = 1 /\ c[1] = "create" /\ e \in Seq(Ops) /\ Len(e) = 2
      /\ e[1] = "pow" /\ e[2] = "call"
  BY DEF Ops
<1>4. w = <<>> \o c \o f \o e
  BY DEF StartPlan, UploadPlan, FirePlan
<1> HIDE DEF n, f, c, e, w
<1>5. <<>> \o c = c
  BY <1>3, ConcatEmptySeq
<1>6. /\ c \o f \in Seq(Ops) /\ Len(c \o f) = 1 + n
      /\ \A i \in 1 .. 1 + n : (c \o f)[i] = IF i <= 1 THEN c[i] ELSE f[i - 1]
  <2>1. /\ c \o f \in Seq(Ops) /\ Len(c \o f) = Len(c) + Len(f)
        /\ \A i \in 1 .. Len(c) + Len(f) : (c \o f)[i] = IF i <= Len(c) THEN c[i] ELSE f[i - Len(c)]
    BY <1>2, <1>3, ConcatProperties
  <2>2. Len(c) = 1 /\ Len(f) = n
    BY <1>2, <1>3
  <2> QED BY <2>1, <2>2
<1>7. /\ w \in Seq(Ops) /\ Len(w) = 1 + n + 2
      /\ \A i \in 1 .. 1 + n + 2 : w[i] = IF i <= 1 + n THEN (c \o f)[i] ELSE e[i - (1 + n)]
  <2> DEFINE g == c \o f
  <2>1. g \in Seq(Ops) /\ Len(g) = 1 + n /\ w = g \o e
    BY <1>4, <1>5, <1>6
  <2> HIDE DEF g
  <2>2. /\ g \o e \in Seq(Ops) /\ Len(g \o e) = Len(g) + Len(e)
        /\ \A i \in 1 .. Len(g) + Len(e) : (g \o e)[i] = IF i <= Len(g) THEN g[i] ELSE e[i - Len(g)]
    BY <1>3, <2>1, ConcatProperties
  <2>3. /\ w \in Seq(Ops) /\ Len(w) = 1 + n + 2
        /\ \A i \in 1 .. 1 + n + 2 : w[i] = IF i <= 1 + n THEN g[i] ELSE e[i - (1 + n)]
    BY <1>3, <2>1, <2>2
  <2> QED BY <2>3 DEF g
<1>8. w[1] = "create" /\ w[n + 3] = "call" /\ w[n + 2] = "pow"
  <2>1. w[1] = (c \o f)[1] /\ (c \o f)[1] = c[1]
    BY <1>1, <1>6, <1>7
  <2>2. w[n + 3] = e[2]
    <3>1. n + 3 \in 1 .. 1 + n + 2 /\ ~(n + 3 <= 1 + n) /\ n + 3 - (1 + n) = 2
      BY <1>1
    <3>2. w[n + 3] = IF n + 3 <= 1 + n THEN (c \o f)[n + 3] ELSE e[n + 3 - (1 + n)]
      BY <1>1, <1>7, <3>1
    <3> QED BY <3>1, <3>2
  <2>3. w[n + 2] = e[1]
    <3>1. n + 2 \in 1 .. 1 + n + 2 /\ ~(n + 2 <= 1 + n) /\ n + 2 - (1 + n) = 1
      BY <1>1
    <3>2. w[n + 2] = IF n + 2 <= 1 + n THEN (c \o f)[n + 2] ELSE e[n + 2 - (1 + n)]
      BY <1>1, <1>7, <3>1
    <3> QED BY <3>1, <3>2
  <2> QED BY <1>3, <2>1, <2>2, <2>3
<1>9. \A j \in 2 .. n + 1 : w[j] = IF (j - 1) % 2 = 1 THEN "pow" ELSE "fire"
  <2> SUFFICES ASSUME NEW j \in 2 .. n + 1 PROVE w[j] = IF (j - 1) % 2 = 1 THEN "pow" ELSE "fire"
    OBVIOUS
  <2>1. j \in 1 .. 1 + n + 2 /\ j \in 1 .. 1 + n /\ j - 1 \in 1 .. n /\ j <= 1 + n /\ ~(j <= 1)
    BY <1>1
  <2>2. w[j] = (c \o f)[j]
    BY <1>7, <2>1
  <2>3. (c \o f)[j] = f[j - 1]
    BY <1>6, <2>1
  <2> QED BY <1>2, <2>1, <2>2, <2>3
<1>10. \A j \in 2 .. n + 2 : w[j] = IF j % 2 = 0 THEN "pow" ELSE "fire"
  <2> SUFFICES ASSUME NEW j \in 2 .. n + 2 PROVE w[j] = IF j % 2 = 0 THEN "pow" ELSE "fire"
    OBVIOUS
  <2>1. (n + 2) % 2 = 0 /\ ((j - 1) % 2 = 1 <=> j % 2 = 0)
    BY <1>1
  <2>2. CASE j = n + 2
    BY <1>8, <2>1, <2>2
  <2>3. CASE j # n + 2
    <3>1. j \in 2 .. n + 1
      BY <1>1, <2>3
    <3> QED BY <1>9, <2>1, <3>1
  <2> QED BY <2>2, <2>3
<1>11. n + 3 = 2 * r.segs + 1 /\ 1 + n + 2 = 2 * r.segs + 1
  BY <1>1
<1> QED BY <1>1, <1>7, <1>8, <1>10, <1>11 DEF w

\* The first step of p, and what the steps after it are.
InOrder(p, w) ==
    /\ Head(p) \in Ops /\ Tail(p) \in Seq(Ops) /\ Len(Tail(p)) = Len(p) - 1
    /\ Rest(Tail(p), w) /\ Len(p) \in Nat \ {0}
    /\ Len(p) = 1 <=> Head(p) = "call"
    /\ Head(p) = "call" => Range(p) = {"call"}
    /\ Head(p) = "fire" =>
         /\ leg # "retry" /\ ~req.file /\ Range(p) \subseteq {"fire", "pow", "call"}
         /\ "call" \in Range(p) /\ Len(p) % 2 = 1 /\ Len(p) > 1
    /\ Head(p) = "upload" =>
         leg # "retry" /\ req.file /\ "wait" \in Range(Tail(p)) /\ Rest(<<"pow">> \o p, w)
    /\ Head(p) = "wait" => leg # "retry" /\ req.file
    /\ Head(p) = "create" => leg # "retry" /\ (~req.file => Len(p) = 2 * req.segs + 1)
    /\ Head(p) = "pow" /\ "fire" \in Range(p) => ~req.file /\ Len(p) % 2 = 0
    /\ Head(p) \notin {"read", "collect"} /\ (req.file => "fire" \notin Range(p))

LEMMA RetryInOrder ==
    ASSUME leg = "retry", NEW p \in Seq(Ops), p # <<>>, Rest(p, RetryPlan)
    PROVE  InOrder(p, RetryPlan)
<1> DEFINE w == <<"pow", "call">>
<1>1. w = RetryPlan /\ w \in Seq(Ops) /\ Len(w) = 2 /\ w[1] = "pow" /\ w[2] = "call"
  BY DEF RetryPlan, Ops
<1> HIDE DEF w
<1>2. /\ Rest(Tail(p), w) /\ Head(p) = w[Len(w) - Len(p) + 1]
      /\ Len(p) \in 1 .. Len(w) /\ Tail(p) \in Seq(Ops) /\ Len(Tail(p)) = Len(p) - 1
  BY <1>1, RestFacts
<1>3. Len(p) \in {1, 2} /\ DOMAIN p = 1 .. Len(p)
  BY <1>1, <1>2
<1>4. \A j \in 1 .. Len(p) : p[j] = w[2 - Len(p) + j]
  BY <1>1 DEF Rest
<1>5. CASE Len(p) = 1
  <2>1. p[1] = "call" /\ DOMAIN p = {1}
    BY <1>1, <1>3, <1>4, <1>5
  <2>2. Range(p) = {"call"} /\ Head(p) = "call"
    BY <1>1, <1>2, <1>5, <2>1 DEF Range
  <2> QED BY <1>1, <1>2, <1>5, <2>2 DEF InOrder, Ops
<1>6. CASE Len(p) = 2
  <2>1. p[1] = "pow" /\ p[2] = "call" /\ DOMAIN p = {1, 2}
    BY <1>1, <1>3, <1>4, <1>6
  <2>2. Range(p) = {"pow", "call"} /\ Head(p) = "pow"
    BY <1>1, <1>2, <1>6, <2>1 DEF Range
  <2> QED BY <1>1, <1>2, <1>6, <2>2 DEF InOrder, Ops
<1> QED BY <1>3, <1>5, <1>6

LEMMA SegmentsInOrder ==
    ASSUME req \in Requests, ~req.file, leg # "retry",
           NEW p \in Seq(Ops), p # <<>>, Rest(p, StartPlan(req))
    PROVE  InOrder(p, StartPlan(req))
<1> DEFINE w == StartPlan(req)
           n == 2 * req.segs
<1>1. /\ w \in Seq(Ops) /\ Len(w) = n + 1
      /\ w[1] = "create" /\ w[n + 1] = "call" /\ w[n] = "pow"
      /\ \A j \in 2 .. n : w[j] = IF j % 2 = 0 THEN "pow" ELSE "fire"
  BY SegmentPlan
<1>2. req.segs \in Nat \ {0} /\ n \in Nat /\ n > 1 /\ n % 2 = 0
  BY CompletionAssumption DEF Requests
<1> HIDE DEF w
<1>3. /\ Rest(Tail(p), w) /\ Head(p) = w[Len(w) - Len(p) + 1]
      /\ Len(p) \in 1 .. Len(w) /\ Tail(p) \in Seq(Ops) /\ Len(Tail(p)) = Len(p) - 1
      /\ Rest(p, w)
  <2>1. Rest(p, w)
    BY DEF w
  <2> QED BY <1>1, <2>1, RestFacts
<1> HIDE DEF n
<1>0. PICK l \in 1 .. n + 1 : l = Len(p)
  BY <1>1, <1>3
<1> DEFINE i == n + 2 - l
<1>4. i \in 1 .. n + 1 /\ l \in 1 .. n + 1 /\ l = n + 2 - i /\ Head(p) = w[i] /\ DOMAIN p = 1 .. l
  <2>1. Len(w) - Len(p) + 1 = i /\ i \in 1 .. n + 1 /\ l = n + 2 - i
    BY <1>0, <1>1, <1>2
  <2> QED BY <1>0, <1>3, <2>1
<1> HIDE DEF i
<1>5. \A j \in 1 .. l : p[j] = w[i - 1 + j]
  <2> SUFFICES ASSUME NEW j \in 1 .. l PROVE p[j] = w[i - 1 + j]
    OBVIOUS
  <2>1. p[j] = w[Len(w) - Len(p) + j]
    BY <1>0, <1>3 DEF Rest
  <2>2. Len(w) - Len(p) + j = i - 1 + j
    BY <1>0, <1>1, <1>2, <1>4
  <2> QED BY <2>1, <2>2
<1>6. \/ i = 1 /\ Head(p) = "create"
      \/ i = n + 1 /\ Head(p) = "call"
      \/ i \in 2 .. n /\ Head(p) = (IF i % 2 = 0 THEN "pow" ELSE "fire")
  <2>1. i = 1 \/ i = n + 1 \/ i \in 2 .. n
    BY <1>2, <1>4
  <2> QED BY <1>1, <1>4, <2>1
<1>7. ASSUME i \in 2 .. n
      PROVE  Range(p) \subseteq {"fire", "pow", "call"} /\ "call" \in Range(p)
  <2>1. \A j \in 1 .. l : w[i - 1 + j] \in {"fire", "pow", "call"}
    <3> SUFFICES ASSUME NEW j \in 1 .. l PROVE w[i - 1 + j] \in {"fire", "pow", "call"}
      OBVIOUS
    <3>1. i - 1 + j \in 2 .. n \/ i - 1 + j = n + 1
      BY <1>2, <1>4, <1>7
    <3> QED BY <1>1, <3>1
  <2>2. l \in DOMAIN p /\ p[l] = "call"
    <3>1. i - 1 + l = n + 1 /\ l \in 1 .. l
      BY <1>2, <1>4
    <3> QED BY <1>1, <1>4, <1>5, <3>1
  <2> QED BY <1>4, <1>5, <2>1, <2>2 DEF Range
<1>8. i \in 2 .. n => (l % 2 = 0 <=> i % 2 = 0) /\ (l % 2 = 1 <=> i % 2 # 0)
  BY <1>2, <1>4
<1>9. CASE i = 1
  <2>1. Head(p) = "create" /\ l = n + 1 /\ l # 1
    BY <1>2, <1>4, <1>6, <1>9
  <2>2. l = 2 * req.segs + 1
    BY <2>1 DEF n
  <2> QED BY <1>0, <1>3, <1>4, <2>1, <2>2 DEF InOrder, Ops, w
<1>10. CASE i = n + 1
  <2>1. l = 1 /\ Head(p) = "call" /\ p[1] = "call" /\ DOMAIN p = {1}
    BY <1>1, <1>2, <1>4, <1>5, <1>10
  <2>2. Range(p) = {"call"}
    BY <2>1 DEF Range
  <2> QED BY <1>0, <1>1, <1>3, <1>4, <2>1, <2>2 DEF InOrder, Ops, w
<1>11. CASE i \in 2 .. n
  <2>0. l # 1
    BY <1>2, <1>4, <1>11
  <2>1. CASE i % 2 = 0
    BY <1>0, <1>2, <1>3, <1>4, <1>6, <1>8, <1>11, <2>0, <2>1 DEF InOrder, Ops, w
  <2>2. CASE i % 2 # 0
    <3>1. Head(p) = "fire" /\ l % 2 = 1 /\ l > 1
      BY <1>2, <1>4, <1>6, <1>8, <1>11, <2>2
    <3> QED BY <1>0, <1>3, <1>4, <1>7, <1>11, <3>1 DEF InOrder, Ops, w
  <2> QED BY <2>1, <2>2
<1> QED BY <1>4, <1>6, <1>9, <1>10, <1>11

\* With a file the plans are six steps each.
UploadsFirst(w) ==
    /\ w \in Seq(Ops) /\ Len(w) = 6 /\ w[6] = "call" /\ "call" \notin {w[j] : j \in 1 .. 5}
    /\ \A j \in 1 .. 6 : w[j] \in Ops \ {"fire", "read", "collect"}
    /\ \A j \in 1 .. 6 : w[j] = "upload" => j \in 2 .. 5 /\ w[j + 1] = "wait" /\ w[j - 1] = "pow"

LEMMA FilePlans ==
    /\ UploadsFirst(<<"pow", "upload", "wait", "create", "pow", "call">>)
    /\ UploadsFirst(<<"create", "pow", "pow", "upload", "wait", "call">>)
<1>0. \A j \in 1 .. 6 : j = 1 \/ j = 2 \/ j = 3 \/ j = 4 \/ j = 5 \/ j = 6
  OBVIOUS
<1>1. ASSUME NEW w, w = <<"pow", "upload", "wait", "create", "pow", "call">> PROVE UploadsFirst(w)
  <2>1. w \in Seq(Ops) /\ Len(w) = 6
    BY <1>1 DEF Ops
  <2>2. /\ w[1] = "pow" /\ w[2] = "upload" /\ w[3] = "wait" /\ w[4] = "create"
        /\ w[5] = "pow" /\ w[6] = "call"
    BY <1>1
  <2> QED BY <1>0, <2>1, <2>2 DEF UploadsFirst, Ops
<1>2. ASSUME NEW w, w = <<"create", "pow", "pow", "upload", "wait", "call">> PROVE UploadsFirst(w)
  <2>1. w \in Seq(Ops) /\ Len(w) = 6
    BY <1>2 DEF Ops
  <2>2. /\ w[1] = "create" /\ w[2] = "pow" /\ w[3] = "pow" /\ w[4] = "upload"
        /\ w[5] = "wait" /\ w[6] = "call"
    BY <1>2
  <2> QED BY <1>0, <2>1, <2>2 DEF UploadsFirst, Ops
<1> QED BY <1>1, <1>2

LEMMA FileInOrder ==
    ASSUME leg # "retry", req.file, NEW p \in Seq(Ops), p # <<>>, NEW w, UploadsFirst(w), Rest(p, w)
    PROVE  InOrder(p, w)
<1>1. /\ w \in Seq(Ops) /\ Len(w) = 6 /\ w[6] = "call" /\ "call" \notin {w[j] : j \in 1 .. 5}
      /\ \A j \in 1 .. 6 : w[j] \in Ops \ {"fire", "read", "collect"}
      /\ \A j \in 1 .. 6 : w[j] = "upload" => j \in 2 .. 5 /\ w[j + 1] = "wait" /\ w[j - 1] = "pow"
  BY DEF UploadsFirst
<1>2. /\ Rest(Tail(p), w) /\ Head(p) = w[Len(w) - Len(p) + 1]
      /\ Len(p) \in 1 .. Len(w) /\ Tail(p) \in Seq(Ops) /\ Len(Tail(p)) = Len(p) - 1
  BY <1>1, RestFacts
<1>0. PICK l \in 1 .. 6 : l = Len(p)
  BY <1>1, <1>2
<1>3. l \in 1 .. 6 /\ DOMAIN p = 1 .. l /\ Head(p) = w[7 - l] /\ 7 - l \in 1 .. 6
  <2>1. Len(w) = 6
    BY <1>1
  <2>2. 7 - l \in 1 .. 6 /\ 6 - l + 1 = 7 - l
    BY ONLY l \in 1 .. 6
  <2>3. Head(p) = w[6 - l + 1]
    BY <1>0, <1>2, <2>1
  <2>4. Head(p) = w[7 - l] /\ DOMAIN p = 1 .. l
    BY <1>0, <2>2, <2>3
  <2> QED BY <2>2, <2>4
<1>4. \A j \in 1 .. l : p[j] = w[6 - l + j] /\ 6 - l + j \in 1 .. 6
  <2> SUFFICES ASSUME NEW j \in 1 .. l PROVE p[j] = w[6 - l + j] /\ 6 - l + j \in 1 .. 6
    OBVIOUS
  <2>1. p[j] = w[Len(w) - Len(p) + j]
    BY <1>0 DEF Rest
  <2>2. Len(w) = 6 /\ Len(p) = l
    BY <1>0, <1>1
  <2>3. 6 - l + j \in 1 .. 6
    BY ONLY l \in 1 .. 6, j \in 1 .. l
  <2> QED BY <2>1, <2>2, <2>3
<1>5. Range(p) \subseteq Ops \ {"fire", "read", "collect"}
  <2>1. \A j \in 1 .. 6 : w[j] \in Ops \ {"fire", "read", "collect"}
    BY <1>1
  <2> QED BY <1>3, <1>4, <2>1 DEF Range
<1>6. ASSUME Head(p) = "call" PROVE l = 1 /\ Range(p) = {"call"}
  <2>1. 7 - l = 6
    BY <1>1, <1>3, <1>6
  <2>2. l = 1 /\ DOMAIN p = {1} /\ p[1] = "call"
    BY <1>1, <1>3, <1>4, <2>1
  <2> QED BY <2>2 DEF Range
<1>8. ASSUME l = 1 PROVE Head(p) = "call"
  BY <1>1, <1>3, <1>8
<1>7. ASSUME Head(p) = "upload" PROVE "wait" \in Range(Tail(p)) /\ Rest(<<"pow">> \o p, w)
  <2>1. w[7 - l] = "upload" /\ 7 - l \in 2 .. 5 /\ w[8 - l] = "wait" /\ w[6 - l] = "pow"
    <3>1. 7 - l + 1 = 8 - l /\ 7 - l - 1 = 6 - l
      BY <1>3
    <3>2. 7 - l \in 2 .. 5 /\ w[7 - l + 1] = "wait" /\ w[7 - l - 1] = "pow"
      BY <1>1, <1>3, <1>7
    <3> QED BY <1>3, <1>7, <3>1, <3>2
  <2>2. "wait" \in Range(Tail(p))
    <3>1. 1 \in 1 .. l - 1 /\ l - 1 = Len(Tail(p)) /\ Rest(Tail(p), w)
      BY <1>0, <1>2, <1>3, <2>1
    <3>2. Tail(p)[1] = w[Len(w) - Len(Tail(p)) + 1]
      BY <3>1 DEF Rest
    <3>3. Len(w) - Len(Tail(p)) + 1 = 8 - l /\ 1 \in DOMAIN Tail(p)
      BY <1>0, <1>1, <1>2, <1>3, <3>1
    <3> QED BY <2>1, <3>2, <3>3 DEF Range
  <2>3. Rest(<<"pow">> \o p, w)
    <3> DEFINE q == <<"pow">> \o p
    <3>3. /\ q \in Seq(Ops) /\ Len(q) = l + 1 /\ q[1] = "pow"
          /\ \A j \in 2 .. l + 1 : q[j] = p[j - 1]
      BY <1>0, RangeFacts
    <3> HIDE DEF q
    <3>4. ASSUME NEW j \in 1 .. l + 1 PROVE q[j] = w[6 - (l + 1) + j]
      <4>1. CASE j = 1
        <5>1. 6 - (l + 1) + j = 6 - l
          BY <1>0, <4>1
        <5> QED BY <2>1, <3>3, <4>1, <5>1
      <4>2. CASE j # 1
        <5>1. j - 1 \in 1 .. l /\ 6 - l + (j - 1) = 6 - (l + 1) + j /\ j \in 2 .. l + 1
          BY <1>0, <4>2
        <5>2. p[j - 1] = w[6 - l + (j - 1)]
          BY <1>4, <5>1
        <5> QED BY <3>3, <5>1, <5>2
      <4> QED BY <4>1, <4>2
    <3>5. Rest(q, w)
      BY <1>0, <1>1, <1>3, <2>1, <3>3, <3>4 DEF Rest
    <3> QED BY <3>5 DEF q
  <2> QED BY <2>2, <2>3
<1> QED BY <1>0, <1>1, <1>2, <1>3, <1>5, <1>6, <1>7, <1>8 DEF InOrder

LEMMA Order ==
    ASSUME Types, OnPlan, result = "", ~Reading
    PROVE  plan # <<>> /\ InOrder(plan, Whole)
<1>1. plan \in Seq(Ops) /\ plan # <<>> /\ req \in Requests /\ leg \in Legs /\ Rest(plan, Whole)
  BY DEF Types, OnPlan
<1>2. CASE leg = "retry"
  BY <1>1, <1>2, RetryInOrder DEF Whole
<1>3. CASE leg # "retry" /\ ~req.file
  <2>1. Whole = StartPlan(req)
    BY <1>1, <1>3, Plans DEF Whole
  <2> QED BY <1>1, <1>3, <2>1, SegmentsInOrder
<1>4. CASE leg # "retry" /\ req.file
  <2>1. Whole \in {<<"pow", "upload", "wait", "create", "pow", "call">>,
                   <<"create", "pow", "pow", "upload", "wait", "call">>}
    BY <1>1, <1>4, Plans DEF Whole
  <2> QED BY <1>1, <1>4, <2>1, FilePlans, FileInOrder
<1> QED BY <1>2, <1>3, <1>4

-----------------------------------------------------------------------------
(* What a step may do to the account and to the plan.                      *)

\* w is who the request may be after it was v.
Later(w, v) == WhoTypes(w) /\ w.named >= v.named /\ w.token \in {0, w.named, v.token}

LEMMA Whos ==
    ASSUME Types, WhoTypes(who)
    PROVE  /\ \A s \in Switched(who) : Later(s, who) /\ s.named > who.named /\ s.token = s.named
           /\ \A s \in Unswitched(who) : Later(s, who)
           /\ Later(Refreshed, who) /\ Later(who, who)
           /\ \A authLike \in BOOLEAN : \A o \in AfterRejection(authLike) :
                Later(o[1], who) /\ o[2] \in LoopStates
<1> DEFINE Who == [named : Nat, token : Nat, left : Nat]
<1>0. who \in Who /\ loop \in LoopStates /\ who.named \in Nat /\ who.token \in Nat /\ who.left \in Nat
  BY DEF Types, WhoTypes
<1>1. ASSUME NEW w \in Who, Later(w, who), NEW s \in Switched(w)
      PROVE  Later(s, who) /\ s.named > w.named /\ s.token = s.named
  <2>1. PICK k \in 1 .. w.left : s = [named |-> w.named + k, token |-> w.named + k, left |-> w.left - k]
    BY <1>1 DEF Switched
  <2>2. s \in Who /\ s.named = w.named + k /\ s.token = w.named + k /\ s.left = w.left - k
    BY <1>1, <2>1
  <2> QED BY <1>0, <1>1, <2>2 DEF Later, WhoTypes
<1>2. ASSUME NEW w \in Who, Later(w, who), w.token \in {0, who.token}, NEW s \in Unswitched(w)
      PROVE  Later(s, who)
  <2>1. PICK k \in 0 .. w.left : s = [w EXCEPT !.named = @ + k, !.left = @ - k]
    BY <1>2 DEF Unswitched
  <2>2. w.named + k \in Nat /\ w.left - k \in Nat /\ w.token \in Nat
    BY <1>2
  <2>3. s = [named |-> w.named + k, token |-> w.token, left |-> w.left - k]
    BY <1>2, <2>1
  <2>4. s \in Who /\ s.named = w.named + k /\ s.token = w.token /\ s.left = w.left - k
    BY <2>2, <2>3
  <2> QED BY <1>0, <1>2, <2>4 DEF Later, WhoTypes
<1>3. Later(who, who)
  BY <1>0 DEF Later, WhoTypes
<1>4. Later(Refreshed, who)
  <2>1. /\ Refreshed \in Who /\ Refreshed.named = who.named /\ Refreshed.token = who.named
        /\ Refreshed.left = who.left
    BY <1>0 DEF Refreshed
  <2> QED BY <1>0, <2>1 DEF Later, WhoTypes
<1>5. \A w \in Unrefreshed : w \in Who /\ Later(w, who) /\ w.token \in {0, who.token}
  <2>1. DEFINE z == [who EXCEPT !.token = 0]
  <2>2. z \in Who /\ z.named = who.named /\ z.token = 0 /\ z.left = who.left
    BY <1>0
  <2> QED BY <1>0, <1>3, <2>2 DEF Unrefreshed, Later, WhoTypes
<1>6. ASSUME NEW authLike \in BOOLEAN, NEW o \in AfterRejection(authLike)
      PROVE  Later(o[1], who) /\ o[2] \in LoopStates
  <2>1. CASE o = <<Refreshed, [loop EXCEPT !.refreshed = TRUE]>>
    BY <1>0, <1>4, <2>1 DEF LoopStates
  <2>2. CASE o # <<Refreshed, [loop EXCEPT !.refreshed = TRUE]>>
    <3>1. PICK w \in Unrefreshed \cup {who} :
            o \in {<<s, [tries |-> loop.tries + 1, refreshed |-> FALSE]>> : s \in Switched(w)}
                  \cup {<<s, Tried(loop)>> : s \in Unswitched(w)}
      BY <2>2 DEF AfterRejection
    <3>2. w \in Who /\ Later(w, who) /\ w.token \in {0, who.token}
      BY <1>0, <1>3, <1>5
    <3>3. CASE o \in {<<s, [tries |-> loop.tries + 1, refreshed |-> FALSE]>> : s \in Switched(w)}
      <4>1. PICK s \in Switched(w) : o = <<s, [tries |-> loop.tries + 1, refreshed |-> FALSE]>>
        BY <3>3
      <4>2. [tries |-> loop.tries + 1, refreshed |-> FALSE] \in LoopStates
        BY <1>0 DEF LoopStates
      <4>3. Later(s, who)
        BY <1>1, <3>2
      <4> QED BY <4>1, <4>2, <4>3
    <3>4. CASE o \in {<<s, Tried(loop)>> : s \in Unswitched(w)}
      <4>1. Tried(loop) \in LoopStates
        BY <1>0 DEF Tried, LoopStates
      <4> QED BY <1>2, <3>2, <3>4, <4>1
    <3> QED BY <3>1, <3>3, <3>4
  <2> QED BY <2>1, <2>2
<1> QED BY <1>0, <1>1, <1>2, <1>3, <1>4, <1>6

\* A plan of six calls has a first one.
LEMMA SixCalls ==
    ASSUME NEW w \in Seq(Ops), Len(w) = 6
    PROVE  w # <<>> /\ Head(w) = w[1] /\ DOMAIN w = 1 .. 6
  OBVIOUS

LEMMA Wholes ==
    ASSUME Types
    PROVE  /\ Whole \in Seq(Ops) /\ Rest(<<>>, Whole) /\ SwitchPlan(req) \in Seq(Ops)
           /\ SwitchPlan(req) # <<>> /\ Rest(SwitchPlan(req), SwitchPlan(req))
           /\ Head(SwitchPlan(req)) \in {"create", "pow"} /\ "create" \in Range(SwitchPlan(req))
           /\ req.file => {"upload", "wait"} \subseteq Range(SwitchPlan(req))
           /\ StartPlan(req) \in Seq(Ops) /\ RetryPlan \in Seq(Ops)
<1>0. req \in Requests /\ leg \in Legs /\ req.file \in BOOLEAN
  BY DEF Types, Requests
<1>1. RetryPlan \in Seq(Ops)
  BY DEF RetryPlan, Ops
<1>2. ASSUME req.file
      PROVE  /\ StartPlan(req) \in Seq(Ops) /\ SwitchPlan(req) \in Seq(Ops) /\ SwitchPlan(req) # <<>>
             /\ Head(SwitchPlan(req)) \in {"create", "pow"}
             /\ {"create", "upload", "wait"} \subseteq Range(SwitchPlan(req))
  <2>1. /\ StartPlan(req) = <<"pow", "upload", "wait", "create", "pow", "call">>
        /\ SwitchPlan(req) \in {<<"pow", "upload", "wait", "create", "pow", "call">>,
                                <<"create", "pow", "pow", "upload", "wait", "call">>}
    BY <1>0, <1>2, Plans
  <2>2. StartPlan(req) \in Seq(Ops)
    BY <2>1, FilePlans DEF UploadsFirst
  <2>3. CASE SwitchPlan(req) = <<"pow", "upload", "wait", "create", "pow", "call">>
    <3> DEFINE w == <<"pow", "upload", "wait", "create", "pow", "call">>
    <3>1. w \in Seq(Ops) /\ Len(w) = 6 /\ w[1] = "pow" /\ w[2] = "upload" /\ w[3] = "wait" /\ w[4] = "create"
      BY DEF Ops
    <3> HIDE DEF w
    <3>2. Head(w) = "pow" /\ w # <<>> /\ DOMAIN w = 1 .. 6
      BY <3>1, SixCalls
    <3>3. {"create", "upload", "wait"} \subseteq Range(w)
      <4>1. 2 \in DOMAIN w /\ 3 \in DOMAIN w /\ 4 \in DOMAIN w
        BY <3>2
      <4> QED BY <3>1, <4>1 DEF Range
    <3>4. SwitchPlan(req) = w
      BY <2>3 DEF w
    <3> QED BY <2>2, <3>1, <3>2, <3>3, <3>4
  <2>4. CASE SwitchPlan(req) = <<"create", "pow", "pow", "upload", "wait", "call">>
    <3> DEFINE w == <<"create", "pow", "pow", "upload", "wait", "call">>
    <3>1. w \in Seq(Ops) /\ Len(w) = 6 /\ w[1] = "create" /\ w[4] = "upload" /\ w[5] = "wait"
      BY DEF Ops
    <3> HIDE DEF w
    <3>2. Head(w) = "create" /\ w # <<>> /\ DOMAIN w = 1 .. 6
      BY <3>1, SixCalls
    <3>3. {"create", "upload", "wait"} \subseteq Range(w)
      <4>1. 1 \in DOMAIN w /\ 4 \in DOMAIN w /\ 5 \in DOMAIN w
        BY <3>2
      <4> QED BY <3>1, <4>1 DEF Range
    <3>4. SwitchPlan(req) = w
      BY <2>4 DEF w
    <3> QED BY <2>2, <3>1, <3>2, <3>3, <3>4
  <2> QED BY <2>1, <2>3, <2>4
<1>3. ASSUME ~req.file
      PROVE  /\ StartPlan(req) \in Seq(Ops) /\ SwitchPlan(req) = StartPlan(req)
             /\ SwitchPlan(req) # <<>> /\ Head(SwitchPlan(req)) = "create"
             /\ "create" \in Range(SwitchPlan(req))
  <2> DEFINE w == StartPlan(req)
  <2>1. w \in Seq(Ops) /\ Len(w) = 2 * req.segs + 1 /\ w[1] = "create"
    BY <1>0, <1>3, SegmentPlan
  <2>2. SwitchPlan(req) = w
    BY <1>0, <1>3, Plans
  <2>3. Len(w) \in Nat \ {0}
    BY <1>0, <2>1, CompletionAssumption DEF Requests
  <2> HIDE DEF w
  <2>4. w # <<>> /\ Head(w) = "create" /\ 1 \in DOMAIN w
    BY <2>1, <2>3
  <2>5. "create" \in Range(w)
    BY <2>1, <2>4 DEF Range
  <2> QED BY <2>1, <2>2, <2>4, <2>5 DEF w
<1>4. Whole \in Seq(Ops) /\ SwitchPlan(req) \in Seq(Ops)
  BY <1>0, <1>1, <1>2, <1>3 DEF Whole
<1>5. Rest(<<>>, Whole)
  BY <1>4 DEF Rest
<1>6. Rest(SwitchPlan(req), SwitchPlan(req))
  <2>1. Len(SwitchPlan(req)) \in Nat
    BY <1>4
  <2>2. \A j \in 1 .. Len(SwitchPlan(req)) : Len(SwitchPlan(req)) - Len(SwitchPlan(req)) + j = j
    BY <2>1
  <2> QED BY <2>1, <2>2 DEF Rest
<1> QED BY <1>0, <1>1, <1>2, <1>3, <1>4, <1>5, <1>6

LEMMA NoSteps == Range(<<>>) = {} /\ Len(<<>>) = 0 /\ <<>> \in Seq(Ops)
BY DEF Range

LEMMA LoopFacts ==
    /\ NoLoop \in LoopStates /\ NoLoop.tries = 0 /\ 0 < MaxAttempts /\ 0 < MaxPolls
    /\ \A l \in LoopStates : Tried(l) \in LoopStates /\ Tried(l).tries = l.tries + 1
    /\ \A l \in LoopStates, b \in BOOLEAN : [tries |-> l.tries + 1, refreshed |-> b] \in LoopStates
BY CompletionAssumption DEF NoLoop, LoopStates, Tried

LEMMA PlanStep ==
    Types /\ OnPlan /\ result = "" /\ ~Reading /\ UNCHANGED <<req, leg>> =>
           /\ plan' = plan => OnPlan'
           /\ plan' = <<>> => OnPlan' /\ plan' \in Seq(Ops) /\ Ahead' = {}
           /\ plan' = Tail(plan) =>
                /\ OnPlan' /\ plan' \in Seq(Ops) /\ Ahead = {Head(plan)} \cup Ahead'
                /\ Head(plan) # "call" => plan' # <<>>
           /\ plan' = <<"pow">> \o plan /\ Head(plan) = "upload" =>
                /\ OnPlan' /\ plan' \in Seq(Ops) /\ Ahead' = {"pow"} \cup Ahead
                /\ plan' # <<>> /\ Head(plan') = "pow"
<1>a. SUFFICES ASSUME Types, OnPlan, result = "", ~Reading, UNCHANGED <<req, leg>>
               PROVE  /\ plan' = plan => OnPlan'
                      /\ plan' = <<>> => OnPlan' /\ plan' \in Seq(Ops) /\ Ahead' = {}
                      /\ plan' = Tail(plan) =>
                           /\ OnPlan' /\ plan' \in Seq(Ops) /\ Ahead = {Head(plan)} \cup Ahead'
                           /\ Head(plan) # "call" => plan' # <<>>
                      /\ plan' = <<"pow">> \o plan /\ Head(plan) = "upload" =>
                           /\ OnPlan' /\ plan' \in Seq(Ops) /\ Ahead' = {"pow"} \cup Ahead
                           /\ plan' # <<>> /\ Head(plan') = "pow"
  OBVIOUS
<1>1. Whole' = Whole
  BY <1>a DEF Whole
<1>2. plan \in Seq(Ops) /\ plan # <<>> /\ InOrder(plan, Whole) /\ Rest(<<>>, Whole)
  BY <1>a, Order, Wholes DEF Types
<1>3. ASSUME plan' = plan PROVE OnPlan'
  BY <1>a, <1>1, <1>3 DEF OnPlan, Rest, Reading
<1>4. ASSUME plan' = <<>> PROVE OnPlan' /\ plan' \in Seq(Ops) /\ Ahead' = {}
  <2>1. OnPlan'
    BY <1>1, <1>2, <1>4 DEF OnPlan, Rest
  <2> QED BY <1>4, <2>1, NoSteps DEF Ahead
<1>5. ASSUME plan' = Tail(plan)
      PROVE  /\ OnPlan' /\ plan' \in Seq(Ops) /\ Ahead = {Head(plan)} \cup Ahead'
             /\ Head(plan) # "call" => plan' # <<>>
  <2>0. Rest(Tail(plan), Whole)
    BY <1>2 DEF InOrder
  <2>1. /\ Tail(plan) \in Seq(Ops) /\ Len(Tail(plan)) = Len(plan) - 1
        /\ Len(plan) \in Nat \ {0} /\ (Len(plan) = 1 => Head(plan) = "call")
    BY <1>2 DEF InOrder
  <2>2. OnPlan'
    BY <1>1, <1>5, <2>0 DEF OnPlan, Rest
  <2>3. Range(plan) = {Head(plan)} \cup Range(Tail(plan))
    BY <1>2, RangeFacts
  <2>4. Head(plan) # "call" => Tail(plan) # <<>>
    <3>1. Head(plan) # "call" => Len(Tail(plan)) # 0
      BY <2>1
    <3> QED BY <3>1, NoSteps
  <2> QED BY <1>5, <2>1, <2>2, <2>3, <2>4 DEF Ahead
<1>6. ASSUME plan' = <<"pow">> \o plan, Head(plan) = "upload"
      PROVE  /\ OnPlan' /\ plan' \in Seq(Ops) /\ Ahead' = {"pow"} \cup Ahead
             /\ plan' # <<>> /\ Head(plan') = "pow"
  <2>1. Rest(<<"pow">> \o plan, Whole) /\ Len(plan) \in Nat
    BY <1>2, <1>6 DEF InOrder
  <2>2. /\ plan' \in Seq(Ops) /\ Len(plan') = Len(plan) + 1 /\ plan'[1] = "pow"
        /\ Range(plan') = {"pow"} \cup Range(plan)
    BY <1>2, <1>6, RangeFacts
  <2>3. OnPlan'
    BY <1>a, <1>1, <1>6, <2>1 DEF OnPlan, Rest
  <2>4. plan' # <<>> /\ Head(plan') = "pow"
    <3>1. Len(plan') # 0
      BY <2>1, <2>2
    <3> QED BY <2>2, <3>1, NoSteps
  <2> QED BY <2>2, <2>3, <2>4 DEF Ahead
<1> QED BY <1>3, <1>4, <1>5, <1>6

\* Before its call is made, a request that does not read an answer does the next of its steps.
LEMMA DoingFacts ==
    ASSUME Types, NEW op, Doing(op)
    PROVE  /\ result = "" /\ plan # <<>> /\ Head(plan) = op
           /\ op \notin {"read", "collect"} => ~Reading
<1>1. Head(<<"read">>) = "read" /\ Head(<<"collect">>) = "collect"
  OBVIOUS
<1> QED BY <1>1 DEF Types, Doing, Reading

LEMMA TryAgainFacts ==
    ASSUME NEW l \in LoopStates, TryAgain(l), result = ""
    PROVE  \/ plan' = plan /\ result' = "" /\ loop' = l /\ l.tries < MaxAttempts
           \/ plan' = Tail(plan) /\ result' = "" /\ loop' = NoLoop /\ leg = "retry"
           \/ plan' = <<>> /\ result' = "failed" /\ loop' = NoLoop
BY DEF TryAgain, Proceed, Fail

LEMMA CallsFinite == Types => IsFiniteSet(Calls) /\ Cardinality(Calls) \in Nat
<1>a. SUFFICES ASSUME Types PROVE IsFiniteSet(Calls) /\ Cardinality(Calls) \in Nat
  OBVIOUS
<1>1. Len(sent) \in Nat
  <2>1. sent \in Seq(Messages)
    BY <1>a DEF Types
  <2> QED BY <2>1
<1>2. Calls \subseteq 1 .. Len(sent)
  BY DEF Calls
<1>3. IsFiniteSet(1 .. Len(sent))
  BY <1>1, FS_Interval
<1> QED BY <1>2, <1>3, FS_Subset, FS_CardinalityType

\* A client operation that posts nothing.
Quietly ==
    /\ result = "" /\ ~Reading
    /\ UNCHANGED <<req, leg, epoch, attempts, sent, payload, first, muted, seen>>
    /\ Later(who', who)
    /\ "call" \in Ahead' => "call" \in Ahead

LEMMA QuietSteps == IInv /\ Quietly => Accounts' /\ Messaging' /\ CallsCounted' /\ MutedBehind'
<1>a. SUFFICES ASSUME IInv, Quietly PROVE Accounts' /\ Messaging' /\ CallsCounted' /\ MutedBehind'
  OBVIOUS
<1>b. Types /\ Accounts /\ Messaging /\ CallsCounted /\ MutedBehind
  BY <1>a DEF IInv
<1>0. /\ req' = req /\ leg' = leg /\ epoch' = epoch /\ attempts' = attempts /\ sent' = sent
      /\ muted' = muted /\ result = ""
  BY <1>a DEF Quietly
<1>c. Later(who', who)
  BY <1>a DEF Quietly
<1>d. Types
  BY <1>b
<1>e. Accounts
  BY <1>b
<1>1. Accounts'
  <2>1. epoch < who.named /\ epoch \in Nat /\ who.named \in Nat /\ who'.named \in Nat
        /\ who'.named >= who.named
    BY <1>c, <1>d, <1>e DEF Accounts, Types, Later, WhoTypes
  <2>2. epoch' < who'.named
    <3>1. epoch' = epoch
      BY <1>0
    <3> QED BY <2>1, <3>1
  <2>3. WhoTypes(who)'
    BY <1>0, <1>c DEF Later, WhoTypes
  <2> QED BY <2>2, <2>3 DEF Accounts
<1>2. Messaging'
  BY <1>0, <1>b DEF Messaging, ChainWhole, ParentsBefore, SwitchedFresh, FilesReady
<1>3. CallsCounted'
  <2>1. Calls' = Calls
    BY <1>0 DEF Calls
  <2>2. Cardinality(Calls) \in Nat
    BY <1>d, CallsFinite
  <2>3. /\ Cardinality(Calls) + (IF "call" \in Ahead THEN 1 ELSE 0) <= 1 + attempts + epoch
        /\ attempts \in Nat /\ epoch \in Nat
    <3>1. CallsCounted
      BY <1>b
    <3>2. attempts \in 0 .. RetryMax /\ epoch \in Nat
      BY <1>d DEF Types
    <3>3. attempts \in Nat
      BY <3>2, CompletionAssumption
    <3> QED BY <3>1, <3>2, <3>3 DEF CallsCounted
  <2>4. Cardinality(Calls) + (IF "call" \in Ahead' THEN 1 ELSE 0) <= 1 + attempts + epoch
    <3> DEFINE b == IF "call" \in Ahead THEN 1 ELSE 0
               c == IF "call" \in Ahead' THEN 1 ELSE 0
    <3>1. b \in Nat /\ c \in Nat /\ c <= b
      <4>1. "call" \in Ahead' => "call" \in Ahead
        BY <1>a DEF Quietly
      <4> QED BY <4>1
    <3>2. Cardinality(Calls) + b <= 1 + attempts + epoch
      BY <2>3
    <3> HIDE DEF b, c
    <3>3. Cardinality(Calls) + c <= 1 + attempts + epoch
      BY <2>2, <2>3, <3>1, <3>2
    <3> QED BY <3>3 DEF c
  <2> QED BY <1>0, <2>1, <2>4 DEF CallsCounted
<1>4. MutedBehind'
  <2>0. MutedBehind /\ muted \subseteq Nat
    BY <1>b, <1>d DEF Types
  <2>1. 0 \notin muted'
    BY <1>0, <2>0 DEF MutedBehind
  <2>2. ASSUME NEW t \in muted PROVE t < who'.named /\ (who'.token = 0 \/ t < who'.token)
    <3>1. t \in Nat /\ t < who.named /\ (who.token = 0 \/ t < who.token)
      BY <1>0, <2>0 DEF MutedBehind
    <3>2. who'.named \in Nat /\ who.named \in Nat /\ who'.named >= who.named
          /\ who'.token \in {0, who'.named, who.token}
      BY <1>c, <1>e DEF Accounts, WhoTypes, Later
    <3> QED BY <3>1, <3>2
  <2> QED BY <1>0, <2>1, <2>2 DEF MutedBehind
<1> QED BY <1>1, <1>2, <1>3, <1>4

\* What a step that posts nothing has to show beside.
LEMMA QuietEnough ==
    IInv /\ Quietly /\ Types' /\ OnPlan' /\ Tries' /\ Made' /\ PayloadsReady' => IInv'
BY QuietSteps DEF IInv

\* It may also end the request, or be tried again with nothing made.
LEMMA QuietEnd ==
    /\ IInv /\ result = "" /\ ~Reading /\ plan' = <<>> /\ result' = "failed"
    /\ UNCHANGED <<req, leg, epoch, attempts, sent, payload, first, muted, seen, session, file, chain>>
    /\ loop' \in LoopStates /\ loop'.tries < MaxAttempts /\ Later(who', who)
    /\ upload' \in LoopStates /\ upload'.tries < MaxAttempts
    => IInv'
<1>a. SUFFICES ASSUME IInv, result = "", ~Reading, plan' = <<>>, result' = "failed", Later(who', who),
                      UNCHANGED <<req, leg, epoch, attempts, sent, payload, first, muted, seen,
                                  session, file, chain>>,
                      loop' \in LoopStates, upload' \in LoopStates, upload'.tries < MaxAttempts,
                      loop'.tries < MaxAttempts
               PROVE  IInv'
  OBVIOUS
<1>b. Types
  BY <1>a DEF IInv
<1>c. PayloadsReady /\ OnPlan
  BY <1>a DEF IInv
<1>1. OnPlan' /\ plan' \in Seq(Ops) /\ Ahead' = {}
  BY <1>a, <1>b, <1>c, PlanStep
<1>2. Quietly
  BY <1>a, <1>1 DEF Quietly
<1>3. Types'
  <2>1. plan' \in Seq(Ops)
    BY <1>1
  <2> QED BY <1>a, <1>b, <2>1 DEF Types
<1>4. Tries'
  BY <1>a DEF Tries
<1>5. Made'
  BY <1>a DEF Made
<1>6. PayloadsReady'
  BY <1>a, <1>c DEF PayloadsReady, FileReady
<1> QED BY <1>a, <1>1, <1>2, <1>3, <1>4, <1>5, <1>6, QuietEnough

LEMMA QuietRetry ==
    /\ IInv /\ result = "" /\ ~Reading /\ plan' = plan /\ result' = ""
    /\ UNCHANGED <<req, leg, epoch, attempts, sent, payload, first, muted, seen, session, file, chain>>
    /\ loop' \in LoopStates /\ loop'.tries < MaxAttempts /\ upload' = upload /\ Later(who', who)
    /\ Head(plan) \notin {"wait", "upload"}
    => IInv'
<1>a. SUFFICES ASSUME IInv, result = "", ~Reading, plan' = plan, result' = "", Later(who', who),
                      UNCHANGED <<req, leg, epoch, attempts, sent, payload, first, muted, seen,
                                  session, file, chain>>,
                      loop' \in LoopStates, loop'.tries < MaxAttempts, upload' = upload,
                      Head(plan) \notin {"wait", "upload"}
               PROVE  IInv'
  OBVIOUS
<1>b. Types
  BY <1>a DEF IInv
<1>c. PayloadsReady /\ OnPlan /\ Made /\ Tries
  BY <1>a DEF IInv
<1>1. OnPlan' /\ Ahead' = Ahead
  BY <1>a, <1>b, <1>c, PlanStep DEF Ahead
<1>2. Quietly
  BY <1>a, <1>1 DEF Quietly
<1>3. Types'
  BY <1>a, <1>b DEF Types
<1>4. Tries'
  BY <1>a, <1>c DEF Tries
<1>5. Made'
  BY <1>a, <1>c, <1>1 DEF Made, Linked
<1>6. PayloadsReady'
  BY <1>a, <1>c DEF PayloadsReady, FileReady
<1> QED BY <1>a, <1>1, <1>2, <1>3, <1>4, <1>5, <1>6, QuietEnough

\* What is known where an operation begins.
Beginning(op) ==
    /\ result = "" /\ ~Reading /\ plan # <<>> /\ Head(plan) = op /\ plan \in Seq(Ops)
    /\ InOrder(plan, Whole)

LEMMA Begins == ASSUME NEW op, op \notin {"read", "collect"} PROVE IInv /\ Doing(op) => Beginning(op)
<1>a. SUFFICES ASSUME IInv, Doing(op) PROVE Beginning(op)
  OBVIOUS
<1>b. Types /\ OnPlan
  BY <1>a DEF IInv
<1>1. result = "" /\ plan # <<>> /\ Head(plan) = op /\ ~Reading
  BY <1>a, <1>b, DoingFacts
<1>2. plan \in Seq(Ops)
  BY <1>b DEF Types
<1>3. InOrder(plan, Whole)
  BY <1>b, <1>1, Order
<1> QED BY <1>1, <1>2, <1>3 DEF Beginning

-----------------------------------------------------------------------------
(* The client's operations that post nothing.                              *)

LEMMA QuietProceed ==
    ASSUME NEW op, op # "call"
    PROVE  IInv /\ Beginning(op) /\ plan' = Tail(plan) /\ UNCHANGED <<req, leg>> =>
             /\ OnPlan' /\ plan' \in Seq(Ops) /\ Ahead = {op} \cup Ahead' /\ plan' # <<>>
             /\ Len(plan') = Len(plan) - 1 /\ Len(plan) \in Nat
<1>a. SUFFICES ASSUME IInv, Beginning(op), plan' = Tail(plan), UNCHANGED <<req, leg>>
               PROVE  /\ OnPlan' /\ plan' \in Seq(Ops) /\ Ahead = {op} \cup Ahead' /\ plan' # <<>>
                      /\ Len(plan') = Len(plan) - 1 /\ Len(plan) \in Nat
  OBVIOUS
<1>1. Types /\ OnPlan /\ result = "" /\ ~Reading /\ Head(plan) = op
  BY <1>a DEF IInv, Beginning
<1>2. InOrder(plan, Whole)
  BY <1>a DEF Beginning
<1>3. Len(Tail(plan)) = Len(plan) - 1 /\ Len(plan) \in Nat
  BY <1>2 DEF InOrder
<1> QED BY <1>a, <1>1, <1>3, PlanStep

\* What was made before is there still, and what the step makes does not count.
LEMMA MadeBefore ==
    ASSUME NEW op, op \notin {"create", "upload", "wait", "fire"}
    PROVE  /\ Made /\ Ahead = {op} \cup Ahead' /\ result = ""
           /\ UNCHANGED <<req, leg, epoch, session, file, chain, sent>>
           /\ ("fire" \in Ahead /\ "create" \notin Ahead /\ leg # "retry" =>
                 Len(plan') \in {2 * (req.segs - chain.from) + 1, 2 * (req.segs - chain.from) + 2})
           => Made'
<1>a. SUFFICES ASSUME Made, Ahead = {op} \cup Ahead', result = "",
                      UNCHANGED <<req, leg, epoch, session, file, chain, sent>>,
                      "fire" \in Ahead /\ "create" \notin Ahead /\ leg # "retry" =>
                        Len(plan') \in {2 * (req.segs - chain.from) + 1, 2 * (req.segs - chain.from) + 2}
               PROVE  Made'
  OBVIOUS
<1>1. Linked' = Linked
  BY <1>a DEF Linked
<1> QED BY <1>a, <1>1 DEF Made

LEMMA CreateStep == IInv /\ CreateSession => IInv'
<1>a. SUFFICES ASSUME IInv, CreateSession PROVE IInv'
  OBVIOUS
<1>b. Types
  BY <1>a DEF IInv
<1>c. Accounts
  BY <1>a DEF IInv
<1>d. Beginning("create")
  <2>1. Doing("create")
    BY <1>a DEF CreateSession
  <2> QED BY <1>a, <2>1, Begins
<1>e. /\ req' = req /\ leg' = leg /\ upload' = upload /\ file' = file /\ sent' = sent
      /\ payload' = payload /\ first' = first /\ answer' = answer /\ muted' = muted
      /\ attempts' = attempts /\ limited' = limited /\ epoch' = epoch /\ seen' = seen
  BY <1>a DEF CreateSession, posted, tries, reading
<1>f. result = "" /\ ~Reading /\ Head(plan) = "create" /\ leg # "retry"
  BY <1>d DEF Beginning, InOrder
<1>g. Later(who, who) /\ Tried(loop) \in LoopStates /\ loop \in LoopStates /\ upload \in LoopStates /\ who.token \in Nat
  <2>1. loop \in LoopStates /\ upload \in LoopStates /\ WhoTypes(who)
    BY <1>b, <1>c DEF Types, Accounts
  <2>2. who.token \in Nat
    BY <2>1 DEF WhoTypes
  <2> QED BY <1>b, <2>1, <2>2, Whos, LoopFacts
<1>h. [tries |-> loop.tries + 1, refreshed |-> FALSE] \in LoopStates
  BY <1>g, LoopFacts
<1>i. upload.tries < MaxAttempts
  <2>1. Tries
    BY <1>a DEF IInv
  <2> QED BY <2>1 DEF Tries
<1>j. \A l \in LoopStates : TryAgain(l) =>
        \/ plan' = plan /\ result' = "" /\ loop' = l /\ l.tries < MaxAttempts
        \/ plan' = <<>> /\ result' = "failed" /\ loop' = NoLoop
  BY <1>f, TryAgainFacts
<1>k. NoLoop \in LoopStates /\ NoLoop.tries < MaxAttempts /\ WhoTypes(who)
  BY <1>c, LoopFacts DEF Accounts
\* The session is created.
<1>1. CASE /\ who.token # 0 /\ Proceed /\ loop' = NoLoop
           /\ session' = [n |-> session.n + 1, of |-> who.token, epoch |-> epoch] /\ chain' = NoChain
           /\ UNCHANGED who
  <2>0. plan' = Tail(plan) /\ result' = ""
    BY <1>1, <1>f DEF Proceed
  <2>1. /\ OnPlan' /\ plan' \in Seq(Ops) /\ Ahead = {"create"} \cup Ahead' /\ plan' # <<>>
        /\ Len(plan') = Len(plan) - 1 /\ Len(plan) \in Nat
    BY <1>a, <1>d, <1>e, <2>0, QuietProceed
  <2>2. Quietly
    BY <1>1, <1>e, <1>f, <1>g, <2>1 DEF Quietly
  <2>3. session' \in Sessions /\ session'.epoch = epoch
    <3>1. session \in Sessions /\ epoch \in Nat
      BY <1>b DEF Types
    <3> QED BY <1>1, <1>g, <3>1 DEF Sessions
  <2>4. chain' \in [parent : Nat, from : 1 .. req.segs] /\ chain'.parent = 0 /\ chain'.from = 1
        /\ req.segs \in Nat \ {0} /\ req.file \in BOOLEAN
    <3>1. req \in Requests
      BY <1>b DEF Types
    <3>2. req.segs \in Nat \ {0} /\ req.file \in BOOLEAN
      BY <3>1, CompletionAssumption DEF Requests
    <3> QED BY <1>1, <3>2 DEF NoChain
  <2>5. Types'
    <3>1. plan' \in Seq(Ops) /\ plan' # <<>>
      BY <2>1
    <3> QED BY <1>1, <1>b, <1>e, <1>k, <2>0, <2>3, <2>4, <3>1 DEF Types
  <2>6. Tries'
    BY <1>1, <1>e, <1>i, LoopFacts DEF Tries
  <2>7. Made'
    <3>1. session'.epoch = epoch' /\ Linked'
      BY <1>e, <2>3, <2>4 DEF Linked
    <3>2. req.file => ("upload" \notin Ahead' => file.epoch = epoch) /\ ("wait" \notin Ahead' => IsReady(file.status))
      <4>1. Made
        BY <1>a DEF IInv
      <4> QED BY <1>f, <2>1, <4>1 DEF Made
    <3>3. ASSUME "fire" \in Ahead'
          PROVE  Len(plan') \in {2 * (req.segs - 1) + 1, 2 * (req.segs - 1) + 2}
      <4>1. InOrder(plan, Whole)
        BY <1>d DEF Beginning
      <4>2. "fire" \in Range(plan)
        BY <2>1, <3>3 DEF Ahead
      <4>3. Len(plan) = 2 * req.segs + 1
        BY <1>f, <4>1, <4>2 DEF InOrder
      <4>4. Len(plan') = Len(plan) - 1 /\ Len(plan) \in Nat
        BY <2>1
      <4>5. req.segs \in Nat \ {0}
        BY <2>4
      <4>6. PICK k \in Nat, n \in Nat : n = req.segs /\ k = Len(plan)
        BY <4>4, <4>5
      <4>7. k = 2 * n + 1 /\ Len(plan') = k - 1
        BY <4>3, <4>4, <4>6
      <4>8. k - 1 \in {2 * (n - 1) + 1, 2 * (n - 1) + 2}
        BY <4>6, <4>7
      <4> QED BY <4>6, <4>7, <4>8
    <3> QED BY <1>e, <2>4, <3>1, <3>2, <3>3 DEF Made
  <2>8. PayloadsReady'
    <3>1. PayloadsReady
      BY <1>a DEF IInv
    <3> QED BY <1>e, <3>1 DEF PayloadsReady, FileReady
  <2> QED BY <1>a, <2>1, <2>2, <2>5, <2>6, <2>7, <2>8, QuietEnough
\* It is not: the request ends, or tries again, perhaps on another account.
<1>2. ASSUME UNCHANGED <<session, chain>>, loop' \in LoopStates, Later(who', who),
             loop'.tries < MaxAttempts,
             (plan' = plan /\ result' = "") \/ (plan' = <<>> /\ result' = "failed")
      PROVE  IInv'
  BY <1>2, <1>a, <1>e, <1>f, <1>g, <1>i, QuietRetry, QuietEnd
<1>3. CASE /\ \/ TryAgain(Tried(loop)) /\ UNCHANGED who
              \/ Fail /\ loop' = NoLoop /\ UNCHANGED who
              \/ \E s \in Switched(who) : who' = s /\ TryAgain([tries |-> loop.tries + 1, refreshed |-> FALSE])
              \/ Fail /\ loop' = NoLoop /\ who' \in Unswitched(who)
              \/ \E authLike \in BOOLEAN : \E o \in AfterRejection(authLike) : who' = o[1] /\ TryAgain(o[2])
           /\ UNCHANGED <<session, chain>>
  <2>1. CASE TryAgain(Tried(loop)) /\ UNCHANGED who
    BY <1>2, <1>3, <1>g, <1>j, <1>k, <2>1
  <2>2. CASE Fail /\ loop' = NoLoop /\ (UNCHANGED who \/ who' \in Unswitched(who))
    <3>1. Later(who', who)
      BY <1>b, <1>g, <1>k, <2>2, Whos
    <3> QED BY <1>2, <1>3, <1>k, <2>2, <3>1 DEF Fail
  <2>3. ASSUME NEW s \in Switched(who), who' = s, TryAgain([tries |-> loop.tries + 1, refreshed |-> FALSE])
        PROVE  IInv'
    <3>1. Later(who', who)
      BY <1>b, <1>k, <2>3, Whos
    <3> QED BY <1>2, <1>3, <1>h, <1>j, <1>k, <2>3, <3>1
  <2>4. ASSUME NEW authLike \in BOOLEAN, NEW o \in AfterRejection(authLike), who' = o[1], TryAgain(o[2])
        PROVE  IInv'
    <3>1. o[2] \in LoopStates /\ Later(who', who)
      BY <1>b, <1>k, <2>4, Whos
    <3> QED BY <1>2, <1>3, <1>j, <1>k, <2>4, <3>1
  <2> QED BY <1>3, <2>1, <2>2, <2>3, <2>4
<1> QED BY <1>a, <1>1, <1>3 DEF CreateSession

LEMMA PowProceeds ==
    /\ IInv /\ Beginning("pow") /\ plan' = Tail(plan) /\ result' = "" /\ loop' = NoLoop
    /\ upload' = upload /\ Later(who', who)
    /\ UNCHANGED <<req, leg, epoch, attempts, sent, payload, first, muted, seen, session, file, chain>>
    => IInv'
<1>a. SUFFICES ASSUME IInv, Beginning("pow"), plan' = Tail(plan), result' = "", loop' = NoLoop,
                      upload' = upload, Later(who', who),
                      UNCHANGED <<req, leg, epoch, attempts, sent, payload, first, muted, seen,
                                  session, file, chain>>
               PROVE  IInv'
  OBVIOUS
<1>b. Types
  BY <1>a DEF IInv
<1>c. PayloadsReady /\ Made /\ Tries
  BY <1>a DEF IInv
<1>d. result = "" /\ ~Reading /\ InOrder(plan, Whole) /\ Head(plan) = "pow"
  BY <1>a DEF Beginning
<1>1. /\ OnPlan' /\ plan' \in Seq(Ops) /\ Ahead = {"pow"} \cup Ahead' /\ plan' # <<>>
      /\ Len(plan') = Len(plan) - 1 /\ Len(plan) \in Nat
  BY <1>a, QuietProceed
<1>2. Quietly
  BY <1>a, <1>d, <1>1 DEF Quietly
<1>3. Types'
  <2>1. NoLoop \in LoopStates /\ plan' \in Seq(Ops) /\ plan' # <<>>
    BY <1>1, LoopFacts
  <2> QED BY <1>a, <1>b, <2>1 DEF Types
<1>4. Tries'
  BY <1>a, <1>c, LoopFacts DEF Tries
<1>5. Made'
  <2>1. ASSUME "fire" \in Ahead, "create" \notin Ahead, leg # "retry"
        PROVE  Len(plan') \in {2 * (req.segs - chain.from) + 1, 2 * (req.segs - chain.from) + 2}
    <3>1. Len(plan) % 2 = 0
      BY <1>d, <2>1 DEF InOrder, Ahead
    <3>2. Len(plan) \in {2 * (req.segs - chain.from) + 1, 2 * (req.segs - chain.from) + 2}
      BY <1>c, <1>d, <2>1 DEF Made
    <3>3. req.segs \in Nat /\ chain.from \in 1 .. req.segs
      <4>1. req \in Requests /\ chain \in [parent : Nat, from : 1 .. req.segs]
        BY <1>b DEF Types
      <4>2. req.segs \in Nat
        BY <4>1, CompletionAssumption DEF Requests
      <4> QED BY <4>1, <4>2
    <3>4. req.segs - chain.from \in Nat
      BY <3>3
    <3>5. PICK k \in Nat, n \in Nat : n = req.segs - chain.from /\ k = Len(plan)
      BY <1>1, <3>4
    <3>6. k % 2 = 0 /\ k \in {2 * n + 1, 2 * n + 2}
      BY <3>1, <3>2, <3>5
    <3>7. k - 1 = 2 * n + 1
      BY <3>5, <3>6
    <3>8. Len(plan') = k - 1
      BY <1>1, <3>5
    <3> QED BY <3>5, <3>7, <3>8
  <2>2. Made /\ Ahead = {"pow"} \cup Ahead' /\ result = ""
    BY <1>c, <1>d, <1>1
  <2> QED BY <1>a, <2>1, <2>2, MadeBefore
<1>6. PayloadsReady'
  BY <1>a, <1>c DEF PayloadsReady, FileReady
<1> QED BY <1>a, <1>1, <1>2, <1>3, <1>4, <1>5, <1>6, QuietEnough

LEMMA PowStep == IInv /\ GetPow => IInv'
<1>a. SUFFICES ASSUME IInv, GetPow PROVE IInv'
  OBVIOUS
<1>b. Types /\ Accounts /\ Tries
  BY <1>a DEF IInv
<1>d. Beginning("pow")
  <2>1. Doing("pow")
    BY <1>a DEF GetPow
  <2> QED BY <1>a, <2>1, Begins
<1>e. /\ upload' = upload
      /\ UNCHANGED <<req, leg, epoch, attempts, sent, payload, first, muted, seen, session, file, chain>>
  BY <1>a DEF GetPow, made, posted, tries, reading
<1>f. result = "" /\ ~Reading /\ Head(plan) = "pow"
  BY <1>d DEF Beginning
<1>g. loop \in LoopStates /\ upload \in LoopStates /\ WhoTypes(who) /\ upload.tries < MaxAttempts
  BY <1>b DEF Types, Accounts, Tries
<1>h. /\ Later(who, who) /\ Tried(loop) \in LoopStates /\ NoLoop \in LoopStates
      /\ NoLoop.tries < MaxAttempts
  BY <1>b, <1>g, Whos, LoopFacts
<1>1. ASSUME Later(who', who), plan' = Tail(plan), result' = "", loop' = NoLoop PROVE IInv'
  BY <1>1, <1>a, <1>d, <1>e, PowProceeds
<1>2. ASSUME Later(who', who), NEW l \in LoopStates, TryAgain(l) PROVE IInv'
  <2>1. CASE plan' = plan /\ result' = "" /\ loop' = l /\ l.tries < MaxAttempts
    BY <1>2, <1>a, <1>e, <1>f, <2>1, QuietRetry
  <2>2. CASE plan' = <<>> /\ result' = "failed" /\ loop' = NoLoop
    BY <1>2, <1>a, <1>e, <1>f, <1>g, <1>h, <2>2, QuietEnd
  <2>3. CASE plan' = Tail(plan) /\ result' = "" /\ loop' = NoLoop
    BY <1>1, <1>2, <2>3
  <2> QED BY <1>2, <1>f, <2>1, <2>2, <2>3, TryAgainFacts
<1>3. CASE who.token # 0 /\ Proceed /\ loop' = NoLoop /\ UNCHANGED who
  BY <1>1, <1>3, <1>f, <1>h DEF Proceed
<1>4. CASE TryAgain(Tried(loop)) /\ UNCHANGED who
  BY <1>2, <1>4, <1>h
<1>5. ASSUME NEW authLike \in BOOLEAN, NEW o \in AfterRejection(authLike), who' = o[1], TryAgain(o[2])
      PROVE  IInv'
  <2>1. o[2] \in LoopStates /\ Later(who', who)
    BY <1>b, <1>g, <1>5, Whos
  <2> QED BY <1>2, <1>5, <2>1
<1> QED BY <1>a, <1>3, <1>4, <1>5 DEF GetPow

LEMMA UploadStep == IInv /\ UploadFile => IInv'
<1>a. SUFFICES ASSUME IInv, UploadFile PROVE IInv'
  OBVIOUS
<1>b. Types
  BY <1>a DEF IInv
<1>c. Accounts /\ Tries /\ PayloadsReady /\ Made
  BY <1>a DEF IInv
<1>d. Beginning("upload")
  <2>1. Doing("upload")
    BY <1>a DEF UploadFile
  <2> QED BY <1>a, <2>1, Begins
<1>e. UNCHANGED <<req, leg, epoch, attempts, sent, payload, first, muted, seen, session, chain>>
  BY <1>a DEF UploadFile, posted, tries, reading
<1>f. /\ result = "" /\ ~Reading /\ Head(plan) = "upload" /\ plan # <<>> /\ leg # "retry" /\ req.file
      /\ "wait" \in Range(Tail(plan)) /\ "fire" \notin Range(plan)
  BY <1>d DEF Beginning, InOrder
<1>g. /\ loop \in LoopStates /\ upload \in LoopStates /\ WhoTypes(who) /\ upload.tries < MaxAttempts
      /\ loop.tries = 0 /\ who.token \in Nat /\ epoch \in Nat /\ file \in Files
  BY <1>b, <1>c, <1>f DEF Types, Accounts, Tries, WhoTypes
<1>h. /\ Later(who, who) /\ Tried(upload) \in LoopStates /\ NoLoop \in LoopStates /\ NoLoop.tries = 0
      /\ 0 < MaxAttempts /\ 0 < MaxPolls
      /\ \A b \in BOOLEAN : [tries |-> upload.tries + 1, refreshed |-> b] \in LoopStates
  BY <1>b, <1>g, Whos, LoopFacts
\* The file is uploaded.
<1>1. CASE /\ who.token # 0 /\ Proceed /\ upload' = NoLoop
           /\ \E status \in UploadedStatus : file' = [of |-> who.token, epoch |-> epoch, status |-> status]
           /\ UNCHANGED <<who, loop>>
  <2>0. plan' = Tail(plan) /\ result' = "" /\ who' = who /\ loop' = loop /\ upload' = NoLoop
    BY <1>1, <1>f DEF Proceed
  <2>1. /\ OnPlan' /\ plan' \in Seq(Ops) /\ Ahead = {"upload"} \cup Ahead' /\ plan' # <<>>
    BY <1>a, <1>d, <1>e, <2>0, QuietProceed
  <2>2. Quietly
    BY <1>e, <1>f, <1>h, <2>0, <2>1 DEF Quietly
  <2>3. file' \in Files /\ file'.epoch = epoch
    <3>1. PICK status \in UploadedStatus : file' = [of |-> who.token, epoch |-> epoch, status |-> status]
      BY <1>1
    <3>2. status \in Statuses /\ who.token \in Nat /\ epoch \in Nat
      BY <1>g DEF Statuses, UploadedStatus
    <3> QED BY <3>1, <3>2 DEF Files
  <2>4. Types'
    <3>1. plan' \in Seq(Ops) /\ plan' # <<>>
      BY <2>1
    <3> QED BY <1>b, <1>e, <1>h, <2>0, <2>3, <3>1 DEF Types
  <2>5. Tries'
    BY <1>g, <1>h, <2>0 DEF Tries
  <2>6. Made'
    <3>1. "wait" \in Ahead' /\ "fire" \notin Ahead' /\ Linked' = Linked
      <4>1. "wait" \in Ahead'
        BY <1>f, <2>0 DEF Ahead
      <4>2. "fire" \notin Ahead'
        BY <1>f, <2>1 DEF Ahead
      <4> QED BY <1>e, <4>1, <4>2 DEF Linked
    <3>2. "create" \notin Ahead => session.epoch = epoch /\ Linked
      BY <1>c, <1>f DEF Made
    <3> QED BY <1>e, <2>1, <2>3, <3>1, <3>2 DEF Made
  <2>7. PayloadsReady'
    BY <1>c, <1>e, <1>f DEF PayloadsReady, FileReady
  <2> QED BY <1>a, <2>1, <2>2, <2>4, <2>5, <2>6, <2>7, QuietEnough
\* It goes round again, or gives up.
<1>2. ASSUME Later(who', who), file' = file, NEW l \in LoopStates, UploadAgain(l) PROVE IInv'
  <2>1. CASE ~(l.tries < MaxAttempts)
    <3>1. plan' = <<>> /\ result' = "failed" /\ loop' = NoLoop /\ upload' = NoLoop
      BY <1>2, <2>1 DEF UploadAgain, Fail
    <3> QED BY <1>2, <1>a, <1>e, <1>f, <1>h, <3>1, QuietEnd
  <2>2. CASE l.tries < MaxAttempts
    <3>0. plan' = <<"pow">> \o plan /\ result' = "" /\ loop' = NoLoop /\ upload' = l
      BY <1>2, <1>f, <2>2 DEF UploadAgain
    <3>1. /\ OnPlan' /\ plan' \in Seq(Ops) /\ Ahead' = {"pow"} \cup Ahead
          /\ plan' # <<>> /\ Head(plan') = "pow"
      <4>1. OnPlan
        BY <1>a DEF IInv
      <4> QED BY <1>b, <1>e, <1>f, <3>0, <4>1, PlanStep
    <3>2. Quietly
      BY <1>2, <1>e, <1>f, <3>1 DEF Quietly
    <3>3. Types'
      <4>1. plan' \in Seq(Ops) /\ plan' # <<>>
        BY <3>1
      <4> QED BY <1>2, <1>b, <1>e, <1>h, <3>0, <4>1 DEF Types
    <3>4. Tries'
      BY <1>h, <2>2, <3>0, <3>1 DEF Tries
    <3>5. Made'
      <4>1. "fire" \notin Ahead' /\ Linked' = Linked
        BY <1>e, <1>f, <3>1 DEF Ahead, Linked
      <4> QED BY <1>2, <1>c, <1>e, <1>f, <3>1, <4>1 DEF Made
    <3>6. PayloadsReady'
      BY <1>2, <1>c, <1>e DEF PayloadsReady, FileReady
    <3> QED BY <1>a, <3>1, <3>2, <3>3, <3>4, <3>5, <3>6, QuietEnough
  <2> QED BY <2>1, <2>2
<1>3. CASE Fail /\ upload' = NoLoop /\ UNCHANGED <<who, loop, file>>
  BY <1>3, <1>a, <1>e, <1>f, <1>g, <1>h, QuietEnd DEF Fail
<1>4. CASE UploadAgain(Tried(upload)) /\ UNCHANGED <<who, file>>
  BY <1>2, <1>4, <1>h
<1>5. CASE who' = Refreshed /\ UploadAgain([tries |-> upload.tries + 1, refreshed |-> TRUE]) /\ UNCHANGED file
  BY <1>2, <1>5, <1>b, <1>g, <1>h, Whos
<1>6. ASSUME NEW s \in Switched(who), who' = s, UNCHANGED file,
             UploadAgain([tries |-> upload.tries + 1, refreshed |-> FALSE])
      PROVE  IInv'
  BY <1>2, <1>6, <1>b, <1>g, <1>h, Whos
<1>7. ASSUME NEW s \in Unswitched(who), who' = s, UploadAgain(Tried(upload)), UNCHANGED file
      PROVE  IInv'
  BY <1>2, <1>7, <1>b, <1>g, <1>h, Whos
<1> QED BY <1>a, <1>1, <1>3, <1>4, <1>5, <1>6, <1>7 DEF UploadFile

LEMMA WaitStep == IInv /\ WaitForFile => IInv'
<1>a. SUFFICES ASSUME IInv, WaitForFile PROVE IInv'
  OBVIOUS
<1>b. Types
  BY <1>a DEF IInv
<1>c. Accounts /\ Tries /\ PayloadsReady /\ Made
  BY <1>a DEF IInv
<1>d. Beginning("wait")
  <2>1. Doing("wait")
    BY <1>a DEF WaitForFile
  <2> QED BY <1>a, <2>1, Begins
<1>e. /\ UNCHANGED <<req, leg, epoch, attempts, sent, payload, first, muted, seen, session, chain>>
      /\ who' = who /\ upload' = upload
  BY <1>a DEF WaitForFile, posted, tries, reading
<1>f. /\ result = "" /\ ~Reading /\ Head(plan) = "wait" /\ plan # <<>> /\ leg # "retry" /\ req.file
      /\ "fire" \notin Range(plan)
  BY <1>d DEF Beginning, InOrder
<1>g. /\ loop \in LoopStates /\ upload \in LoopStates /\ WhoTypes(who) /\ upload.tries < MaxAttempts
      /\ file \in Files
  BY <1>b, <1>c, <1>f DEF Types, Accounts, Tries
<1>h. /\ Later(who, who) /\ Tried(loop) \in LoopStates /\ NoLoop \in LoopStates /\ NoLoop.tries = 0
      /\ 0 < MaxAttempts /\ 0 < MaxPolls
  BY <1>b, <1>g, Whos, LoopFacts
<1>i. file' \in Files /\ file'.epoch = file.epoch
  <2>1. CASE UNCHANGED file
    BY <2>1, <1>g
  <2>2. ASSUME NEW fetched \in FetchUploadedFile, file' = [file EXCEPT !.status = MergeStatus(@, fetched)]
        PROVE  file' \in Files /\ file'.epoch = file.epoch
    <3>1. MergeStatus(file.status, fetched) \in Statuses
      BY <1>g, <2>2 DEF MergeStatus, FetchUploadedFile, Files, Statuses
    <3> QED BY <1>g, <2>2, <3>1 DEF Files
  <2> QED BY <1>a, <2>1, <2>2 DEF WaitForFile
<1>1. ASSUME Proceed, loop' = NoLoop, IsReady(file'.status) PROVE IInv'
  <2>0. plan' = Tail(plan) /\ result' = ""
    BY <1>1, <1>f DEF Proceed
  <2>1. /\ OnPlan' /\ plan' \in Seq(Ops) /\ Ahead = {"wait"} \cup Ahead' /\ plan' # <<>>
    BY <1>a, <1>d, <1>e, <2>0, QuietProceed
  <2>2. Quietly
    BY <1>e, <1>f, <1>h, <2>1 DEF Quietly
  <2>3. Types'
    <3>1. plan' \in Seq(Ops) /\ plan' # <<>>
      BY <2>1
    <3> QED BY <1>1, <1>b, <1>e, <1>h, <1>i, <2>0, <3>1 DEF Types
  <2>4. Tries'
    BY <1>1, <1>e, <1>g, <1>h DEF Tries
  <2>5. Made'
    <3>1. "fire" \notin Ahead' /\ Linked' = Linked
      BY <1>e, <1>f, <2>1 DEF Ahead, Linked
    <3> QED BY <1>1, <1>c, <1>e, <1>f, <1>i, <2>1, <3>1 DEF Made
  <2>6. PayloadsReady'
    BY <1>c, <1>e, <1>f DEF PayloadsReady, FileReady
  <2> QED BY <1>a, <2>1, <2>2, <2>3, <2>4, <2>5, <2>6, QuietEnough
<1>2. ASSUME PollAgain(Tried(loop)) PROVE IInv'
  <2>1. CASE Fail /\ loop' = NoLoop
    <3>0. plan' = <<>> /\ result' = "failed"
      BY <2>1 DEF Fail
    <3>1. OnPlan' /\ plan' \in Seq(Ops) /\ Ahead' = {}
      <4>1. OnPlan
        BY <1>a DEF IInv
      <4> QED BY <1>b, <1>e, <1>f, <3>0, <4>1, PlanStep
    <3>2. Quietly
      BY <1>e, <1>f, <1>h, <3>1 DEF Quietly
    <3>3. Types'
      <4>1. plan' \in Seq(Ops)
        BY <3>1
      <4> QED BY <2>1, <1>b, <1>e, <1>h, <1>i, <3>0, <4>1 DEF Types
    <3>4. Tries'
      BY <2>1, <1>e, <1>g, <1>h, <3>0 DEF Tries
    <3>5. Made'
      BY <3>0 DEF Made
    <3>6. PayloadsReady'
      BY <1>c, <1>e, <1>f DEF PayloadsReady, FileReady
    <3> QED BY <1>a, <3>1, <3>2, <3>3, <3>4, <3>5, <3>6, QuietEnough
  <2>2. CASE Tried(loop).tries < MaxPolls /\ loop' = Tried(loop) /\ UNCHANGED <<plan, result>>
    <3>1. OnPlan' /\ Ahead' = Ahead
      <4>1. OnPlan
        BY <1>a DEF IInv
      <4> QED BY <2>2, <1>b, <1>e, <1>f, <4>1, PlanStep DEF Ahead
    <3>2. Quietly
      BY <2>2, <1>e, <1>f, <1>h, <3>1 DEF Quietly
    <3>3. Types'
      BY <2>2, <1>b, <1>e, <1>h, <1>i DEF Types
    <3>4. Tries'
      BY <2>2, <1>e, <1>f, <1>g DEF Tries
    <3>5. Made'
      <4>1. "fire" \notin Ahead' /\ Linked' = Linked /\ "wait" \in Ahead
        <5>1. plan \in Seq(Ops)
          BY <1>b DEF Types
        <5>2. "wait" \in Range(plan)
          BY <1>f, <5>1, RangeFacts
        <5> QED BY <1>e, <1>f, <3>1, <5>2 DEF Ahead, Linked
      <4> QED BY <2>2, <1>c, <1>e, <1>f, <1>i, <3>1, <4>1 DEF Made
    <3>6. PayloadsReady'
      BY <1>c, <1>e, <1>f DEF PayloadsReady, FileReady
    <3> QED BY <1>a, <3>1, <3>2, <3>3, <3>4, <3>5, <3>6, QuietEnough
  <2> QED BY <1>2, <2>1, <2>2 DEF PollAgain
<1>3. CASE IsReady(file.status) /\ Proceed /\ loop' = NoLoop /\ UNCHANGED file
  BY <1>1, <1>3
<1>4. ASSUME NEW fetched \in FetchUploadedFile,
             IF IsReady(file'.status) THEN Proceed /\ loop' = NoLoop ELSE PollAgain(Tried(loop))
      PROVE  IInv'
  BY <1>1, <1>2, <1>4
<1> QED BY <1>a, <1>3, <1>4 DEF WaitForFile

-----------------------------------------------------------------------------
(* What a step that posts a message, or reads an answer, does to the rest. *)

\* A message that refers to what is there.
Good(m) ==
    /\ m \in Messages /\ FileReady(m.file)
    /\ m.leg # "retry" =>
         /\ IF m.parent = 0 THEN m.from = 1
            ELSE /\ m.parent \in 1 .. Len(sent)
                 /\ LET p == sent[m.parent]
                    IN  /\ p.settled # "unknown" /\ p.to + 1 = m.from /\ p.session = m.session
                        /\ p.leg # "retry" /\ p.epoch = m.epoch
         /\ m.to \in {m.from, req.segs} /\ m.session.epoch = m.epoch
         /\ req.file => m.file.epoch = m.epoch

LEMMA Appended ==
    ASSUME NEW m \in Messages, Types, sent' = Append(sent, m)
    PROVE  /\ sent' \in Seq(Messages) /\ Len(sent') = Len(sent) + 1 /\ Len(sent) \in Nat
           /\ sent'[Len(sent) + 1] = m /\ \A i \in 1 .. Len(sent) : sent'[i] = sent[i]
<1>1. sent \in Seq(Messages)
  BY DEF Types
<1> QED BY <1>1

LEMMA PostedGood ==
    ASSUME NEW m
    PROVE  Types /\ Messaging /\ req' = req /\ Good(m) /\ sent' = Append(sent, m) => Messaging'
<1>a. SUFFICES ASSUME Types, Messaging, req' = req, Good(m), sent' = Append(sent, m) PROVE Messaging'
  OBVIOUS
<1>b. /\ Len(sent') = Len(sent) + 1 /\ Len(sent) \in Nat
      /\ sent'[Len(sent) + 1] = m /\ \A i \in 1 .. Len(sent) : sent'[i] = sent[i]
  BY <1>a, Appended DEF Good
<1>c. ChainWhole /\ ParentsBefore /\ SwitchedFresh /\ FilesReady
  BY <1>a DEF Messaging
<1>d. PICK n \in Nat : n = Len(sent)
  BY <1>b
<1>e. /\ Len(sent') = n + 1 /\ sent'[n + 1] = m /\ \A i \in 1 .. n : sent'[i] = sent[i]
  BY <1>b, <1>d
<1>f. \A i \in 1 .. n + 1 : i = n + 1 \/ i \in 1 .. n
  BY <1>d
<1>g. ASSUME NEW i \in 1 .. n, sent[i].leg # "retry", sent[i].parent # 0
      PROVE  sent[i].parent \in 1 .. (i - 1) /\ sent'[sent[i].parent] = sent[sent[i].parent]
  <2>1. sent[i].parent \in 1 .. (i - 1)
    BY <1>c, <1>d, <1>g DEF ParentsBefore
  <2>2. sent[i].parent \in 1 .. n
    BY <2>1, <1>d
  <2> QED BY <1>e, <2>1, <2>2
<1>h. m.leg # "retry" /\ m.parent # 0 => m.parent \in 1 .. n /\ sent'[m.parent] = sent[m.parent]
  BY <1>a, <1>d, <1>e DEF Good
<1>1. ParentsBefore'
  <2>1. ASSUME NEW i \in 1 .. n + 1, sent'[i].leg # "retry", sent'[i].parent # 0
        PROVE  sent'[i].parent \in 1 .. (i - 1)
    <3>1. CASE i = n + 1
      <4>1. m.parent \in 1 .. n /\ sent'[i] = m
        BY <1>e, <1>h, <2>1, <3>1
      <4>2. i - 1 = n
        BY <1>d, <3>1
      <4> QED BY <4>1, <4>2
    <3>2. CASE i \in 1 .. n
      BY <1>e, <1>g, <2>1, <3>2
    <3> QED BY <1>f, <3>1, <3>2
  <2> QED BY <1>e, <2>1 DEF ParentsBefore
<1>2. ChainWhole'
  <2>1. ASSUME NEW i \in 1 .. n + 1, sent'[i].leg # "retry"
        PROVE  /\ IF sent'[i].parent = 0 THEN sent'[i].from = 1
                  ELSE LET p == sent'[sent'[i].parent]
                       IN  /\ p.settled # "unknown" /\ p.to + 1 = sent'[i].from
                           /\ p.session = sent'[i].session /\ p.leg # "retry"
               /\ sent'[i].to \in {sent'[i].from, req.segs}
    <3>1. CASE i = n + 1
      <4>1. sent'[i] = m
        BY <1>e, <3>1
      <4> QED BY <1>a, <1>h, <2>1, <4>1 DEF Good
    <3>2. CASE i \in 1 .. n
      <4>1. sent'[i] = sent[i]
        BY <1>e, <3>2
      <4> QED BY <1>c, <1>d, <1>g, <2>1, <3>2, <4>1 DEF ChainWhole
    <3> QED BY <1>f, <3>1, <3>2
  <2> QED BY <1>a, <1>e, <2>1 DEF ChainWhole
<1>3. SwitchedFresh'
  <2>1. ASSUME NEW i \in 1 .. n + 1, sent'[i].leg # "retry"
        PROVE  /\ sent'[i].session.epoch = sent'[i].epoch
               /\ sent'[i].parent # 0 => sent'[sent'[i].parent].epoch = sent'[i].epoch
               /\ req.file => sent'[i].file.epoch = sent'[i].epoch
    <3>1. CASE i = n + 1
      <4>1. sent'[i] = m
        BY <1>e, <3>1
      <4> QED BY <1>a, <1>h, <2>1, <4>1 DEF Good
    <3>2. CASE i \in 1 .. n
      <4>1. sent'[i] = sent[i]
        BY <1>e, <3>2
      <4> QED BY <1>c, <1>d, <1>g, <2>1, <3>2, <4>1 DEF SwitchedFresh
    <3> QED BY <1>f, <3>1, <3>2
  <2> QED BY <1>a, <1>e, <2>1 DEF SwitchedFresh
<1>4. FilesReady'
  <2>1. ASSUME NEW i \in 1 .. n + 1, sent'[i].file # NoFile PROVE IsReady(sent'[i].file.status)
    <3>1. CASE i = n + 1
      BY <1>a, <1>e, <2>1, <3>1 DEF Good, FileReady
    <3>2. CASE i \in 1 .. n
      BY <1>c, <1>d, <1>e, <2>1, <3>2 DEF FilesReady
    <3> QED BY <1>f, <3>1, <3>2
  <2> QED BY <1>e, <2>1 DEF FilesReady
<1> QED BY <1>1, <1>2, <1>3, <1>4 DEF Messaging

\* A message asks for an answer once.
LEMMA PostedCalls ==
    ASSUME NEW m \in Messages
    PROVE  Types /\ req' = req /\ sent' = Append(sent, m) =>
             /\ Cardinality(Calls') \in Nat /\ Cardinality(Calls') <= Cardinality(Calls) + 1
             /\ m.to # req.segs => Cardinality(Calls') = Cardinality(Calls)
<1>a. SUFFICES ASSUME Types, req' = req, sent' = Append(sent, m)
               PROVE  /\ Cardinality(Calls') \in Nat /\ Cardinality(Calls') <= Cardinality(Calls) + 1
                      /\ m.to # req.segs => Cardinality(Calls') = Cardinality(Calls)
  OBVIOUS
<1>b. /\ Len(sent') = Len(sent) + 1 /\ Len(sent) \in Nat
      /\ sent'[Len(sent) + 1] = m /\ \A i \in 1 .. Len(sent) : sent'[i] = sent[i]
  BY <1>a, Appended
<1>c. IsFiniteSet(Calls) /\ Cardinality(Calls) \in Nat
  BY <1>a, CallsFinite
<1>d. PICK n \in Nat : n = Len(sent)
  BY <1>b
<1>e. Calls = {i \in 1 .. n : sent[i].to = req.segs}
  BY <1>d DEF Calls
<1>f. Calls' = {i \in 1 .. n + 1 : sent'[i].to = req.segs}
  BY <1>a, <1>b, <1>d DEF Calls
<1>g. /\ \A i \in 1 .. n + 1 : i = n + 1 \/ i \in 1 .. n
      /\ \A i \in 1 .. n : i \in 1 .. n + 1 /\ i # n + 1
      /\ n + 1 \in 1 .. n + 1 /\ n + 1 \notin 1 .. n
  BY <1>d
<1>1. CASE m.to = req.segs
  <2>1. Calls' = Calls \cup {n + 1} /\ n + 1 \notin Calls
    BY <1>b, <1>d, <1>e, <1>f, <1>g, <1>1
  <2>2. Cardinality(Calls') = Cardinality(Calls) + 1
    BY <1>c, <2>1, FS_AddElement
  <2> QED BY <1>c, <1>1, <2>2
<1>2. CASE m.to # req.segs
  <2>1. Calls' = Calls
    BY <1>b, <1>d, <1>e, <1>f, <1>g, <1>2
  <2> QED BY <1>c, <2>1
<1> QED BY <1>1, <1>2

LEMMA Sums ==
    ASSUME NEW x \in Nat, NEW y \in Nat, NEW a \in Nat, NEW e \in Nat, NEW d \in Nat, NEW f \in Nat,
           NEW b \in 0 .. 1, NEW c \in 0 .. 1, NEW k \in 0 .. 1, NEW j \in 0 .. 1,
           k + c <= b + j, x + b <= 1 + a + e, y <= x + k, d + f = a + e + j
    PROVE  y + c <= 1 + d + f
OBVIOUS

\* k calls are made, one at most, and j retries or accounts used up.
LEMMA CountKept ==
    ASSUME NEW k \in 0 .. 1, NEW j \in 0 .. 1
    PROVE  /\ Types /\ CallsCounted /\ Cardinality(Calls') \in Nat
           /\ Cardinality(Calls') <= Cardinality(Calls) + k
           /\ attempts' \in Nat /\ epoch' \in Nat /\ attempts' + epoch' = attempts + epoch + j
           /\ k = 1 => "call" \in Ahead
           /\ "call" \in Ahead' => j = 1 \/ (k = 0 /\ "call" \in Ahead)
           => CallsCounted'
<1>a. SUFFICES ASSUME Types, CallsCounted, Cardinality(Calls') \in Nat,
                      Cardinality(Calls') <= Cardinality(Calls) + k,
                      attempts' \in Nat, epoch' \in Nat, attempts' + epoch' = attempts + epoch + j,
                      k = 1 => "call" \in Ahead,
                      "call" \in Ahead' => j = 1 \/ (k = 0 /\ "call" \in Ahead)
               PROVE  CallsCounted'
  OBVIOUS
<1> DEFINE b == IF "call" \in Ahead THEN 1 ELSE 0
           c == IF "call" \in Ahead' THEN 1 ELSE 0
<1>1. b \in 0 .. 1 /\ c \in 0 .. 1
  OBVIOUS
<1>2. k = 1 => b = 1
  BY <1>a
<1>3. c = 1 => j = 1 \/ (k = 0 /\ b = 1)
  BY <1>a
<1>4. Cardinality(Calls) + b <= 1 + attempts + epoch
  BY <1>a DEF CallsCounted
<1>5. Cardinality(Calls) \in Nat /\ attempts \in Nat /\ epoch \in Nat
  <2>1. attempts \in 0 .. RetryMax /\ epoch \in Nat
    BY <1>a DEF Types
  <2>2. Cardinality(Calls) \in Nat
    BY <1>a, CallsFinite
  <2>3. attempts \in Nat
    BY <2>1, CompletionAssumption
  <2> QED BY <2>1, <2>2, <2>3
<1>6. Cardinality(Calls') <= Cardinality(Calls) + k /\ attempts' + epoch' = attempts + epoch + j
      /\ Cardinality(Calls') \in Nat /\ attempts' \in Nat /\ epoch' \in Nat
  BY <1>a
<1> HIDE DEF b, c
<1>7. k + c <= b + j
  BY <1>1, <1>2, <1>3
<1>8. Cardinality(Calls') + c <= 1 + attempts' + epoch'
  <2>1. PICK x \in Nat, y \in Nat, a \in Nat, e \in Nat, d \in Nat, f \in Nat :
          /\ x = Cardinality(Calls) /\ y = Cardinality(Calls')
          /\ a = attempts /\ e = epoch /\ d = attempts' /\ f = epoch'
    BY <1>5, <1>6
  <2>2. x + b <= 1 + a + e /\ y <= x + k /\ d + f = a + e + j
    BY <1>4, <1>6, <2>1
  <2>3. y + c <= 1 + d + f
    BY <1>1, <1>7, <2>2, Sums
  <2> QED BY <2>1, <2>3
<1> QED BY <1>8 DEF CallsCounted, c

\* How the plan may go on: the request ends, begins anew, tries again or reads an answer.
LEMMA EndsHere ==
    Types /\ req' = req /\ plan' = <<>> => OnPlan' /\ plan' \in Seq(Ops) /\ Ahead' = {}
<1>a. SUFFICES ASSUME Types, req' = req, plan' = <<>>
               PROVE  OnPlan' /\ plan' \in Seq(Ops) /\ Ahead' = {}
  OBVIOUS
<1>1. Whole' \in Seq(Ops)
  BY <1>a, Wholes DEF Whole
<1>2. \A w \in Seq(Ops) : Rest(<<>>, w)
  BY DEF Rest
<1>3. Rest(plan, Whole)'
  BY <1>a, <1>1, <1>2 DEF Rest
<1> QED BY <1>a, <1>3, NoSteps DEF OnPlan, Ahead

LEMMA ReadsOn ==
    plan' \in {<<"read">>, <<"collect">>} =>
      /\ OnPlan' /\ plan' \in Seq(Ops) /\ plan' # <<>> /\ Head(plan') # "wait"
      /\ Head(plan') # "upload" /\ Ahead' \subseteq {"read", "collect"}
<1>1. ASSUME NEW op \in {"read", "collect"}
      PROVE  /\ <<op>> \in Seq(Ops) /\ <<op>> # <<>> /\ Head(<<op>>) = op /\ Range(<<op>>) = {op}
  <2>1. <<op>> \in Seq(Ops) /\ <<op>> # <<>> /\ Head(<<op>>) = op
    BY DEF Ops
  <2>2. DOMAIN <<op>> = {1} /\ <<op>>[1] = op
    OBVIOUS
  <2>3. Range(<<op>>) = {op}
    BY <2>2 DEF Range
  <2> QED BY <2>1, <2>3
<1> QED BY <1>1 DEF OnPlan, Reading, Ahead

LEMMA Anews ==
    Types /\ req' = req /\ leg' \in {"switch", "captcha"} /\ plan' = SwitchPlan(req) =>
      /\ OnPlan' /\ plan' \in Seq(Ops) /\ plan' # <<>> /\ Head(plan') \in {"create", "pow"} /\ Made'
<1>a. SUFFICES ASSUME Types, req' = req, leg' \in {"switch", "captcha"}, plan' = SwitchPlan(req)
               PROVE  /\ OnPlan' /\ plan' \in Seq(Ops) /\ plan' # <<>>
                      /\ Head(plan') \in {"create", "pow"} /\ Made'
  OBVIOUS
<1>1. /\ SwitchPlan(req) \in Seq(Ops) /\ SwitchPlan(req) # <<>>
      /\ Rest(SwitchPlan(req), SwitchPlan(req)) /\ Head(SwitchPlan(req)) \in {"create", "pow"}
      /\ "create" \in Range(SwitchPlan(req))
      /\ req.file => {"upload", "wait"} \subseteq Range(SwitchPlan(req))
  BY <1>a, Wholes
<1>2. Whole' = SwitchPlan(req)
  BY <1>a DEF Whole
<1>3. OnPlan'
  BY <1>a, <1>1, <1>2 DEF OnPlan, Rest
<1>4. Made'
  BY <1>a, <1>1 DEF Made, Ahead
<1> QED BY <1>a, <1>1, <1>3, <1>4

LEMMA Retries ==
    leg' = "retry" /\ plan' = RetryPlan =>
      /\ OnPlan' /\ plan' \in Seq(Ops) /\ plan' # <<>> /\ Head(plan') = "pow" /\ Made'
<1>a. SUFFICES ASSUME leg' = "retry", plan' = RetryPlan
               PROVE  /\ OnPlan' /\ plan' \in Seq(Ops) /\ plan' # <<>> /\ Head(plan') = "pow" /\ Made'
  OBVIOUS
<1>1. RetryPlan \in Seq(Ops) /\ Len(RetryPlan) = 2 /\ RetryPlan # <<>> /\ Head(RetryPlan) = "pow"
  BY DEF RetryPlan, Ops
<1>2. \A j \in 1 .. 2 : 2 - 2 + j = j
  OBVIOUS
<1>3. Rest(RetryPlan, RetryPlan)
  BY <1>1, <1>2 DEF Rest
<1>4. Whole' = RetryPlan
  BY <1>a DEF Whole
<1>5. OnPlan'
  BY <1>a, <1>3, <1>4 DEF OnPlan, Rest
<1>6. Made'
  BY <1>a DEF Made
<1> QED BY <1>a, <1>1, <1>5, <1>6

LEMMA SwitchForFacts ==
    ASSUME NEW reason, NEW name
    PROVE  Types /\ WhoTypes(who) /\ result = "" /\ SwitchFor(reason, name) =>
             \/ /\ Later(who', who) /\ who'.named > who.named /\ who'.token = who'.named
                /\ leg' = name /\ epoch' = epoch + 1 /\ plan' = SwitchPlan(req) /\ result' = ""
             \/ /\ Later(who', who) /\ leg' = leg /\ epoch' = epoch /\ plan' = <<>> /\ result' = "failed"
<1>a. SUFFICES ASSUME Types, WhoTypes(who), result = "", SwitchFor(reason, name)
               PROVE  \/ /\ Later(who', who) /\ who'.named > who.named /\ who'.token = who'.named
                         /\ leg' = name /\ epoch' = epoch + 1 /\ plan' = SwitchPlan(req) /\ result' = ""
                      \/ /\ Later(who', who) /\ leg' = leg /\ epoch' = epoch /\ plan' = <<>>
                         /\ result' = "failed"
  OBVIOUS
<1>1. /\ \A s \in Switched(who) : Later(s, who) /\ s.named > who.named /\ s.token = s.named
      /\ \A s \in Unswitched(who) : Later(s, who)
      /\ Later(who, who)
  BY <1>a, Whos
<1>2. CASE Fail /\ UNCHANGED <<who, leg, epoch>>
  <2>1. Later(who', who)
    BY <1>1, <1>2
  <2> QED BY <1>2, <2>1 DEF Fail
<1>3. CASE Fail /\ who' \in Unswitched(who) /\ UNCHANGED <<leg, epoch>>
  BY <1>1, <1>3 DEF Fail
<1>4. ASSUME NEW s \in Switched(who), who' = s, Anew(name)
      PROVE  /\ Later(who', who) /\ who'.named > who.named /\ who'.token = who'.named
             /\ leg' = name /\ epoch' = epoch + 1 /\ plan' = SwitchPlan(req) /\ result' = ""
  BY <1>1, <1>4, <1>a DEF Anew
<1> QED BY <1>a, <1>2, <1>3, <1>4 DEF SwitchFor

\* Who the request is goes on; another account may be counted as used.
LEMMA AccountsKept ==
    Types /\ Accounts /\ req' = req /\ Later(who', who)
      /\ (epoch' = epoch \/ (epoch' = epoch + 1 /\ who'.named > who.named)) => Accounts' /\ epoch' \in Nat
<1>a. SUFFICES ASSUME Types, Accounts, req' = req, Later(who', who),
                      epoch' = epoch \/ (epoch' = epoch + 1 /\ who'.named > who.named)
               PROVE  Accounts' /\ epoch' \in Nat
  OBVIOUS
<1>1. epoch \in Nat
  BY <1>a DEF Types
<1>2. who.named \in Nat /\ who'.named \in Nat /\ epoch < who.named /\ who'.named >= who.named
  BY <1>a DEF Accounts, WhoTypes, Later
<1>3. epoch' < who'.named /\ epoch' \in Nat
  <2>1. epoch' = epoch \/ (epoch' = epoch + 1 /\ who'.named > who.named)
    BY <1>a
  <2> QED BY <1>1, <1>2, <2>1
<1>4. WhoTypes(who)'
  BY <1>a DEF Later, WhoTypes
<1> QED BY <1>3, <1>4 DEF Accounts

\* An account found muted lies behind, or the request ends.
LEMMA MutedKept ==
    /\ Types /\ Accounts /\ MutedBehind /\ result = "" /\ Later(who', who)
    /\ \/ muted' = muted
       \/ /\ muted' = muted \cup {who.token} /\ who.token # 0
          /\ result' = "" => who'.named > who.named /\ who'.token = who'.named
    => MutedBehind' /\ muted' \subseteq Nat
<1>a. SUFFICES ASSUME Types, Accounts, MutedBehind, result = "", Later(who', who),
                      \/ muted' = muted
                      \/ /\ muted' = muted \cup {who.token} /\ who.token # 0
                         /\ result' = "" => who'.named > who.named /\ who'.token = who'.named
               PROVE  MutedBehind' /\ muted' \subseteq Nat
  OBVIOUS
<1>1. /\ 0 \notin muted /\ muted \subseteq Nat
      /\ \A t \in muted : t < who.named /\ (who.token = 0 \/ t < who.token)
  BY <1>a DEF MutedBehind, Types
<1>2. /\ who.named \in Nat /\ who'.named \in Nat /\ who'.named >= who.named
      /\ who.token \in Nat /\ who'.token \in Nat /\ who.token <= who.named
      /\ who'.token \in {0, who'.named, who.token}
  BY <1>a DEF Accounts, WhoTypes, Later
<1>3. CASE muted' = muted
  <2>1. ASSUME NEW t \in muted PROVE t < who'.named /\ (who'.token = 0 \/ t < who'.token)
    <3>1. t \in Nat /\ t < who.named /\ (who.token = 0 \/ t < who.token)
      BY <1>1
    <3> QED BY <1>2, <3>1
  <2> QED BY <1>1, <1>3, <2>1 DEF MutedBehind
<1>4. CASE /\ muted' = muted \cup {who.token} /\ who.token # 0
           /\ result' = "" => who'.named > who.named /\ who'.token = who'.named
  <2>1. 0 \notin muted' /\ muted' \subseteq Nat
    BY <1>1, <1>2, <1>4
  <2>2. ASSUME result' = "", NEW t \in muted' PROVE t < who'.named /\ t < who'.token
    <3>1. who'.named > who.named /\ who'.token = who'.named
      BY <1>4, <2>2
    <3>2. t \in Nat /\ t <= who.named
      <4>1. CASE t \in muted
        <5>1. t \in Nat /\ t < who.named
          BY <1>1, <4>1
        <5> QED BY <1>2, <5>1
      <4>2. CASE t = who.token
        BY <1>2, <4>2
      <4> QED BY <1>4, <2>2, <4>1, <4>2
    <3> QED BY <1>2, <3>1, <3>2
  <2> QED BY <2>1, <2>2 DEF MutedBehind
<1> QED BY <1>a, <1>3, <1>4

\* The message of a prompt's part, where everything it refers to has been made.
LEMMA PromptGood ==
    ASSUME NEW from \in Nat, NEW to \in Nat, NEW settled \in {"committed", "broken", "unknown"}
    PROVE  /\ Types /\ WhoTypes(who) /\ leg # "retry" /\ Linked /\ session.epoch = epoch
           /\ (req.file => file.epoch = epoch) /\ FileReady(file)
           /\ from = chain.from /\ to \in {from, req.segs}
           => /\ Good(Message(Prompt(from, to), settled)) /\ Prompt(from, to) \in Payloads
              /\ Prompt(from, to).file = file
<1>a. SUFFICES ASSUME Types, WhoTypes(who), leg # "retry", Linked, session.epoch = epoch,
                      req.file => file.epoch = epoch, FileReady(file),
                      from = chain.from, to \in {from, req.segs}
               PROVE  /\ Good(Message(Prompt(from, to), settled)) /\ Prompt(from, to) \in Payloads
                      /\ Prompt(from, to).file = file
  OBVIOUS
<1> DEFINE p == Prompt(from, to)
           m == Message(p, settled)
<1>1. /\ who.token \in Nat /\ session \in Sessions /\ file \in Files /\ chain.parent \in Nat
      /\ leg \in Legs /\ epoch \in Nat
  <2>1. session \in Sessions /\ file \in Files /\ leg \in Legs /\ epoch \in Nat
        /\ chain \in [parent : Nat, from : 1 .. req.segs]
    BY <1>a DEF Types
  <2>2. who.token \in Nat
    BY <1>a DEF WhoTypes
  <2> QED BY <2>1, <2>2
<1>2. p \in Payloads /\ p.session = session /\ p.file = file /\ p.parent = chain.parent
      /\ p.from = from /\ p.to = to
  BY <1>1 DEF Prompt, Payloads
<1> HIDE DEF p
<1>3. /\ m \in Messages /\ m.session = session /\ m.file = file /\ m.parent = chain.parent
      /\ m.from = from /\ m.to = to /\ m.leg = leg /\ m.epoch = epoch /\ m.settled = settled
  BY <1>1, <1>2 DEF Message, Messages
<1> HIDE DEF m
<1>4. /\ chain.parent = 0 => chain.from = 1
      /\ chain.parent # 0 =>
           /\ chain.parent \in 1 .. Len(sent)
           /\ sent[chain.parent].settled # "unknown" /\ sent[chain.parent].to + 1 = chain.from
           /\ sent[chain.parent].session = session /\ sent[chain.parent].leg # "retry"
           /\ sent[chain.parent].epoch = epoch
  BY <1>a DEF Linked
<1>5. Good(m)
  BY <1>a, <1>3, <1>4 DEF Good
<1> QED BY <1>2, <1>5 DEF p, m

LEMMA Halves ==
    ASSUME NEW n \in Nat, NEW f \in 1 .. n, NEW k \in Nat,
           k \in {2 * (n - f) + 1, 2 * (n - f) + 2}, k % 2 = 1, k > 1
    PROVE  f < n /\ f + 1 \in 1 .. n /\ k - 1 = 2 * (n - (f + 1)) + 2
<1>1. PICK i \in Nat : i = n - f
  OBVIOUS
<1>2. k = 2 * i + 1 /\ i > 0
  BY <1>1
<1> QED BY <1>1, <1>2

LEMMA FireStep == IInv /\ FireSegment => IInv'
<1>a. SUFFICES ASSUME IInv, FireSegment PROVE IInv'
  OBVIOUS
<1>b. Types
  BY <1>a DEF IInv
<1>c. Accounts /\ Tries /\ PayloadsReady /\ Made /\ OnPlan
  BY <1>a DEF IInv
<1>c2. Messaging /\ CallsCounted /\ MutedBehind
  BY <1>a DEF IInv
<1>d. Beginning("fire")
  <2>1. Doing("fire")
    BY <1>a DEF FireSegment
  <2> QED BY <1>a, <2>1, Begins
<1>e. /\ UNCHANGED <<req, leg, epoch, attempts, payload, first, seen, session, file>>
      /\ who' = who /\ loop' = loop /\ upload' = upload
  BY <1>a DEF FireSegment, loops, tries, reading
<1>f. /\ result = "" /\ ~Reading /\ Head(plan) = "fire" /\ plan # <<>> /\ leg # "retry" /\ ~req.file
      /\ Range(plan) \subseteq {"fire", "pow", "call"} /\ "call" \in Range(plan)
      /\ Len(plan) % 2 = 1 /\ Len(plan) > 1 /\ Len(plan) \in Nat
  BY <1>d DEF Beginning, InOrder
<1>g. /\ WhoTypes(who) /\ upload.tries < MaxAttempts /\ loop.tries < MaxAttempts /\ Later(who, who)
  <2>1. WhoTypes(who)
    BY <1>c DEF Accounts
  <2>2. upload.tries < MaxAttempts /\ loop.tries < MaxAttempts
    BY <1>c, <1>f DEF Tries
  <2>3. Later(who, who)
    BY <1>b, <2>1, Whos
  <2> QED BY <2>1, <2>2, <2>3
<1>h. /\ "create" \notin Ahead /\ "fire" \in Ahead /\ "call" \in Ahead
  <2>1. Range(plan) = {Head(plan)} \cup Range(Tail(plan))
    BY <1>b, <1>f, RangeFacts DEF Types
  <2> QED BY <1>f, <2>1 DEF Ahead
<1>i. session.epoch = epoch /\ Linked /\ file = NoFile /\ FileReady(file)
  <2>1. session.epoch = epoch /\ Linked
    BY <1>c, <1>f, <1>h DEF Made
  <2>2. file = NoFile
    BY <1>c, <1>f DEF PayloadsReady
  <2> QED BY <2>1, <2>2 DEF FileReady
<1>j. /\ req.segs \in Nat \ {0} /\ chain.from \in 1 .. req.segs /\ chain.parent \in Nat
      /\ chain.from \in Nat /\ epoch \in Nat /\ attempts \in Nat
  <2>1. req \in Requests /\ chain \in [parent : Nat, from : 1 .. req.segs] /\ epoch \in Nat
        /\ attempts \in 0 .. RetryMax
    BY <1>b DEF Types
  <2>2. req.segs \in Nat \ {0}
    BY <2>1, CompletionAssumption DEF Requests
  <2>3. chain.from \in 1 .. req.segs /\ chain.parent \in Nat
    BY <2>1
  <2>4. attempts \in Nat
    BY <2>1, CompletionAssumption
  <2>5. chain.from \in Nat
    BY <2>2, <2>3
  <2> QED BY <2>1, <2>2, <2>3, <2>4, <2>5
\* There is a segment after this one.
<1>k. /\ chain.from < req.segs /\ chain.from + 1 \in 1 .. req.segs
      /\ Len(plan) - 1 = 2 * (req.segs - (chain.from + 1)) + 2
  <2>1. Len(plan) \in {2 * (req.segs - chain.from) + 1, 2 * (req.segs - chain.from) + 2}
    BY <1>c, <1>f, <1>h DEF Made
  <2>2. PICK n \in Nat, f \in Nat, k \in Nat : n = req.segs /\ f = chain.from /\ k = Len(plan)
    BY <1>f, <1>j
  <2>3. k \in {2 * (n - f) + 1, 2 * (n - f) + 2} /\ k % 2 = 1 /\ k > 1 /\ f \in 1 .. n
    BY <1>f, <1>j, <2>1, <2>2
  <2>4. f < n /\ f + 1 \in 1 .. n /\ k - 1 = 2 * (n - (f + 1)) + 2
    BY <2>3, Halves
  <2> QED BY <2>2, <2>4
<1> DEFINE p == Prompt(chain.from, chain.from)
<1>l. ASSUME NEW settled \in {"committed", "broken", "unknown"}, sent' = Append(sent, Message(p, settled))
      PROVE  /\ Messaging' /\ Good(Message(p, settled)) /\ sent' \in Seq(Messages)
             /\ Cardinality(Calls') \in Nat /\ Cardinality(Calls') = Cardinality(Calls)
             /\ Linked => (chain' = chain => Linked')
             /\ Len(sent') = Len(sent) + 1 /\ Len(sent) \in Nat /\ sent'[Len(sent) + 1] = Message(p, settled)
  <2>1. Good(Message(p, settled))
    BY <1>b, <1>f, <1>g, <1>i, <1>j, PromptGood
  <2>2. Messaging'
    BY <1>b, <1>c2, <1>e, <1>l, <2>1, PostedGood
  <2>3. Message(p, settled) \in Messages /\ Message(p, settled).to # req.segs
    <3>1. Message(p, settled) \in Messages
      BY <2>1 DEF Good
    <3>2. Message(p, settled).to = chain.from
      BY DEF Message, Prompt
    <3>3. chain.from # req.segs
      BY <1>j, <1>k
    <3> QED BY <3>1, <3>2, <3>3
  <2>4. Cardinality(Calls') \in Nat /\ Cardinality(Calls') = Cardinality(Calls)
    BY <1>b, <1>e, <1>l, <2>3, PostedCalls
  <2>5. /\ sent' \in Seq(Messages) /\ Len(sent') = Len(sent) + 1 /\ Len(sent) \in Nat
        /\ sent'[Len(sent) + 1] = Message(p, settled)
        /\ \A i \in 1 .. Len(sent) : sent'[i] = sent[i]
    BY <1>b, <1>l, <2>3, Appended
  <2>6. ASSUME Linked, chain' = chain PROVE Linked'
    <3>1. \A i \in 1 .. Len(sent) : i \in 1 .. Len(sent')
      BY <2>5
    <3> QED BY <1>e, <2>5, <2>6, <3>1 DEF Linked
  <2> QED BY <2>1, <2>2, <2>4, <2>5, <2>6
\* The rest of the prompt goes with the call.
<1>1. ASSUME NEW settled \in {"committed", "broken", "unknown"}, sent' = Append(sent, Message(p, settled)),
             FireFailed, UNCHANGED <<result, muted>>
      PROVE  IInv'
  <2>1. /\ Messaging' /\ sent' \in Seq(Messages) /\ Cardinality(Calls') \in Nat
        /\ Cardinality(Calls') = Cardinality(Calls) /\ Linked' /\ plan' = <<"pow", "call">>
        /\ chain' = chain /\ result' = "" /\ muted' = muted
    BY <1>1, <1>f, <1>i, <1>l DEF FireFailed
  <2>2. /\ <<"pow", "call">> \in Seq(Ops) /\ <<"pow", "call">> # <<>> /\ Head(<<"pow", "call">>) = "pow"
        /\ Range(<<"pow", "call">>) = {"pow", "call"}
    <3>1. DOMAIN <<"pow", "call">> = {1, 2} /\ <<"pow", "call">>[1] = "pow" /\ <<"pow", "call">>[2] = "call"
      OBVIOUS
    <3>2. Range(<<"pow", "call">>) = {"pow", "call"}
      BY <3>1 DEF Range
    <3> QED BY <3>2 DEF Ops
  <2>3. OnPlan'
    <3>1. Whole' = StartPlan(req)
      <4>1. req \in Requests
        BY <1>b DEF Types
      <4>2. SwitchPlan(req) = StartPlan(req)
        BY <1>f, <4>1, Plans
      <4> QED BY <1>e, <1>f, <4>2 DEF Whole
    <3>2. PICK w \in Seq(Ops) : w = StartPlan(req)
      BY <1>b, Wholes
    <3>3. Len(w) = 2 * req.segs + 1 /\ w[2 * req.segs + 1] = "call" /\ w[2 * req.segs] = "pow"
      BY <1>b, <1>f, <3>2, SegmentPlan DEF Types
    <3>4. PICK n \in Nat \ {0} : n = req.segs
      BY <1>j
    <3>5. Len(w) = 2 * n + 1 /\ w[2 * n + 1] = "call" /\ w[2 * n] = "pow"
      BY <3>3, <3>4
    <3>6. PICK q \in Seq(Ops) : q = <<"pow", "call">>
      BY <2>2
    <3>7. Len(q) = 2 /\ q[1] = "pow" /\ q[2] = "call"
      BY <3>6
    <3>8. 2 * n + 1 - 2 + 1 = 2 * n /\ 2 * n + 1 - 2 + 2 = 2 * n + 1 /\ 2 <= 2 * n + 1
      BY <3>4
    <3>9. Rest(q, w)
      <4>1. \A j \in 1 .. 2 : j = 1 \/ j = 2
        OBVIOUS
      <4>2. ASSUME NEW j \in 1 .. 2 PROVE q[j] = w[2 * n + 1 - 2 + j]
        <5>1. CASE j = 1
          BY <3>5, <3>7, <3>8, <5>1
        <5>2. CASE j = 2
          BY <3>5, <3>7, <3>8, <5>2
        <5> QED BY <4>1, <5>1, <5>2
      <4> QED BY <3>5, <3>7, <3>8, <4>2 DEF Rest
    <3> QED BY <2>1, <3>1, <3>2, <3>6, <3>9 DEF OnPlan, Rest
  <2>4. Ahead' = {"pow", "call"}
    BY <2>1, <2>2 DEF Ahead
  <2>5. Types'
    <3>1. plan' \in Seq(Ops) /\ plan' # <<>>
      BY <2>1, <2>2
    <3> QED BY <1>b, <1>e, <2>1, <3>1 DEF Types
  <2>6. Accounts'
    BY <1>c, <1>e DEF Accounts, WhoTypes
  <2>7. Tries'
    BY <1>e, <1>g, <2>1, <2>2 DEF Tries
  <2>8. Made'
    BY <1>e, <1>f, <1>i, <2>1, <2>4 DEF Made
  <2>9. PayloadsReady'
    BY <1>c, <1>e DEF PayloadsReady, FileReady
  <2>10. CallsCounted'
    <3>1. Cardinality(Calls') <= Cardinality(Calls) + 0
      <4>1. PICK x \in Nat : x = Cardinality(Calls')
        BY <2>1
      <4>2. x <= x + 0
        BY <4>1
      <4> QED BY <2>1, <4>1, <4>2
    <3>2. attempts' \in Nat /\ epoch' \in Nat /\ attempts' + epoch' = attempts + epoch + 0
      BY <1>e, <1>j
    <3>3. 0 \in 0 .. 1
      OBVIOUS
    <3> QED BY <1>b, <1>c2, <1>h, <2>1, <3>1, <3>2, <3>3, CountKept
  <2>11. MutedBehind'
    BY <1>b, <1>c, <1>c2, <1>e, <1>f, <1>g, <2>1, MutedKept
  <2> QED BY <2>1, <2>3, <2>5, <2>6, <2>7, <2>8, <2>9, <2>10, <2>11 DEF IInv
\* The account is muted.
<1>2. ASSUME who.token # 0, Fail, muted' = muted \cup {who.token}, UNCHANGED <<sent, chain>>
      PROVE  IInv'
  <2>1. plan' = <<>> /\ result' = "failed" /\ sent' = sent /\ chain' = chain
    BY <1>2 DEF Fail
  <2>2. OnPlan' /\ plan' \in Seq(Ops) /\ Ahead' = {}
    BY <1>b, <1>e, <2>1, EndsHere
  <2>3. MutedBehind' /\ muted' \subseteq Nat
    BY <1>2, <1>b, <1>c, <1>c2, <1>e, <1>f, <1>g, <2>1, MutedKept
  <2>4. Types'
    <3>1. plan' \in Seq(Ops) /\ muted' \subseteq Nat
      BY <2>2, <2>3
    <3> QED BY <1>b, <1>e, <2>1, <3>1 DEF Types
  <2>5. Accounts'
    BY <1>c, <1>e DEF Accounts, WhoTypes
  <2>6. Tries'
    BY <1>e, <1>g, <2>1 DEF Tries
  <2>7. Made'
    BY <2>1 DEF Made
  <2>8. PayloadsReady'
    BY <1>c, <1>e DEF PayloadsReady, FileReady
  <2>9. Messaging'
    BY <1>c2, <1>e, <2>1 DEF Messaging, ChainWhole, ParentsBefore, SwitchedFresh, FilesReady
  <2>10. CallsCounted'
    <3>1. Calls' = Calls
      BY <1>e, <2>1 DEF Calls
    <3>2. Cardinality(Calls) \in Nat
      BY <1>b, CallsFinite
    <3>3. Cardinality(Calls') \in Nat /\ Cardinality(Calls') <= Cardinality(Calls) + 0
      <4>1. PICK x \in Nat : x = Cardinality(Calls)
        BY <3>2
      <4>2. x <= x + 0
        BY <4>1
      <4> QED BY <3>1, <4>1, <4>2
    <3>4. attempts' \in Nat /\ epoch' \in Nat /\ attempts' + epoch' = attempts + epoch + 0
      BY <1>e, <1>j
    <3>5. 0 \in 0 .. 1
      OBVIOUS
    <3> QED BY <1>b, <1>c2, <2>2, <3>3, <3>4, <3>5, CountKept
  <2> QED BY <2>2, <2>3, <2>4, <2>5, <2>6, <2>7, <2>8, <2>9, <2>10 DEF IInv
\* The segment is committed: the next one continues it.
<1>3. ASSUME NEW d \in Drains, sent' = Append(sent, Message(p, Settled(d))), muted' = muted, Confirmed(d),
             chain' = [parent |-> Len(sent) + 1, from |-> chain.from + 1], Proceed
      PROVE  IInv'
  <2>0. Settled(d) \in {"committed", "broken"}
    BY <1>3 DEF Settled, Confirmed, Drains
  <2>1. /\ Messaging' /\ sent' \in Seq(Messages) /\ Cardinality(Calls') \in Nat
        /\ Cardinality(Calls') = Cardinality(Calls) /\ Len(sent') = Len(sent) + 1 /\ Len(sent) \in Nat
        /\ sent'[Len(sent) + 1] = Message(p, Settled(d))
    BY <1>3, <1>l, <2>0
  <2>2. plan' = Tail(plan) /\ result' = ""
    BY <1>3, <1>f DEF Proceed
  <2>3. /\ OnPlan' /\ plan' \in Seq(Ops) /\ Ahead = {"fire"} \cup Ahead' /\ plan' # <<>>
        /\ Len(plan') = Len(plan) - 1
    BY <1>a, <1>d, <1>e, <2>2, QuietProceed
  <2>4. chain' \in [parent : Nat, from : 1 .. req.segs] /\ chain'.from = chain.from + 1
        /\ chain'.parent = Len(sent) + 1
    BY <1>3, <1>k, <2>1
  <2>5. Linked'
    <3>1. /\ Message(p, Settled(d)).settled = Settled(d) /\ Message(p, Settled(d)).to = chain.from
          /\ Message(p, Settled(d)).session = session /\ Message(p, Settled(d)).leg = leg
          /\ Message(p, Settled(d)).epoch = epoch
      BY DEF Message, Prompt
    <3>2. chain'.parent # 0 /\ chain'.parent \in 1 .. Len(sent')
      BY <2>1, <2>4
    <3>3. sent'[chain'.parent] = Message(p, Settled(d))
      BY <2>1, <2>4
    <3> QED BY <1>e, <1>f, <2>0, <2>4, <3>1, <3>2, <3>3 DEF Linked
  <2>6. Types'
    <3>1. plan' \in Seq(Ops) /\ plan' # <<>>
      BY <2>3
    <3> QED BY <1>3, <1>b, <1>e, <2>1, <2>2, <2>4, <3>1 DEF Types
  <2>7. Accounts'
    BY <1>c, <1>e DEF Accounts, WhoTypes
  <2>8. Tries'
    <3>1. Head(plan') \notin {"wait", "upload"}
      <4>1. Head(plan') \in Range(plan')
        BY <2>3, RangeFacts
      <4> QED BY <1>f, <2>3, <4>1 DEF Ahead
    <3> QED BY <1>e, <1>g, <2>2, <3>1 DEF Tries
  <2>9. Made'
    <3>1. Len(plan') = 2 * (req.segs - (chain.from + 1)) + 2
      BY <1>k, <2>3
    <3>2. Len(plan') \in {2 * (req.segs - chain'.from) + 1, 2 * (req.segs - chain'.from) + 2}
      BY <2>4, <3>1
    <3> QED BY <1>e, <1>f, <1>i, <2>5, <3>2 DEF Made
  <2>10. PayloadsReady'
    BY <1>c, <1>e DEF PayloadsReady, FileReady
  <2>11. CallsCounted'
    <3>1. Cardinality(Calls') <= Cardinality(Calls) + 0
      <4>1. PICK x \in Nat : x = Cardinality(Calls')
        BY <2>1
      <4>2. x <= x + 0
        BY <4>1
      <4> QED BY <2>1, <4>1, <4>2
    <3>2. attempts' \in Nat /\ epoch' \in Nat /\ attempts' + epoch' = attempts + epoch + 0
      BY <1>e, <1>j
    <3>3. 0 \in 0 .. 1
      OBVIOUS
    <3> QED BY <1>b, <1>c2, <1>h, <2>1, <3>1, <3>2, <3>3, CountKept
  <2>12. MutedBehind'
    BY <1>3, <1>b, <1>c, <1>c2, <1>e, <1>f, <1>g, MutedKept
  <2> QED BY <2>1, <2>3, <2>6, <2>7, <2>8, <2>9, <2>10, <2>11, <2>12 DEF IInv
<1>4. CASE sent' = Append(sent, Message(p, "unknown")) /\ FireFailed /\ UNCHANGED <<result, muted>>
  BY <1>1, <1>4
<1>5. ASSUME NEW d \in Drains, sent' = Append(sent, Message(p, Settled(d))), UNCHANGED muted,
             IF Confirmed(d)
             THEN chain' = [parent |-> Len(sent) + 1, from |-> chain.from + 1] /\ Proceed
             ELSE FireFailed /\ UNCHANGED result
      PROVE  IInv'
  <2>1. Settled(d) \in {"committed", "broken", "unknown"}
    BY DEF Settled, Drains
  <2> QED BY <1>1, <1>3, <1>5, <2>1
<1> QED BY <1>a, <1>2, <1>4, <1>5 DEF FireSegment

\* How a step of the runtime goes on.
Ends == plan' = <<>> /\ result' = "failed" /\ leg' = leg /\ epoch' = epoch
StartsAnew == /\ plan' = SwitchPlan(req) /\ result' = "" /\ leg' \in {"switch", "captcha"} /\ epoch' = epoch + 1
           /\ who'.named > who.named /\ who'.token = who'.named
Reads == /\ plan' \in {<<"read">>, <<"collect">>} /\ result' = "" /\ leg' = leg /\ epoch' = epoch
GoesOn == Later(who', who) /\ (Ends \/ StartsAnew \/ Reads)

\* What is made and counted where a step goes on so, if k calls have been made.
LEMMA Onward ==
    ASSUME NEW k \in 0 .. 1
    PROVE  /\ Types /\ Accounts /\ Tries /\ CallsCounted /\ result = "" /\ GoesOn
           /\ UNCHANGED <<req, loop, upload, session, file, chain, attempts>>
           /\ Head(plan) \notin {"wait"} /\ (k = 1 => "call" \in Ahead)
           /\ Cardinality(Calls') \in Nat /\ Cardinality(Calls') <= Cardinality(Calls) + k
           /\ leg # "retry" => session.epoch = epoch /\ Linked'
           /\ leg # "retry" /\ req.file => file.epoch = epoch /\ IsReady(file.status)
           => /\ OnPlan' /\ plan' \in Seq(Ops) /\ (plan' = <<>> <=> result' # "") /\ leg' \in Legs
              /\ result' \in {"", "answered", "failed"}
              /\ epoch' \in Nat /\ Accounts' /\ Tries' /\ Made' /\ CallsCounted'
<1>a. SUFFICES ASSUME Types, Accounts, Tries, CallsCounted, result = "", GoesOn,
                      UNCHANGED <<req, loop, upload, session, file, chain, attempts>>,
                      Head(plan) \notin {"wait"}, k = 1 => "call" \in Ahead,
                      Cardinality(Calls') \in Nat, Cardinality(Calls') <= Cardinality(Calls) + k,
                      leg # "retry" => session.epoch = epoch /\ Linked',
                      leg # "retry" /\ req.file => file.epoch = epoch /\ IsReady(file.status)
               PROVE  /\ OnPlan' /\ plan' \in Seq(Ops) /\ (plan' = <<>> <=> result' # "") /\ leg' \in Legs
                      /\ result' \in {"", "answered", "failed"}
                      /\ epoch' \in Nat /\ Accounts' /\ Tries' /\ Made' /\ CallsCounted'
  OBVIOUS
<1>1. upload.tries < MaxAttempts /\ loop.tries < MaxAttempts /\ leg \in Legs
  BY <1>a DEF Tries, Types
<1>2. Later(who', who) /\ (Ends \/ StartsAnew \/ Reads)
  BY <1>a DEF GoesOn
<1>3. epoch' = epoch \/ (epoch' = epoch + 1 /\ who'.named > who.named)
  BY <1>2 DEF Ends, StartsAnew, Reads
<1>4. Accounts' /\ epoch' \in Nat
  BY <1>a, <1>2, <1>3, AccountsKept
<1>5. attempts' \in Nat /\ attempts' = attempts /\ epoch \in Nat
  <2>1. attempts \in 0 .. RetryMax /\ epoch \in Nat
    BY <1>a DEF Types
  <2>2. attempts \in Nat
    BY <2>1, CompletionAssumption
  <2>3. attempts' = attempts
    BY <1>a
  <2> QED BY <2>1, <2>2, <2>3
<1>6. CASE Ends
  <2>1. OnPlan' /\ plan' \in Seq(Ops) /\ Ahead' = {}
    BY <1>a, <1>6, EndsHere DEF Ends
  <2>2. plan' = <<>> /\ result' = "failed" /\ leg' = leg /\ epoch' = epoch
    BY <1>6 DEF Ends
  <2>3. Tries' /\ Made'
    BY <1>a, <1>1, <2>2 DEF Tries, Made
  <2>4. attempts' + epoch' = attempts + epoch + 0 /\ 0 \in 0 .. 1
    BY <1>5, <2>2
  <2>5. CallsCounted'
    BY <1>a, <1>4, <1>5, <2>1, <2>4, CountKept
  <2> QED BY <1>1, <1>4, <2>1, <2>2, <2>3, <2>5
<1>7. CASE StartsAnew
  <2>0. /\ leg' \in {"switch", "captcha"} /\ plan' = SwitchPlan(req) /\ result' = ""
        /\ epoch' = epoch + 1
    BY <1>7 DEF StartsAnew
  <2>1. /\ OnPlan' /\ plan' \in Seq(Ops) /\ plan' # <<>> /\ Head(plan') \in {"create", "pow"} /\ Made'
    BY <1>a, <2>0, Anews
  <2>2. Tries'
    BY <1>a, <1>1, <2>1 DEF Tries
  <2>3. leg' \in Legs
    BY <2>0 DEF Legs
  <2>4. attempts' + epoch' = attempts + epoch + 1 /\ 1 \in 0 .. 1
    <3>1. epoch' = epoch + 1
      BY <2>0
    <3> QED BY <1>5, <3>1
  <2>5. CallsCounted'
    BY <1>a, <1>4, <1>5, <2>4, CountKept
  <2> QED BY <1>4, <2>0, <2>1, <2>2, <2>3, <2>5
<1>8. CASE Reads
  <2>0. plan' \in {<<"read">>, <<"collect">>} /\ result' = "" /\ leg' = leg /\ epoch' = epoch
    BY <1>8 DEF Reads
  <2>1. /\ OnPlan' /\ plan' \in Seq(Ops) /\ plan' # <<>> /\ Head(plan') # "wait"
        /\ Head(plan') # "upload" /\ Ahead' \subseteq {"read", "collect"}
    BY <2>0, ReadsOn
  <2>2. Tries'
    BY <1>a, <1>1, <2>1 DEF Tries
  <2>3. Made'
    BY <1>a, <2>0, <2>1 DEF Made
  <2>4. attempts' + epoch' = attempts + epoch + 0 /\ 0 \in 0 .. 1
    <3>1. epoch' = epoch
      BY <2>0
    <3> QED BY <1>5, <3>1
  <2>5. CallsCounted'
    BY <1>a, <1>4, <1>5, <2>1, <2>4, CountKept
  <2> QED BY <1>1, <1>4, <2>0, <2>1, <2>2, <2>3, <2>5
<1> QED BY <1>2, <1>6, <1>7, <1>8

LEMMA CallStep == IInv /\ CallCompletion => IInv'
<1>a. SUFFICES ASSUME IInv, CallCompletion PROVE IInv'
  OBVIOUS
<1>b. Types
  BY <1>a DEF IInv
<1>c. Accounts /\ Tries /\ PayloadsReady /\ Made /\ OnPlan
  BY <1>a DEF IInv
<1>c2. Messaging /\ CallsCounted /\ MutedBehind
  BY <1>a DEF IInv
<1>d. Beginning("call")
  <2>1. Doing("call")
    BY <1>a DEF CallCompletion
  <2> QED BY <1>a, <2>1, Begins
<1>e. UNCHANGED <<req, loop, upload, session, file, chain, seen, attempts>>
  BY <1>a DEF CallCompletion, loops, made
<1>f. result = "" /\ ~Reading /\ Head(plan) = "call" /\ Ahead = {"call"}
  BY <1>d DEF Beginning, InOrder, Ahead
<1>g. /\ WhoTypes(who) /\ upload.tries < MaxAttempts /\ loop.tries < MaxAttempts /\ Later(who, who)
      /\ who.token \in Nat /\ loop \in LoopStates /\ upload \in LoopStates
  <2>1. WhoTypes(who)
    BY <1>c DEF Accounts
  <2>2. upload.tries < MaxAttempts /\ loop.tries < MaxAttempts
    BY <1>c, <1>f DEF Tries
  <2>3. Later(who, who)
    BY <1>b, <2>1, Whos
  <2>4. who.token \in Nat
    BY <2>1 DEF WhoTypes
  <2>5. loop \in LoopStates /\ upload \in LoopStates
    BY <1>b DEF Types
  <2> QED BY <2>1, <2>2, <2>3, <2>4, <2>5
<1>h. /\ leg \in Legs /\ payload \in Payloads /\ first \in Payloads /\ epoch \in Nat
      /\ FileReady(payload.file) /\ FileReady(first.file) /\ (~req.file => file = NoFile)
  BY <1>b, <1>c DEF Types, PayloadsReady
<1>i. leg # "retry" => session.epoch = epoch /\ Linked
  BY <1>c, <1>f DEF Made
<1>j. /\ leg # "retry" /\ req.file => file.epoch = epoch /\ IsReady(file.status)
      /\ leg # "retry" => FileReady(file)
  BY <1>c, <1>f, <1>h DEF Made, FileReady
<1> DEFINE p == IF leg = "retry" THEN payload ELSE Prompt(chain.from, req.segs)
<1>k. ASSUME NEW settled \in {"committed", "broken", "unknown"}
      PROVE  Good(Message(p, settled)) /\ p \in Payloads /\ FileReady(p.file)
  <2>1. CASE leg = "retry"
    <3>1. /\ payload.session \in Sessions /\ payload.file \in Files /\ payload.parent \in Nat
          /\ payload.from \in Nat /\ payload.to \in Nat
      BY <1>h DEF Payloads
    <3> DEFINE m == Message(payload, settled)
    <3>2. m \in Messages /\ m.leg = "retry" /\ m.file = payload.file
      BY <1>g, <1>h, <2>1, <3>1 DEF Message, Messages
    <3> HIDE DEF m
    <3>3. Good(m)
      BY <1>h, <3>2 DEF Good
    <3>4. p = payload
      BY <2>1
    <3> HIDE DEF p
    <3> QED BY <1>h, <3>3, <3>4 DEF m
  <2>2. CASE leg # "retry"
    <3>1. chain.from \in Nat /\ req.segs \in Nat
      <4>1. req \in Requests /\ chain \in [parent : Nat, from : 1 .. req.segs]
        BY <1>b DEF Types
      <4>2. req.segs \in Nat
        BY <4>1, CompletionAssumption DEF Requests
      <4> QED BY <4>1, <4>2
    <3> DEFINE q == Prompt(chain.from, req.segs)
    <3>2. Good(Message(q, settled)) /\ q \in Payloads /\ q.file = file
      BY <1>b, <1>g, <1>i, <1>j, <2>2, <3>1, PromptGood
    <3>3. p = q
      BY <2>2
    <3> HIDE DEF p, q
    <3> QED BY <1>j, <2>2, <3>2, <3>3
  <2> QED BY <2>1, <2>2
<1> HIDE DEF p
<1>l. ASSUME NEW settled \in {"committed", "broken", "unknown"}, sent' = Append(sent, Message(p, settled))
      PROVE  /\ Messaging' /\ sent' \in Seq(Messages)
             /\ Cardinality(Calls') \in Nat /\ Cardinality(Calls') <= Cardinality(Calls) + 1
             /\ Linked /\ epoch' = epoch => Linked'
  <2>1. Good(Message(p, settled))
    BY <1>k
  <2>2. Messaging'
    BY <1>b, <1>c2, <1>e, <1>l, <2>1, PostedGood
  <2>3. Message(p, settled) \in Messages
    BY <2>1 DEF Good
  <2>4. Cardinality(Calls') \in Nat /\ Cardinality(Calls') <= Cardinality(Calls) + 1
    BY <1>b, <1>e, <1>l, <2>3, PostedCalls
  <2>5. /\ sent' \in Seq(Messages) /\ Len(sent') = Len(sent) + 1 /\ Len(sent) \in Nat
        /\ \A i \in 1 .. Len(sent) : sent'[i] = sent[i]
    BY <1>b, <1>l, <2>3, Appended
  <2>6. ASSUME Linked, epoch' = epoch PROVE Linked'
    <3>1. \A i \in 1 .. Len(sent) : i \in 1 .. Len(sent')
      BY <2>5
    <3> QED BY <1>e, <2>5, <2>6, <3>1 DEF Linked
  <2> QED BY <2>2, <2>4, <2>5, <2>6
\* However the step goes on, the invariant holds.
<1>m. ASSUME NEW settled \in {"committed", "broken", "unknown"}, sent' = Append(sent, Message(p, settled)),
             GoesOn, payload' \in Payloads, first' \in Payloads,
             FileReady(payload'.file), FileReady(first'.file),
             muted' = muted \/ (muted' = muted \cup {who.token} /\ who.token # 0 /\ ~Reads)
      PROVE  IInv'
  <2>1. /\ Messaging' /\ sent' \in Seq(Messages)
        /\ Cardinality(Calls') \in Nat /\ Cardinality(Calls') <= Cardinality(Calls) + 1
        /\ Linked /\ epoch' = epoch => Linked'
    BY <1>l, <1>m
  <2>2. Later(who', who) /\ (Ends \/ StartsAnew \/ Reads)
    BY <1>m DEF GoesOn
  <2>3. CASE ~StartsAnew
    <3>1. epoch' = epoch
      BY <2>2, <2>3 DEF Ends, Reads
    <3>2. leg # "retry" => session.epoch = epoch /\ Linked'
      BY <1>i, <2>1, <3>1
    <3>3. Head(plan) \notin {"wait"} /\ "call" \in Ahead
      BY <1>f
    <3>8. 1 \in 0 .. 1
      OBVIOUS
    <3>4. /\ OnPlan' /\ plan' \in Seq(Ops) /\ (plan' = <<>> <=> result' # "") /\ leg' \in Legs
          /\ result' \in {"", "answered", "failed"}
          /\ epoch' \in Nat /\ Accounts' /\ Tries' /\ Made' /\ CallsCounted'
      BY <1>m, <1>b, <1>c, <1>c2, <1>e, <1>f, <1>j, <2>1, <3>2, <3>3, <3>8, Onward
    <3>5. MutedBehind' /\ muted' \subseteq Nat
      <4>1. CASE Ends
        <5>1. result' # ""
          BY <4>1 DEF Ends
        <5> QED BY <1>b, <1>c, <1>c2, <1>f, <1>m, <2>2, <5>1, MutedKept
      <4>2. CASE Reads
        <5>1. muted' = muted
          BY <1>m, <4>2
        <5> QED BY <1>b, <1>c, <1>c2, <1>f, <2>2, <5>1, MutedKept
      <4> QED BY <2>2, <2>3, <4>1, <4>2
    <3>6. Types'
      BY <1>b, <1>e, <1>m, <2>1, <3>4, <3>5 DEF Types
    <3>7. PayloadsReady'
      BY <1>e, <1>h, <1>m DEF PayloadsReady, FileReady
    <3> QED BY <2>1, <3>4, <3>5, <3>6, <3>7 DEF IInv
  <2>4. CASE StartsAnew
    <3>0. /\ leg' \in {"switch", "captcha"} /\ plan' = SwitchPlan(req) /\ result' = ""
          /\ epoch' = epoch + 1 /\ who'.named > who.named /\ who'.token = who'.named
      BY <2>4 DEF StartsAnew
    <3>1. /\ OnPlan' /\ plan' \in Seq(Ops) /\ plan' # <<>> /\ Head(plan') \in {"create", "pow"} /\ Made'
      BY <1>b, <1>e, <3>0, Anews
    <3>2. Tries'
      BY <1>e, <1>g, <3>1 DEF Tries
    <3>3. Accounts' /\ epoch' \in Nat
      BY <1>b, <1>c, <1>e, <2>2, <3>0, AccountsKept
    <3>4. MutedBehind' /\ muted' \subseteq Nat
      BY <1>b, <1>c, <1>c2, <1>f, <1>m, <2>2, <3>0, MutedKept
    <3>5. CallsCounted'
      <4>1. epoch' = epoch + 1
        BY <3>0
      <4>2. attempts' \in Nat /\ attempts' = attempts
        <5>1. attempts \in 0 .. RetryMax
          BY <1>b DEF Types
        <5>2. attempts \in Nat
          BY <5>1, CompletionAssumption
        <5>3. attempts' = attempts
          BY <1>e
        <5> QED BY <5>2, <5>3
      <4>3. attempts' + epoch' = attempts + epoch + 1 /\ 1 \in 0 .. 1
        BY <1>h, <4>1, <4>2
      <4>4. "call" \in Ahead
        BY <1>f
      <4> QED BY <1>b, <1>c2, <2>1, <3>3, <4>2, <4>3, <4>4, CountKept
    <3>6. Types'
      <4>1. leg' \in Legs /\ plan' \in Seq(Ops) /\ plan' # <<>> /\ result' = ""
        BY <3>0, <3>1 DEF Legs
      <4> QED BY <1>b, <1>e, <1>m, <2>1, <3>3, <3>4, <4>1 DEF Types
    <3>7. PayloadsReady'
      BY <1>e, <1>h, <1>m DEF PayloadsReady, FileReady
    <3> QED BY <2>1, <3>1, <3>2, <3>3, <3>4, <3>5, <3>6, <3>7 DEF IInv
  <2> QED BY <2>3, <2>4
\* How a call ends.
<1>n. ASSUME Called(p)
      PROVE  /\ payload' \in Payloads /\ first' \in Payloads
             /\ FileReady(payload'.file) /\ FileReady(first'.file)
  <2>1. p \in Payloads /\ FileReady(p.file)
    BY <1>k
  <2>2. payload' \in {p, first} /\ first' \in {p, first}
    BY <1>n DEF Called, Kept
  <2> QED BY <1>h, <2>1, <2>2
<1>o. ASSUME NEW reason, NEW name \in {"switch", "captcha"}, SwitchFor(reason, name) PROVE GoesOn /\ ~Reads
  <2>1. \/ /\ Later(who', who) /\ who'.named > who.named /\ who'.token = who'.named
           /\ leg' = name /\ epoch' = epoch + 1 /\ plan' = SwitchPlan(req) /\ result' = ""
        \/ /\ Later(who', who) /\ leg' = leg /\ epoch' = epoch /\ plan' = <<>> /\ result' = "failed"
    BY <1>b, <1>f, <1>g, <1>o, SwitchForFacts
  <2>2. epoch + 1 # epoch
    BY <1>h
  <2> QED BY <2>1, <2>2 DEF GoesOn, Ends, StartsAnew, Reads
<1>q. ASSUME Fail, UNCHANGED <<who, leg, epoch>> PROVE GoesOn /\ ~Reads
  <2>1. Later(who', who)
    BY <1>g, <1>q
  <2> QED BY <1>q, <2>1 DEF GoesOn, Ends, Reads, Fail
<1>r. ASSUME UNCHANGED <<who, leg, epoch, result>>, plan' \in {<<"read">>, <<"collect">>} PROVE GoesOn
  <2>1. Later(who', who) /\ result' = ""
    BY <1>f, <1>g, <1>r
  <2> QED BY <1>r, <2>1 DEF GoesOn, Reads
\* The call is not made.
<1>1. CASE Fail /\ UNCHANGED <<posted, who, leg, epoch, limited, cont>>
  <2>1. /\ UNCHANGED <<req, leg, epoch, attempts, sent, payload, first, muted, seen, session, file, chain>>
        /\ plan' = <<>> /\ result' = "failed" /\ Later(who', who)
    BY <1>1, <1>e, <1>g DEF posted, Fail
  <2>2. loop' \in LoopStates /\ loop'.tries < MaxAttempts /\ upload' \in LoopStates /\ upload'.tries < MaxAttempts
    BY <1>e, <1>g
  <2> QED BY <1>a, <1>f, <2>1, <2>2, QuietEnd
\* It is answered with another status.
<1>2. ASSUME NEW status \in {"limited", "captcha", "error"},
             sent' = Append(sent, Message(p, "committed")), Called(p), AfterStatus(status),
             UNCHANGED <<muted, cont>>
      PROVE  IInv'
  <2>1. GoesOn
    <3>1. CASE plan' = <<"collect">> /\ UNCHANGED <<who, leg, epoch, limited, result>>
      BY <1>r, <3>1
    <3>2. CASE SwitchFor("limited", "captcha")
      BY <1>o, <3>2
    <3>3. CASE Fail /\ UNCHANGED <<who, leg, epoch, limited, answer>>
      BY <1>q, <3>3
    <3> QED BY <1>2, <3>1, <3>2, <3>3 DEF AfterStatus
  <2> QED BY <1>m, <1>n, <1>2, <2>1
\* The account is muted.
<1>3. ASSUME who.token # 0, muted' = muted \cup {who.token}, AfterMute,
             sent' = Append(sent, Message(p, "unknown")), UNCHANGED <<payload, first, answer, cont>>
      PROVE  IInv'
  <2>1. GoesOn /\ ~Reads
    <3>1. CASE SwitchFor("muted", "switch")
      BY <1>o, <3>1
    <3>2. CASE Fail /\ UNCHANGED <<who, leg, epoch, limited>>
      BY <1>q, <3>2
    <3> QED BY <1>3, <3>1, <3>2 DEF AfterMute
  <2>2. /\ payload' \in Payloads /\ first' \in Payloads
        /\ FileReady(payload'.file) /\ FileReady(first'.file)
    BY <1>3, <1>h
  <2> QED BY <1>m, <1>3, <2>1, <2>2
\* It is answered.
<1>4. ASSUME NEW op \in {"read", "collect"}, sent' = Append(sent, Message(p, "committed")), Called(p),
             plan' = <<op>>, UNCHANGED <<who, leg, epoch, limited, result, muted>>
      PROVE  IInv'
  <2>1. GoesOn
    BY <1>r, <1>4
  <2> QED BY <1>m, <1>n, <1>4, <2>1
<1>5. CASE \E status \in {"limited", "captcha", "error"} :
             /\ sent' = Append(sent, Message(p, "committed")) /\ Called(p)
             /\ AfterStatus(status) /\ UNCHANGED <<muted, cont>>
  BY <1>2, <1>5
<1>6. CASE \E body \in Answers200 :
             /\ who.token # 0
             /\ IF DetectMuted(body)
                THEN /\ muted' = muted \cup {who.token} /\ AfterMute
                     /\ sent' = Append(sent, Message(p, "unknown"))
                     /\ UNCHANGED <<payload, first, answer, cont>>
                ELSE /\ sent' = Append(sent, Message(p, "committed")) /\ Called(p)
                     /\ answer' = (IF body = "sse" THEN "stream" ELSE "nothing")
                     /\ cont' = NoCont /\ plan' = <<IF body = "sse" THEN "read" ELSE "collect">>
                     /\ UNCHANGED <<who, leg, epoch, limited, result, muted>>
  BY <1>3, <1>4, <1>6
<1> QED BY <1>a, <1>1, <1>5, <1>6 DEF CallCompletion, p

LEMMA ReadStep == IInv /\ ReadBody => IInv'
<1>a. SUFFICES ASSUME IInv, ReadBody PROVE IInv'
  OBVIOUS
<1>b. Types
  BY <1>a DEF IInv
<1>c. Accounts /\ Tries /\ PayloadsReady /\ Made /\ OnPlan
  BY <1>a DEF IInv
<1>c2. Messaging /\ CallsCounted /\ MutedBehind
  BY <1>a DEF IInv
<1>d. result = "" /\ Head(plan) = "read" /\ plan # <<>>
  BY <1>a, <1>b, DoingFacts DEF ReadBody
<1>e. /\ UNCHANGED <<req, leg, epoch, loop, upload, session, file, chain, sent, attempts, payload, first, muted>>
      /\ who' = who /\ result' = "" /\ plan' \in {plan, <<"collect">>} /\ seen' \in {seen, Len(sent)}
  <2>1. UNCHANGED <<req, leg, epoch, loop, upload, session, file, chain, sent, attempts, payload, first, muted, who, result>>
    BY <1>a DEF ReadBody, loops, made, posted, tries
  <2>2. plan' \in {plan, <<"collect">>} /\ seen' \in {seen, Len(sent)}
    BY <1>a DEF ReadBody, CallContinue, EndAnswer
  <2> QED BY <1>d, <2>1, <2>2
<1>f. Reading
  <2>1. ~Reading => Head(plan) \notin {"read", "collect"}
    BY <1>b, <1>c, <1>d, Order DEF InOrder
  <2> QED BY <1>d, <2>1
<1>g. plan' \in {<<"read">>, <<"collect">>}
  BY <1>e, <1>f DEF Reading
<1>1. /\ OnPlan' /\ plan' \in Seq(Ops) /\ plan' # <<>> /\ Head(plan') # "wait"
      /\ Head(plan') # "upload" /\ Ahead' \subseteq {"read", "collect"}
  BY <1>g, ReadsOn
<1>h. Ahead \subseteq {"read", "collect"}
  <2>1. Range(<<"read">>) = {"read"} /\ Range(<<"collect">>) = {"collect"}
    BY DEF Range
  <2> QED BY <1>f, <2>1 DEF Reading, Ahead
<1>2. Types'
  <2>1. sent \in Seq(Messages)
    BY <1>b DEF Types
  <2>2. Len(sent) \in Nat
    BY <2>1
  <2>3. plan' \in Seq(Ops) /\ plan' # <<>> /\ seen' \in Nat
    <3>1. seen \in Nat
      BY <1>b DEF Types
    <3> QED BY <1>1, <1>e, <2>2, <3>1
  <2> QED BY <1>b, <1>e, <2>3 DEF Types
<1>3. Accounts'
  BY <1>c, <1>e DEF Accounts, WhoTypes
<1>4. Tries'
  BY <1>c, <1>d, <1>e, <1>1 DEF Tries
<1>5. Made'
  <2>1. Linked' = Linked
    BY <1>e DEF Linked
  <2>2. leg # "retry" => session.epoch = epoch /\ Linked
    BY <1>c, <1>d, <1>h DEF Made
  <2>3. leg # "retry" /\ req.file => file.epoch = epoch /\ IsReady(file.status)
    BY <1>c, <1>d, <1>h DEF Made
  <2> QED BY <1>1, <1>e, <2>1, <2>2, <2>3 DEF Made
<1>6. PayloadsReady'
  BY <1>c, <1>e DEF PayloadsReady, FileReady
<1>7. Messaging'
  BY <1>c2, <1>e DEF Messaging, ChainWhole, ParentsBefore, SwitchedFresh, FilesReady
<1>8. CallsCounted'
  <2>1. Calls' = Calls
    BY <1>e DEF Calls
  <2>2. "call" \notin Ahead /\ "call" \notin Ahead'
    BY <1>1, <1>h
  <2> QED BY <1>c2, <1>e, <2>1, <2>2 DEF CallsCounted
<1>9. MutedBehind'
  BY <1>c2, <1>d, <1>e DEF MutedBehind
<1> QED BY <1>1, <1>2, <1>3, <1>4, <1>5, <1>6, <1>7, <1>8, <1>9 DEF IInv

\* The parent of a retry's message.
LEMMA ParentType == Types => Parent \in Nat
<1>a. SUFFICES ASSUME Types PROVE Parent \in Nat
  OBVIOUS
<1>1. seen \in Nat /\ payload \in Payloads /\ sent \in Seq(Messages)
  BY <1>a DEF Types
<1>2. Len(sent) \in Nat /\ payload.parent \in Nat
  BY <1>1 DEF Payloads
<1>3. Parent \in {seen, Len(sent), 0, payload.parent}
  BY DEF Parent
<1> QED BY <1>1, <1>2, <1>3

LEMMA CollectStep == IInv /\ Collect => IInv'
<1>a. SUFFICES ASSUME IInv, Collect PROVE IInv'
  OBVIOUS
<1>b. Types
  BY <1>a DEF IInv
<1>c. Accounts /\ Tries /\ PayloadsReady /\ Made /\ OnPlan
  BY <1>a DEF IInv
<1>c2. Messaging /\ CallsCounted /\ MutedBehind
  BY <1>a DEF IInv
<1>d. result = "" /\ Head(plan) = "collect" /\ plan # <<>>
  BY <1>a, <1>b, DoingFacts DEF Collect
<1>e. UNCHANGED <<req, loop, upload, session, file, chain, sent, first, muted, seen>>
  BY <1>a DEF Collect, loops, made, reading
<1>f. Ahead \subseteq {"read", "collect"}
  <2>1. ~Reading => Head(plan) \notin {"read", "collect"}
    BY <1>b, <1>c, <1>d, Order DEF InOrder
  <2>2. Reading
    BY <1>d, <2>1
  <2>3. Range(<<"read">>) = {"read"} /\ Range(<<"collect">>) = {"collect"}
    BY DEF Range
  <2> QED BY <2>2, <2>3 DEF Reading, Ahead
<1>g. /\ WhoTypes(who) /\ Later(who, who) /\ upload.tries < MaxAttempts /\ loop.tries < MaxAttempts
  <2>1. WhoTypes(who)
    BY <1>c DEF Accounts
  <2>2. upload.tries < MaxAttempts /\ loop.tries < MaxAttempts
    BY <1>c, <1>d DEF Tries
  <2> QED BY <1>b, <2>1, <2>2, Whos
<1>h. Messaging'
  BY <1>c2, <1>e DEF Messaging, ChainWhole, ParentsBefore, SwitchedFresh, FilesReady
<1>i. Calls' = Calls /\ Cardinality(Calls) \in Nat
  <2>1. Calls' = Calls
    BY <1>e DEF Calls
  <2> QED BY <1>b, <2>1, CallsFinite
<1>i2. Cardinality(Calls') \in Nat /\ Cardinality(Calls') <= Cardinality(Calls) + 0
  <2>1. PICK x \in Nat : x = Cardinality(Calls)
    BY <1>i
  <2>2. x <= x + 0
    BY <2>1
  <2> QED BY <1>i, <2>1, <2>2
<1>j. /\ attempts \in Nat /\ attempts <= RetryMax /\ epoch \in Nat
  <2>1. attempts \in 0 .. RetryMax /\ epoch \in Nat
    BY <1>b DEF Types
  <2> QED BY <2>1, CompletionAssumption
<1>k. 0 \in 0 .. 1 /\ 1 \in 0 .. 1
  OBVIOUS
\* Another account, or the end.
<1>1. ASSUME GoesOn, UNCHANGED <<attempts, payload>> PROVE IInv'
  <2>1. /\ leg # "retry" => session.epoch = epoch /\ Linked
        /\ leg # "retry" /\ req.file => file.epoch = epoch /\ IsReady(file.status)
    BY <1>c, <1>d, <1>f DEF Made
  <2>2. Later(who', who) /\ (Ends \/ StartsAnew \/ Reads)
    BY <1>1 DEF GoesOn
  <2>3. MutedBehind'
    BY <1>b, <1>c, <1>c2, <1>d, <1>e, <2>2, MutedKept
  <2>4. PayloadsReady'
    BY <1>1, <1>c, <1>e DEF PayloadsReady, FileReady
  <2>5. CASE StartsAnew
    <3>0. /\ leg' \in {"switch", "captcha"} /\ plan' = SwitchPlan(req) /\ result' = ""
          /\ epoch' = epoch + 1 /\ who'.named > who.named /\ who'.token = who'.named
      BY <2>5 DEF StartsAnew
    <3>1. /\ OnPlan' /\ plan' \in Seq(Ops) /\ plan' # <<>> /\ Head(plan') \in {"create", "pow"} /\ Made'
      BY <1>b, <1>e, <3>0, Anews
    <3>2. Tries'
      BY <1>e, <1>g, <3>1 DEF Tries
    <3>3. Accounts' /\ epoch' \in Nat
      BY <1>b, <1>c, <1>e, <2>2, <3>0, AccountsKept
    <3>4. CallsCounted'
      <4>1. epoch' = epoch + 1
        BY <3>0
      <4>2. attempts' = attempts
        BY <1>1
      <4>3. attempts' \in Nat /\ attempts' + epoch' = attempts + epoch + 1
        BY <1>j, <4>1, <4>2
      <4> QED BY <1>b, <1>c2, <1>i2, <1>k, <3>3, <4>3, CountKept
    <3>5. Types'
      <4>1. leg' \in Legs /\ plan' \in Seq(Ops) /\ plan' # <<>> /\ result' = ""
        BY <3>0, <3>1 DEF Legs
      <4> QED BY <1>1, <1>b, <1>e, <3>3, <4>1 DEF Types
    <3> QED BY <1>h, <2>3, <2>4, <3>1, <3>2, <3>3, <3>4, <3>5 DEF IInv
  <2>6. CASE ~StartsAnew
    <3>1. epoch' = epoch
      BY <2>2, <2>6 DEF Ends, Reads
    <3>2. leg # "retry" => session.epoch = epoch /\ Linked'
      BY <1>e, <2>1, <3>1 DEF Linked
    <3>3. Head(plan) \notin {"wait"}
      BY <1>d
    <3>6. 0 \in 0 .. 1 /\ (0 = 1 => "call" \in Ahead)
      OBVIOUS
    <3>7. UNCHANGED <<req, loop, upload, session, file, chain, attempts>>
      BY <1>1, <1>e
    <3>4. /\ OnPlan' /\ plan' \in Seq(Ops) /\ (plan' = <<>> <=> result' # "") /\ leg' \in Legs
          /\ result' \in {"", "answered", "failed"}
          /\ epoch' \in Nat /\ Accounts' /\ Tries' /\ Made' /\ CallsCounted'
      BY <1>1, <1>b, <1>c, <1>c2, <1>d, <1>i2, <2>1, <3>2, <3>3, <3>6, <3>7, Onward
    <3>5. Types'
      BY <1>1, <1>b, <1>e, <3>4 DEF Types
    <3> QED BY <1>h, <2>3, <2>4, <3>4, <3>5 DEF IInv
  <2> QED BY <2>5, <2>6
<1>2. ASSUME NEW reason, SwitchFor(reason, "switch"), UNCHANGED <<attempts, payload>> PROVE IInv'
  <2>1. \/ /\ Later(who', who) /\ who'.named > who.named /\ who'.token = who'.named
           /\ leg' = "switch" /\ epoch' = epoch + 1 /\ plan' = SwitchPlan(req) /\ result' = ""
        \/ /\ Later(who', who) /\ leg' = leg /\ epoch' = epoch /\ plan' = <<>> /\ result' = "failed"
    BY <1>b, <1>d, <1>g, <1>2, SwitchForFacts
  <2>2. GoesOn
    BY <2>1 DEF GoesOn, Ends, StartsAnew
  <2> QED BY <1>1, <1>2, <2>2
<1>3. ASSUME Fail, UNCHANGED <<who, leg, epoch, limited, attempts, payload>> PROVE IInv'
  <2>1. Later(who', who)
    BY <1>3, <1>g
  <2>2. GoesOn
    BY <1>3, <2>1 DEF GoesOn, Ends, Fail
  <2> QED BY <1>1, <1>3, <2>2
\* The same account is asked again.
<1>4. ASSUME attempts' = attempts + 1, attempts < RetryMax, leg' = "retry", plan' = RetryPlan,
             payload' = [payload EXCEPT !.parent = Parent], UNCHANGED <<who, epoch, limited, result>>
      PROVE  IInv'
  <2>1. /\ OnPlan' /\ plan' \in Seq(Ops) /\ plan' # <<>> /\ Head(plan') = "pow" /\ Made'
    BY <1>4, Retries
  <2>2. payload' \in Payloads /\ payload'.file = payload.file
    <3>1. Parent \in Nat /\ payload \in Payloads
      BY <1>b, ParentType DEF Types
    <3> HIDE DEF Parent
    <3> QED BY <1>4, <3>1 DEF Payloads
  <2>3. attempts' \in 0 .. RetryMax /\ attempts' \in Nat /\ attempts' + epoch' = attempts + epoch + 1
        /\ epoch' \in Nat
    <3>1. attempts' = attempts + 1 /\ attempts < RetryMax /\ epoch' = epoch
      BY <1>4
    <3> QED BY <1>j, <3>1, CompletionAssumption
  <2>4. Types'
    <3>1. leg' \in Legs /\ plan' \in Seq(Ops) /\ plan' # <<>> /\ result' = ""
      BY <1>4, <1>d, <2>1 DEF Legs
    <3> QED BY <1>4, <1>b, <1>e, <2>2, <2>3, <3>1 DEF Types
  <2>5. Accounts'
    BY <1>4, <1>c, <1>e DEF Accounts, WhoTypes
  <2>6. Tries'
    BY <1>e, <1>g, <2>1 DEF Tries
  <2>7. PayloadsReady'
    BY <1>c, <1>e, <2>2 DEF PayloadsReady, FileReady
  <2>8. CallsCounted'
    BY <1>b, <1>c2, <1>i2, <1>k, <2>3, CountKept
  <2>9. MutedBehind'
    BY <1>4, <1>c2, <1>d, <1>e DEF MutedBehind
  <2> QED BY <1>h, <2>1, <2>4, <2>5, <2>6, <2>7, <2>8, <2>9 DEF IInv
<1>5. ASSUME NEW reason, Empty(reason) PROVE IInv'
  BY <1>2, <1>4, <1>5 DEF Empty, RetryLeft
\* It is answered.
<1>6. ASSUME result' = "answered", plan' = <<>>, UNCHANGED <<who, leg, epoch, limited, attempts, payload>>
      PROVE  IInv'
  <2>1. OnPlan' /\ plan' \in Seq(Ops) /\ Ahead' = {}
    BY <1>6, <1>b, <1>e, EndsHere
  <2>2. Types'
    <3>1. plan' \in Seq(Ops)
      BY <2>1
    <3> QED BY <1>6, <1>b, <1>e, <3>1 DEF Types
  <2>3. Accounts'
    BY <1>6, <1>c, <1>e DEF Accounts, WhoTypes
  <2>4. Tries' /\ Made'
    BY <1>6, <1>e, <1>g DEF Tries, Made
  <2>5. PayloadsReady'
    BY <1>6, <1>c, <1>e DEF PayloadsReady, FileReady
  <2>6. CallsCounted'
    <3>1. "call" \notin Ahead /\ "call" \notin Ahead'
      BY <1>f, <2>1
    <3> QED BY <1>6, <1>c2, <1>e, <1>i, <3>1 DEF CallsCounted
  <2>7. MutedBehind'
    BY <1>6, <1>c2, <1>e DEF MutedBehind
  <2> QED BY <1>h, <2>1, <2>2, <2>3, <2>4, <2>5, <2>6, <2>7 DEF IInv
<1> QED BY <1>a, <1>2, <1>3, <1>5, <1>6 DEF Collect

LEMMA RestStep ==
    IInv /\ UNCHANGED <<req, who, plan, leg, epoch, loop, upload, session, file, chain, sent, payload, first,
                        seen, attempts, muted, result>> => IInv'
<1>a. SUFFICES ASSUME IInv, UNCHANGED <<req, who, plan, leg, epoch, loop, upload, session, file, chain, sent,
                                        payload, first, seen, attempts, muted, result>>
               PROVE  IInv'
  OBVIOUS
<1>1. Types' /\ Accounts' /\ Tries' /\ PayloadsReady'
  BY <1>a DEF IInv, Types, Accounts, WhoTypes, Tries, PayloadsReady, FileReady
<1>2. OnPlan'
  BY <1>a DEF IInv, OnPlan, Reading, Rest, Whole
<1>3. Made'
  BY <1>a DEF IInv, Made, Linked, Ahead
<1>4. Messaging'
  BY <1>a DEF IInv, Messaging, ChainWhole, ParentsBefore, SwitchedFresh, FilesReady
<1>5. CallsCounted' /\ MutedBehind'
  BY <1>a DEF IInv, CallsCounted, Calls, Ahead, MutedBehind
<1> QED BY <1>1, <1>2, <1>3, <1>4, <1>5 DEF IInv

-----------------------------------------------------------------------------
(* The theorems.                                                           *)

LEMMA Starts == Init => IInv
<1>a. SUFFICES ASSUME Init PROVE IInv
  OBVIOUS
<1>b. /\ req \in Requests /\ who = [named |-> 1, token |-> 1, left |-> req.others]
      /\ plan = StartPlan(req) /\ leg = "start" /\ epoch = 0
      /\ loop = NoLoop /\ upload = NoLoop /\ session = NoSession /\ file = NoFile /\ chain = NoChain
      /\ sent = <<>> /\ payload = NoPayload /\ first = NoPayload /\ muted = {}
      /\ seen = 0 /\ attempts = 0 /\ result = ""
  BY <1>a DEF Init
<1>c. /\ req.segs \in Nat \ {0} /\ req.others \in Nat /\ req.file \in BOOLEAN
  <2>1. req \in Requests
    BY <1>b
  <2> QED BY <2>1, CompletionAssumption DEF Requests
<1>b2. sent = <<>> /\ Len(sent) = 0 /\ epoch = 0 /\ attempts = 0 /\ seen = 0 /\ muted = {}
  BY <1>b, NoSteps
\* The plan of the start creates a session, after it uploads the file if there is one.
<1>d. /\ plan \in Seq(Ops) /\ plan # <<>> /\ Head(plan) \in {"create", "pow"}
      /\ "create" \in Range(plan) /\ (req.file => {"upload", "wait"} \subseteq Range(plan))
  <2>1. CASE req.file
    <3> DEFINE w == <<"pow", "upload", "wait", "create", "pow", "call">>
    <3>1. plan = w
      BY <1>b, <2>1, Plans
    <3>2. w \in Seq(Ops) /\ Len(w) = 6 /\ w[1] = "pow" /\ w[2] = "upload" /\ w[3] = "wait" /\ w[4] = "create"
      BY DEF Ops
    <3> HIDE DEF w
    <3>3. Head(w) = "pow" /\ w # <<>> /\ DOMAIN w = 1 .. 6
      BY <3>2
    <3>4. {"create", "upload", "wait"} \subseteq Range(w)
      <4>1. 2 \in DOMAIN w /\ 3 \in DOMAIN w /\ 4 \in DOMAIN w
        BY <3>3
      <4> QED BY <3>2, <4>1 DEF Range
    <3> QED BY <3>1, <3>2, <3>3, <3>4
  <2>2. CASE ~req.file
    <3> DEFINE w == StartPlan(req)
    <3>1. w \in Seq(Ops) /\ Len(w) = 2 * req.segs + 1 /\ w[1] = "create"
      BY <1>b, <2>2, SegmentPlan
    <3>2. plan = w
      BY <1>b
    <3> HIDE DEF w
    <3>3. Len(w) \in Nat \ {0}
      BY <1>c, <3>1
    <3>4. w # <<>> /\ Head(w) = "create" /\ 1 \in DOMAIN w
      BY <3>1, <3>3
    <3>5. "create" \in Range(w)
      BY <3>1, <3>4 DEF Range
    <3> QED BY <2>2, <3>1, <3>2, <3>4, <3>5
  <2> QED BY <2>1, <2>2
<1>1. Types
  <2>1. session \in Sessions /\ file \in Files
    BY <1>b DEF NoSession, NoFile, Sessions, Files, Statuses
  <2>2. payload \in Payloads /\ first \in Payloads
    BY <1>b, <2>1 DEF NoPayload, Payloads
  <2>3. chain \in [parent : Nat, from : 1 .. req.segs]
    <3>1. chain = [parent |-> 0, from |-> 1]
      BY <1>b DEF NoChain
    <3> QED BY <1>c, <3>1
  <2>4. attempts \in 0 .. RetryMax /\ seen \in Nat /\ epoch \in Nat
    BY <1>b2, CompletionAssumption
  <2>5. plan \in Seq(Ops) /\ plan # <<>> /\ result = ""
    BY <1>b, <1>d
  <2>6. sent \in Seq(Messages) /\ muted \subseteq Nat
    BY <1>b2
  <2>7. req \in Requests /\ leg \in Legs /\ loop \in LoopStates /\ upload \in LoopStates
    BY <1>b, LoopFacts DEF Legs
  <2> QED BY <2>1, <2>2, <2>3, <2>4, <2>5, <2>6, <2>7 DEF Types
<1>2. Accounts
  <2>1. who = [named |-> 1, token |-> 1, left |-> req.others]
    BY <1>b
  <2> QED BY <1>b2, <1>c, <2>1 DEF Accounts, WhoTypes
<1>3. Tries
  BY <1>b, <1>d, LoopFacts DEF Tries
<1>4. OnPlan
  <2>0. Whole = plan
    BY <1>b DEF Whole
  <2>1. Whole = plan /\ Len(plan) \in Nat
    BY <1>d, <2>0
  <2>2. \A j \in 1 .. Len(plan) : Len(plan) - Len(plan) + j = j
    BY <2>1
  <2> QED BY <2>1, <2>2 DEF OnPlan, Rest
<1>5. Made
  BY <1>d DEF Made, Ahead
<1>6. PayloadsReady
  BY <1>b DEF PayloadsReady, FileReady, NoPayload
<1>7. Messaging
  <2>1. 1 .. Len(sent) = {}
    BY <1>b2
  <2> QED BY <2>1 DEF Messaging, ChainWhole, ParentsBefore, SwitchedFresh, FilesReady
<1>8. CallsCounted
  <2>1. Calls = {}
    <3>1. 1 .. Len(sent) = {}
      BY <1>b2
    <3> QED BY <3>1 DEF Calls
  <2>2. Cardinality(Calls) = 0
    BY <2>1, FS_EmptySet
  <2>3. attempts = 0 /\ epoch = 0
    BY <1>b
  <2> QED BY <2>2, <2>3 DEF CallsCounted
<1>9. MutedBehind
  BY <1>b DEF MutedBehind
<1> QED BY <1>1, <1>2, <1>3, <1>4, <1>5, <1>6, <1>7, <1>8, <1>9 DEF IInv

LEMMA Steps == IInv /\ [Next]_vars => IInv'
<1>a. SUFFICES ASSUME IInv, [Next]_vars PROVE IInv'
  OBVIOUS
<1>1. CASE AutoDelete
  <2>1. UNCHANGED <<req, who, plan, leg, epoch, loop, upload, session, file, chain, sent, payload, first,
                    seen, attempts, muted, result>>
    BY <1>1 DEF AutoDelete, loops, made, posted, tries
  <2> QED BY <1>a, <2>1, RestStep
<1>2. CASE UNCHANGED vars
  <2>1. UNCHANGED <<req, who, plan, leg, epoch, loop, upload, session, file, chain, sent, payload, first,
                    seen, attempts, muted, result>>
    BY <1>2 DEF vars
  <2> QED BY <1>a, <2>1, RestStep
<1> QED
  BY <1>a, <1>1, <1>2, CreateStep, PowStep, UploadStep, WaitStep, FireStep, CallStep, ReadStep,
     CollectStep DEF Next

LEMMA Invariance == Spec => []IInv
<1>1. Init => IInv
  BY Starts
<1>2. IInv /\ [Next]_vars => IInv'
  BY Steps
<1> QED BY <1>1, <1>2, PTL DEF Spec

LEMMA Bounded == IInv => InBounds
<1>a. SUFFICES ASSUME IInv PROVE InBounds
  OBVIOUS
<1>b. Types /\ Accounts /\ Tries /\ CallsCounted
  BY <1>a DEF IInv
<1>1. /\ req \in Requests /\ req.others \in 0 .. Others /\ (~req.managed => req.others = 0)
      /\ req.segs \in Nat /\ req.managed \in BOOLEAN
  <2>1. req \in Requests
    BY <1>b DEF Types
  <2> QED BY <2>1, CompletionAssumption DEF Requests
<1>2. /\ who.named \in Nat /\ who.token \in Nat /\ who.left \in Nat /\ who.named > 0
      /\ who.named + who.left = 1 + req.others /\ who.token <= who.named /\ epoch < who.named
  BY <1>b DEF Accounts, WhoTypes
<1>3. epoch \in Nat /\ attempts \in 0 .. RetryMax /\ chain \in [parent : Nat, from : 1 .. req.segs]
  BY <1>b DEF Types
<1>4. /\ who.named \in Owners /\ who.token \in Owners \cup {0} /\ who.left + who.named <= Others + 1
      /\ who.named > 1 => req.managed
  <2>1. who.left + who.named <= Others + 1 /\ who.named \in 1 .. (Others + 1)
    BY <1>1, <1>2, CompletionAssumption
  <2>2. who.token = 0 \/ who.token \in 1 .. (Others + 1)
    BY <1>1, <1>2, CompletionAssumption
  <2>3. who.named > 1 => req.managed
    BY <1>1, <1>2
  <2> QED BY <2>1, <2>2, <2>3 DEF Owners
<1>5. epoch \in 0 .. Others /\ attempts \in Nat /\ chain.from \in 1 .. req.segs
  BY <1>1, <1>2, <1>3, CompletionAssumption
<1>6. /\ Range(plan) \subseteq {"upload", "wait", "create", "pow", "fire", "call", "read", "collect"}
      /\ (plan = <<>>) = (result # "")
  <2>1. plan \in Seq(Ops) /\ (plan = <<>> <=> result # "")
    BY <1>b DEF Types
  <2>2. (plan = <<>>) = (result # "")
    BY <2>1
  <2>3. Range(plan) \subseteq Ops
    <3>1. \A q \in Seq(Ops) : \A i \in DOMAIN q : q[i] \in Ops
      OBVIOUS
    <3>2. plan \in Seq(Ops)
      BY <2>1
    <3> QED BY <3>1, <3>2 DEF Range
  <2> QED BY <2>2, <2>3 DEF Ops
<1>7. /\ loop.tries \in 0..((IF plan # <<>> /\ Head(plan) = "wait" THEN MaxPolls ELSE MaxAttempts) - 1)
      /\ upload.tries \in 0..(MaxAttempts - 1)
  <2>1. loop \in LoopStates /\ upload \in LoopStates /\ (plan = <<>> <=> result # "")
    BY <1>b DEF Types
  <2>2. loop.tries \in Nat /\ upload.tries \in Nat
    BY <2>1 DEF LoopStates
  <2>3. upload.tries < MaxAttempts
        /\ loop.tries < IF result = "" /\ Head(plan) = "wait" THEN MaxPolls ELSE MaxAttempts
    BY <1>b DEF Tries
  <2>4. CASE plan # <<>> /\ Head(plan) = "wait"
    <3>1. loop.tries < MaxPolls
      BY <2>1, <2>3, <2>4
    <3>3. upload.tries < MaxAttempts
      BY <2>3
    <3>2. loop.tries \in 0 .. (MaxPolls - 1) /\ upload.tries \in 0..(MaxAttempts - 1)
      BY <2>2, <3>1, <3>3, CompletionAssumption
    <3> QED BY <2>4, <3>2
  <2>5. CASE ~(plan # <<>> /\ Head(plan) = "wait")
    <3>1. loop.tries < MaxAttempts /\ upload.tries < MaxAttempts
      BY <2>1, <2>3, <2>5
    <3>2. loop.tries \in 0 .. (MaxAttempts - 1) /\ upload.tries \in 0..(MaxAttempts - 1)
      BY <2>2, <3>1, CompletionAssumption
    <3> QED BY <2>5, <3>2
  <2> QED BY <2>4, <2>5
<1>8. CompletionTypeOK
  BY <1>1, <1>4, <1>5, <1>6, <1>7 DEF CompletionTypeOK
<1>9. CallsBounded
  <2>1. Cardinality(Calls) \in Nat
    BY <1>b, CallsFinite
  <2>2. Cardinality(Calls) + (IF "call" \in Ahead THEN 1 ELSE 0) <= 1 + attempts + epoch
    BY <1>b DEF CallsCounted
  <2>3. Cardinality(Calls) <= 1 + attempts + epoch
    <3>1. PICK x \in Nat, b \in 0 .. 1, a \in Nat, e \in Nat :
            /\ x = Cardinality(Calls) /\ b = (IF "call" \in Ahead THEN 1 ELSE 0) /\ a = attempts /\ e = epoch
      BY <1>3, <1>5, <2>1
    <3>2. x + b <= 1 + a + e
      BY <2>2, <3>1
    <3>3. x <= 1 + a + e
      BY <3>2
    <3> QED BY <3>1, <3>3
  <2>4. PICK x \in Nat, a \in Nat, e \in Nat : x = Cardinality(Calls) /\ a = attempts /\ e = epoch
    BY <1>3, <1>5, <2>1
  <2>5. x <= 1 + a + e /\ a <= RetryMax /\ e <= Others
    BY <1>3, <1>5, <2>3, <2>4, CompletionAssumption
  <2>6. x <= 1 + RetryMax + Others
    BY <2>5, CompletionAssumption
  <2> QED BY <2>4, <2>6 DEF CallsBounded, Calls
<1> QED BY <1>8, <1>9 DEF InBounds

\* However the calls of a request fail, the tries, polls, retries, segments and accounts stay
\* within their bounds, and it asks for an answer at most once, once more for each retry and
\* once more for each other account (completionruntime, client_auth.go, client_completion.go).
THEOREM CompletionIsBounded == Spec => []InBounds
<1>1. IInv => InBounds
  BY Bounded
<1> QED BY <1>1, Invariance, PTL

\* What a message refers to is whole and made for it: the parents of the messages that put the
\* prompt add up to it, each known to be committed (or its stream broke), the session and the file
\* are of the beginning that posts it, and a file, of a retry's message too, was processed.  Whose
\* account it is all of is the theorem OwnersPost.
THEOREM MessagesAreWhole == Spec => []MessagesWhole
<1>1. IInv => MessagesWhole
  BY DEF IInv, Messaging, MessagesWhole
<1> QED BY <1>1, Invariance, PTL

\* An account that was found muted is given no further message of the request.
THEOREM MutedAccountsRest == Spec => MutedRests
<1>1. IInv /\ [Next]_vars => [Len(sent') > Len(sent) => Last(sent').token \notin muted]_vars
  <2>a. SUFFICES ASSUME IInv, Next PROVE Len(sent') > Len(sent) => Last(sent').token \notin muted
    OBVIOUS
  <2>b. Types /\ MutedBehind
    BY <2>a DEF IInv
  <2>1. Len(sent) \in Nat /\ sent \in Seq(Messages)
    <3>1. sent \in Seq(Messages)
      BY <2>b DEF Types
    <3> QED BY <3>1
  <2>2. CASE sent' = sent
    BY <2>1, <2>2
  <2>3. ASSUME NEW p, NEW settled, sent' = Append(sent, Message(p, settled)), result = ""
        PROVE  Last(sent').token \notin muted
    <3>0. \A t \in muted : t < who.named /\ (who.token = 0 \/ t < who.token)
      BY <2>3, <2>b DEF MutedBehind
    <3>1. who.token \notin muted
      <4>1. 0 \notin muted /\ muted \subseteq Nat
        BY <2>b DEF MutedBehind, Types
      <4>2. ASSUME who.token \in muted PROVE FALSE
        <5>1. who.token \in Nat /\ who.token # 0 /\ who.token < who.token
          BY <3>0, <4>1, <4>2
        <5> QED BY <5>1
      <4> QED BY <4>2
    <3>2. Last(sent') = Message(p, settled)
      <4> DEFINE m == Message(p, settled)
      <4>1. Len(Append(sent, m)) = Len(sent) + 1 /\ Append(sent, m)[Len(sent) + 1] = m
        BY <2>1
      <4> QED BY <2>3, <4>1 DEF Last
    <3>3. Message(p, settled).token = who.token
      BY DEF Message
    <3> QED BY <3>1, <3>2, <3>3
  <2>4. CASE FireSegment
    <3>1. result = ""
      BY <2>4 DEF FireSegment, Doing
    <3> QED BY <2>2, <2>3, <2>4, <3>1 DEF FireSegment
  <2>5. CASE CallCompletion
    <3>1. result = ""
      BY <2>5 DEF CallCompletion, Doing
    <3> QED BY <2>2, <2>3, <2>5, <3>1 DEF CallCompletion, posted
  <2>6. CASE ~FireSegment /\ ~CallCompletion
    <3>1. sent' = sent
      BY <2>a, <2>6 DEF Next, CreateSession, GetPow, UploadFile, WaitForFile, ReadBody, Collect, AutoDelete,
                        posted, vars
    <3> QED BY <2>2, <3>1
  <2> QED BY <2>4, <2>5, <2>6
<1> QED BY <1>1, Invariance, PTL DEF Spec, MutedRests
-----------------------------------------------------------------------------
(* Whom a message belongs to.  While the request has not gone astray the   *)
(* token is of the account that made the session and the file (Holders),   *)
(* the messages of this beginning are in this session (Here), and what a   *)
(* retry repeats is of it (Repeated).                                      *)

Holders ==
    /\ session.of # 0 /\ session.epoch = epoch => who.token \in {0, session.of}
    /\ file.of # 0 /\ file.epoch = epoch => who.token \in {0, file.of}

Here == \A i \in 1 .. Len(sent) : sent[i].epoch = epoch => sent[i].session = session

OfThis(p) ==
    /\ p.session = session /\ p.file = file
    /\ session.of # 0 /\ session.epoch = epoch
    /\ file = NoFile \/ (file.of # 0 /\ file.epoch = epoch)
    /\ p.parent # 0 => p.parent \in 1 .. Len(sent) /\ sent[p.parent].session = session
Repeated == OfThis(payload)

Epochs ==
    /\ astray \in BOOLEAN /\ seen <= Len(sent) /\ session.epoch <= epoch /\ file.epoch <= epoch
    /\ \A i \in 1 .. Len(sent) : sent[i].epoch <= epoch

Begun ==
    result = "" /\ leg # "retry" =>
        /\ "create" \in Ahead => \A i \in 1 .. Len(sent) : sent[i].epoch < epoch
        /\ "create" \notin Ahead => session.of # 0
        /\ req.file /\ "upload" \notin Ahead => file.of # 0

Held ==
    result = "" /\ ~astray =>
        /\ Holders
        /\ leg = "retry" \/ "create" \notin Ahead => Here
        /\ leg = "retry" \/ "call" \notin Ahead => Repeated

OwnInv == Epochs /\ Begun /\ Held

LEMMA LastCall ==
    ASSUME NEW r \in Requests, NEW w \in Seq(Ops), w \in {RetryPlan, StartPlan(r), SwitchPlan(r)}
    PROVE  Len(w) \in Nat \ {0} /\ w[Len(w)] = "call" /\ "call" \in Range(w)
<1>1. Len(w) \in Nat \ {0} /\ w[Len(w)] = "call"
  <2>1. CASE w = RetryPlan
    <3>1. w = <<"pow", "call">>
      BY <2>1 DEF RetryPlan
    <3> QED BY <3>1
  <2>2. CASE w \in {StartPlan(r), SwitchPlan(r)} /\ r.file
    <3>1. w \in {<<"pow", "upload", "wait", "create", "pow", "call">>,
                 <<"create", "pow", "pow", "upload", "wait", "call">>}
      BY <2>2, Plans
    <3>2. CASE w = <<"pow", "upload", "wait", "create", "pow", "call">>
      BY <3>2
    <3>3. CASE w = <<"create", "pow", "pow", "upload", "wait", "call">>
      BY <3>3
    <3> QED BY <3>1, <3>2, <3>3
  <2>3. CASE w \in {StartPlan(r), SwitchPlan(r)} /\ ~r.file
    <3>1. w = StartPlan(r)
      BY <2>3, Plans
    <3>2. Len(StartPlan(r)) = 2 * r.segs + 1 /\ StartPlan(r)[2 * r.segs + 1] = "call"
      BY <2>3, SegmentPlan
    <3>3. r.segs \in Nat
      BY CompletionAssumption DEF Requests
    <3> QED BY <3>1, <3>2, <3>3
  <2>4. r.file \in BOOLEAN
    BY DEF Requests
  <2> QED BY <2>1, <2>2, <2>3, <2>4
<1>2. DOMAIN w = 1 .. Len(w)
  OBVIOUS
<1>3. Len(w) \in DOMAIN w
  BY <1>1, <1>2
<1> QED BY <1>1, <1>3 DEF Range

\* A call lies ahead until it is made.
LEMMA CallAhead == ASSUME NEW op PROVE IInv /\ Beginning(op) => "call" \in Ahead
<1>a. SUFFICES ASSUME IInv, Beginning(op) PROVE "call" \in Ahead
  OBVIOUS
<1>1. Types /\ OnPlan /\ ~Reading /\ plan # <<>> /\ plan \in Seq(Ops)
  BY <1>a DEF IInv, Beginning
<1>2. Rest(plan, Whole)
  BY <1>1 DEF OnPlan
<1>3. Whole \in Seq(Ops) /\ Len(Whole) \in Nat \ {0} /\ Whole[Len(Whole)] = "call"
  <2>1. req \in Requests /\ Whole \in Seq(Ops)
    BY <1>1, Wholes DEF Types
  <2>2. Whole \in {RetryPlan, StartPlan(req), SwitchPlan(req)}
    BY DEF Whole
  <2> QED BY <2>1, <2>2, LastCall
<1> HIDE DEF Whole
<1>4. Len(plan) \in Nat \ {0} /\ DOMAIN plan = 1 .. Len(plan)
  BY <1>1
<1>5. plan[Len(plan)] = Whole[Len(Whole) - Len(plan) + Len(plan)]
  BY <1>2, <1>4 DEF Rest
<1>6. plan[Len(plan)] = "call" /\ Len(plan) \in DOMAIN plan
  BY <1>3, <1>4, <1>5
<1> QED BY <1>6 DEF Ahead, Range

\* What is made stays ahead through the steps that make nothing of it.
Makes == {"create", "upload", "call"}

LEMMA AheadKept ==
    ASSUME NEW op, NEW x \in Makes, x # op
    PROVE  IInv /\ Beginning(op) /\ plan' \in {plan, Tail(plan), <<"pow">> \o plan} =>
             (x \in Ahead' <=> x \in Ahead)
<1>a. SUFFICES ASSUME IInv, Beginning(op), plan' \in {plan, Tail(plan), <<"pow">> \o plan}
               PROVE  x \in Ahead' <=> x \in Ahead
  OBVIOUS
<1>1. plan \in Seq(Ops) /\ plan # <<>> /\ Head(plan) = op
  BY <1>a DEF Beginning
<1>2. /\ Range(plan) = {Head(plan)} \cup Range(Tail(plan))
      /\ Range(<<"pow">> \o plan) = {"pow"} \cup Range(plan)
  BY <1>1, RangeFacts
<1>3. x # "pow"
  BY DEF Makes
<1>4. CASE plan' = plan
  BY <1>4 DEF Ahead
<1>5. CASE plan' = Tail(plan)
  BY <1>1, <1>2, <1>5 DEF Ahead
<1>6. CASE plan' = <<"pow">> \o plan
  BY <1>2, <1>3, <1>6 DEF Ahead
<1> QED BY <1>a, <1>4, <1>5, <1>6

LEMMA OwnTypes ==
    IInv => /\ session \in Sessions /\ file \in Files /\ epoch \in Nat /\ sent \in Seq(Messages)
            /\ Len(sent) \in Nat /\ seen \in Nat /\ who.token \in Nat /\ leg \in Legs
            /\ payload \in Payloads /\ first \in Payloads
            /\ \A i \in 1 .. Len(sent) : sent[i] \in Messages /\ sent[i].epoch \in Nat
<1>a. SUFFICES ASSUME IInv
               PROVE  /\ session \in Sessions /\ file \in Files /\ epoch \in Nat /\ sent \in Seq(Messages)
                      /\ Len(sent) \in Nat /\ seen \in Nat /\ who.token \in Nat /\ leg \in Legs
                      /\ payload \in Payloads /\ first \in Payloads
                      /\ \A i \in 1 .. Len(sent) : sent[i] \in Messages /\ sent[i].epoch \in Nat
  OBVIOUS
<1>1. /\ session \in Sessions /\ file \in Files /\ epoch \in Nat /\ sent \in Seq(Messages) /\ seen \in Nat
      /\ leg \in Legs /\ payload \in Payloads /\ first \in Payloads
  BY <1>a DEF IInv, Types
<1>2. who.token \in Nat
  BY <1>a DEF IInv, Accounts, WhoTypes
<1>3. Len(sent) \in Nat /\ \A i \in 1 .. Len(sent) : sent[i] \in Messages
  BY <1>1
<1>4. \A m \in Messages : m.epoch \in Nat
  BY DEF Messages
<1> QED BY <1>1, <1>2, <1>3, <1>4

\* The token may change, and nothing else of what a message refers to.
LEMMA OwnQuiet ==
    /\ IInv /\ OwnInv /\ result = "" /\ astray' = (astray \/ Leaves)
    /\ UNCHANGED <<req, leg, epoch, sent, payload, seen, session, file>>
    /\ result' = "" => \A x \in Makes : x \in Ahead' <=> x \in Ahead
    => OwnInv'
<1>a. SUFFICES ASSUME IInv, OwnInv, result = "", astray' = (astray \/ Leaves),
                      UNCHANGED <<req, leg, epoch, sent, payload, seen, session, file>>,
                      result' = "" => \A x \in Makes : x \in Ahead' <=> x \in Ahead
               PROVE  OwnInv'
  OBVIOUS
<1>b. Epochs /\ Begun /\ Held
  BY <1>a DEF OwnInv
<1>c. /\ session' = session /\ file' = file /\ epoch' = epoch /\ sent' = sent /\ payload' = payload
      /\ seen' = seen /\ leg' = leg /\ req' = req
  BY <1>a
<1>d. astray' \in BOOLEAN
  BY <1>a, Zenon
<1>e. ~astray' => ~astray /\ ~Leaves
  BY <1>a, Zenon
<1>f. result' = "" => /\ "create" \in Ahead' <=> "create" \in Ahead
                      /\ "upload" \in Ahead' <=> "upload" \in Ahead
                      /\ "call" \in Ahead' <=> "call" \in Ahead
  BY <1>a DEF Makes
<1>1. Epochs'
  BY <1>b, <1>c, <1>d DEF Epochs
<1>2. Begun'
  BY <1>a, <1>b, <1>c, <1>f DEF Begun
<1>3. Held'
  <2>a. SUFFICES ASSUME result' = "", ~astray' PROVE Held'
    BY DEF Held
  <2>1. Holders /\ (leg = "retry" \/ "create" \notin Ahead => Here)
        /\ (leg = "retry" \/ "call" \notin Ahead => Repeated)
    BY <1>a, <1>b, <1>e, <2>a DEF Held
  <2>2. Here' <=> Here
    BY <1>c DEF Here
  <2>3. Repeated' <=> Repeated
    BY <1>c DEF Repeated, OfThis
  <2>4. (session.of # 0 /\ session.epoch = epoch) \/ (file.of # 0 /\ file.epoch = epoch) =>
          who'.token \in {0, who.token}
    BY <1>e, <2>a DEF Leaves, InHand
  <2>5. Holders'
    BY <1>c, <2>1, <2>4 DEF Holders
  <2> QED BY <1>c, <1>f, <2>a, <2>1, <2>2, <2>3, <2>5 DEF Held
<1> QED BY <1>1, <1>2, <1>3 DEF OwnInv

LEMMA OwnEnds ==
    /\ IInv /\ OwnInv /\ result' # "" /\ astray' \in BOOLEAN
    /\ UNCHANGED <<epoch, sent, seen, session, file>>
    => OwnInv'
BY DEF OwnInv, Epochs, Begun, Held
LEMMA AgainHere ==
    ASSUME NEW l, TryAgain(l)
    PROVE  result' # "" \/ plan' = plan \/ (leg = "retry" /\ plan' = Tail(plan))
BY DEF TryAgain, Fail, Proceed

LEMMA UploadsRound == ASSUME NEW l, UploadAgain(l) PROVE result' # "" \/ plan' = <<"pow">> \o plan
BY DEF UploadAgain, Fail

LEMMA OwnCreate == IInv /\ OwnInv /\ CreateSession => OwnInv'
<1>a. SUFFICES ASSUME IInv, OwnInv, CreateSession PROVE OwnInv'
  OBVIOUS
<1>b. Beginning("create")
  <2>1. Doing("create")
    BY <1>a DEF CreateSession
  <2> QED BY <1>a, <2>1, Begins
<1>c. /\ result = "" /\ leg # "retry"
      /\ req' = req /\ leg' = leg /\ epoch' = epoch /\ sent' = sent /\ payload' = payload
      /\ seen' = seen /\ file' = file
  <2>1. result = "" /\ leg # "retry"
    BY <1>b DEF Beginning, InOrder
  <2> QED BY <1>a, <2>1 DEF CreateSession, posted, tries, reading
<1>e. astray' = (astray \/ Leaves)
  BY <1>a DEF CreateSession
<1>d. Epochs /\ Begun /\ Held
  BY <1>a DEF OwnInv
\* The session is made.
<1>1. CASE /\ who.token # 0 /\ Proceed /\ loop' = NoLoop
           /\ session' = [n |-> session.n + 1, of |-> who.token, epoch |-> epoch]
           /\ chain' = NoChain /\ UNCHANGED who
  <2>0. /\ plan' = Tail(plan) /\ result' = "" /\ who' = who /\ who.token # 0
        /\ session'.of = who.token /\ session'.epoch = epoch
    BY <1>1, <1>c DEF Proceed
  <2>1. /\ "upload" \in Ahead' <=> "upload" \in Ahead
        /\ "call" \in Ahead'
    <3>1. plan' \in {plan, Tail(plan), <<"pow">> \o plan}
      BY <2>0
    <3>2. "upload" \in Makes /\ "call" \in Makes /\ "upload" # "create" /\ "call" # "create"
      BY DEF Makes
    <3>3. "upload" \in Ahead' <=> "upload" \in Ahead
      BY <1>a, <1>b, <3>1, <3>2, AheadKept
    <3>4. "call" \in Ahead' <=> "call" \in Ahead
      BY <1>a, <1>b, <3>1, <3>2, AheadKept
    <3>5. "call" \in Ahead
      BY <1>a, <1>b, CallAhead
    <3> QED BY <3>3, <3>4, <3>5
  <2>2. epoch \in Nat /\ \A i \in 1 .. Len(sent) : sent[i].epoch < epoch /\ sent[i].epoch \in Nat
    <3>1. "create" \in Ahead
      <4>1. Range(plan) = {Head(plan)} \cup Range(Tail(plan)) /\ Head(plan) = "create"
        BY <1>b, RangeFacts DEF Beginning
      <4> QED BY <4>1 DEF Ahead
    <3> QED BY <1>a, <1>c, <1>d, <3>1, OwnTypes DEF Begun
  <2>7. \A i \in 1 .. Len(sent) : sent[i].epoch # epoch
    BY <2>2
  <2>3. Epochs'
    <3>1. astray' \in BOOLEAN
      BY <1>e, Zenon
    <3>4. epoch <= epoch
      BY <2>2
    <3>2. session'.epoch <= epoch'
      BY <1>c, <2>0, <3>4, Zenon
    <3>3. seen <= Len(sent) /\ file.epoch <= epoch /\ \A i \in 1 .. Len(sent) : sent[i].epoch <= epoch
      BY <1>d DEF Epochs
    <3> QED BY <1>c, <3>1, <3>2, <3>3, Zenon DEF Epochs
  <2>4. Begun'
    BY <1>c, <1>d, <2>0, <2>1, <2>2 DEF Begun
  <2>5. Held'
    <3>a. SUFFICES ASSUME result' = "", ~astray' PROVE Held'
      BY DEF Held
    <3>1. ~astray
      BY <1>e, <3>a, Zenon
    <3>2. Holders
      BY <1>c, <1>d, <3>1 DEF Held
    <3>3. Holders'
      BY <1>c, <2>0, <3>2 DEF Holders
    <3>4. Here'
      BY <1>c, <2>7, Zenon DEF Here
    <3> QED BY <1>c, <2>1, <3>3, <3>4 DEF Held
  <2> QED BY <2>3, <2>4, <2>5 DEF OwnInv
\* It is not.
<1>2. CASE /\ \/ TryAgain(Tried(loop)) /\ UNCHANGED who
              \/ Fail /\ loop' = NoLoop /\ UNCHANGED who
              \/ \E s \in Switched(who) : who' = s /\ TryAgain([tries |-> loop.tries + 1, refreshed |-> FALSE])
              \/ Fail /\ loop' = NoLoop /\ who' \in Unswitched(who)
              \/ \E authLike \in BOOLEAN : \E o \in AfterRejection(authLike) : who' = o[1] /\ TryAgain(o[2])
           /\ UNCHANGED <<session, chain>>
  <2>1. result' # "" \/ plan' = plan
    BY <1>2, <1>c, AgainHere DEF Fail
  <2>2. result' = "" => \A x \in Makes : x \in Ahead' <=> x \in Ahead
    BY <2>1 DEF Ahead
  <2> QED BY <1>a, <1>c, <1>e, <1>2, <2>2, OwnQuiet
<1> QED BY <1>a, <1>1, <1>2 DEF CreateSession

LEMMA OwnPow == IInv /\ OwnInv /\ GetPow => OwnInv'
<1>a. SUFFICES ASSUME IInv, OwnInv, GetPow PROVE OwnInv'
  OBVIOUS
<1>b. Beginning("pow")
  <2>1. Doing("pow")
    BY <1>a DEF GetPow
  <2> QED BY <1>a, <2>1, Begins
<1>c. /\ result = "" /\ astray' = (astray \/ Leaves)
      /\ UNCHANGED <<req, leg, epoch, sent, payload, seen, session, file>>
  <2>1. result = ""
    BY <1>b DEF Beginning
  <2> QED BY <1>a, <2>1 DEF GetPow, made, posted, tries, reading
<1>1. result' # "" \/ plan' \in {plan, Tail(plan), <<"pow">> \o plan}
  BY <1>a, AgainHere DEF GetPow, Proceed
<1>2. ASSUME result' = "", NEW x \in Makes PROVE x \in Ahead' <=> x \in Ahead
  <2>1. x # "pow"
    BY DEF Makes
  <2>2. plan' \in {plan, Tail(plan), <<"pow">> \o plan}
    BY <1>1, <1>2
  <2> QED BY <1>a, <1>b, <2>1, <2>2, AheadKept
<1> QED BY <1>a, <1>c, <1>2, OwnQuiet

LEMMA OwnUpload == IInv /\ OwnInv /\ UploadFile => OwnInv'
<1>a. SUFFICES ASSUME IInv, OwnInv, UploadFile PROVE OwnInv'
  OBVIOUS
<1>b. Beginning("upload")
  <2>1. Doing("upload")
    BY <1>a DEF UploadFile
  <2> QED BY <1>a, <2>1, Begins
<1>c. /\ result = "" /\ leg # "retry" /\ plan # <<>>
      /\ req' = req /\ leg' = leg /\ epoch' = epoch /\ sent' = sent /\ payload' = payload
      /\ seen' = seen /\ session' = session
  <2>1. result = "" /\ leg # "retry" /\ plan # <<>>
    BY <1>b DEF Beginning, InOrder
  <2> QED BY <1>a, <2>1 DEF UploadFile, posted, tries, reading
<1>e. astray' = (astray \/ Leaves)
  BY <1>a DEF UploadFile
<1>d. Epochs /\ Begun /\ Held
  BY <1>a DEF OwnInv
\* The file is uploaded.
<1>1. CASE /\ who.token # 0 /\ Proceed /\ upload' = NoLoop
           /\ \E status \in UploadedStatus : file' = [of |-> who.token, epoch |-> epoch, status |-> status]
           /\ UNCHANGED <<who, loop>>
  <2>0. /\ plan' = Tail(plan) /\ result' = "" /\ who' = who /\ who.token # 0
        /\ file'.of = who.token /\ file'.epoch = epoch
    <3>1. PICK status \in UploadedStatus : file' = [of |-> who.token, epoch |-> epoch, status |-> status]
      BY <1>1
    <3>2. file'.of = who.token /\ file'.epoch = epoch
      BY <3>1
    <3> QED BY <1>1, <1>c, <3>2 DEF Proceed
  <2>1. /\ "create" \in Ahead' <=> "create" \in Ahead
        /\ "call" \in Ahead'
    <3>1. plan' \in {plan, Tail(plan), <<"pow">> \o plan}
      BY <2>0
    <3>2. "create" \in Makes /\ "call" \in Makes /\ "create" # "upload" /\ "call" # "upload"
      BY DEF Makes
    <3>3. "create" \in Ahead' <=> "create" \in Ahead
      BY <1>a, <1>b, <3>1, <3>2, AheadKept
    <3>4. "call" \in Ahead' <=> "call" \in Ahead
      BY <1>a, <1>b, <3>1, <3>2, AheadKept
    <3>5. "call" \in Ahead
      BY <1>a, <1>b, CallAhead
    <3> QED BY <3>3, <3>4, <3>5
  <2>2. epoch \in Nat
    BY <1>a, OwnTypes
  <2>3. Epochs'
    <3>1. astray' \in BOOLEAN
      BY <1>e, Zenon
    <3>4. epoch <= epoch
      BY <2>2
    <3>2. file'.epoch <= epoch'
      BY <1>c, <2>0, <3>4, Zenon
    <3>3. seen <= Len(sent) /\ session.epoch <= epoch /\ \A i \in 1 .. Len(sent) : sent[i].epoch <= epoch
      BY <1>d DEF Epochs
    <3> QED BY <1>c, <3>1, <3>2, <3>3, Zenon DEF Epochs
  <2>4. Begun'
    BY <1>c, <1>d, <2>0, <2>1, <2>2 DEF Begun
  <2>5. Held'
    <3>a. SUFFICES ASSUME result' = "", ~astray' PROVE Held'
      BY DEF Held
    <3>1. ~astray
      BY <1>e, <3>a, Zenon
    <3>2. Holders /\ ("create" \notin Ahead => Here)
      BY <1>c, <1>d, <3>1 DEF Held
    <3>3. Holders'
      BY <1>c, <2>0, <3>2 DEF Holders
    <3>4. Here' <=> Here
      BY <1>c DEF Here
    <3> QED BY <1>c, <2>1, <3>2, <3>3, <3>4 DEF Held
  <2> QED BY <2>3, <2>4, <2>5 DEF OwnInv
\* It goes round again, or gives up.
<1>2. CASE /\ \/ Fail /\ upload' = NoLoop /\ UNCHANGED <<who, loop>>
              \/ UploadAgain(Tried(upload)) /\ UNCHANGED who
              \/ /\ req.managed /\ ~upload.refreshed
                 /\ who' = Refreshed /\ UploadAgain([tries |-> upload.tries + 1, refreshed |-> TRUE])
              \/ \E s \in Switched(who) :
                   who' = s /\ UploadAgain([tries |-> upload.tries + 1, refreshed |-> FALSE])
              \/ \E s \in Unswitched(who) : who' = s /\ UploadAgain(Tried(upload))
           /\ UNCHANGED file
  <2>1. result' # "" \/ plan' = <<"pow">> \o plan
    BY <1>2, UploadsRound DEF Fail
  <2>2. ASSUME result' = "", NEW x \in Makes PROVE x \in Ahead' <=> x \in Ahead
    <3>1. plan \in Seq(Ops) /\ x # "pow"
      BY <1>b DEF Beginning, Makes
    <3>2. Range(<<"pow">> \o plan) = {"pow"} \cup Range(plan)
      BY <3>1, RangeFacts
    <3> QED BY <2>1, <2>2, <3>1, <3>2 DEF Ahead
  <2> QED BY <1>a, <1>c, <1>e, <1>2, <2>2, OwnQuiet
<1> QED BY <1>a, <1>1, <1>2 DEF UploadFile

LEMMA OwnWait == IInv /\ OwnInv /\ WaitForFile => OwnInv'
<1>a. SUFFICES ASSUME IInv, OwnInv, WaitForFile PROVE OwnInv'
  OBVIOUS
<1>b. Beginning("wait")
  <2>1. Doing("wait")
    BY <1>a DEF WaitForFile
  <2> QED BY <1>a, <2>1, Begins
<1>c. /\ result = "" /\ leg # "retry"
      /\ UNCHANGED <<req, who, leg, epoch, sent, payload, seen, session, astray>>
  <2>1. result = "" /\ leg # "retry"
    BY <1>b DEF Beginning, InOrder
  <2> QED BY <1>a, <2>1 DEF WaitForFile, posted, tries, reading
<1>d. Epochs /\ Begun /\ Held
  BY <1>a DEF OwnInv
<1>1. file'.of = file.of /\ file'.epoch = file.epoch
  <2>1. file \in Files
    BY <1>a, OwnTypes
  <2>2. CASE UNCHANGED file
    BY <2>2
  <2>3. ASSUME NEW fetched \in FetchUploadedFile, file' = [file EXCEPT !.status = MergeStatus(@, fetched)]
        PROVE  file'.of = file.of /\ file'.epoch = file.epoch
    BY <2>1, <2>3 DEF Files
  <2> QED BY <1>a, <2>2, <2>3 DEF WaitForFile
<1>2. result' # "" \/ plan' \in {plan, Tail(plan), <<"pow">> \o plan}
  BY <1>a DEF WaitForFile, PollAgain, Proceed, Fail
<1>3. CASE result' # ""
  <2>1. Epochs'
    BY <1>1, <1>c, <1>d DEF Epochs
  <2> QED BY <1>3, <2>1 DEF OwnInv, Begun, Held
<1>4. CASE plan' \in {plan, Tail(plan), <<"pow">> \o plan}
  <2>1. /\ "create" \in Ahead' <=> "create" \in Ahead
        /\ "upload" \in Ahead' <=> "upload" \in Ahead
        /\ "call" \in Ahead'
    <3>1. ASSUME NEW x \in Makes PROVE x \in Ahead' <=> x \in Ahead
      <4>1. x # "wait"
        BY DEF Makes
      <4> QED BY <1>4, <1>a, <1>b, <4>1, AheadKept
    <3>2. "call" \in Ahead
      BY <1>a, <1>b, CallAhead
    <3> QED BY <3>1, <3>2 DEF Makes
  <2>2. Epochs'
    BY <1>1, <1>c, <1>d DEF Epochs
  <2>3. Begun'
    BY <1>1, <1>c, <1>d, <2>1 DEF Begun
  <2>4. Held'
    <3>1. Here' <=> Here
      BY <1>c DEF Here
    <3>2. Holders' <=> Holders
      BY <1>1, <1>c DEF Holders
    <3> QED BY <1>c, <1>d, <2>1, <3>1, <3>2 DEF Held
  <2> QED BY <2>2, <2>3, <2>4 DEF OwnInv
<1> QED BY <1>2, <1>3, <1>4

\* What a message that puts the prompt refers to.
LEMMA PromptOfThis ==
    ASSUME NEW from, NEW to
    PROVE  /\ IInv /\ OwnInv /\ result = "" /\ leg # "retry" /\ "create" \notin Ahead
           /\ req.file => "upload" \notin Ahead
           => OfThis(Prompt(from, to)) /\ (req.file => file.of # 0)
<1>a. SUFFICES ASSUME IInv, OwnInv, result = "", leg # "retry", "create" \notin Ahead,
                      req.file => "upload" \notin Ahead
               PROVE  OfThis(Prompt(from, to)) /\ (req.file => file.of # 0)
  OBVIOUS
<1>1. session.epoch = epoch /\ Linked /\ (req.file => file.epoch = epoch) /\ (~req.file => file = NoFile)
  BY <1>a DEF IInv, Made, PayloadsReady
<1>2. session.of # 0 /\ (req.file => file.of # 0)
  BY <1>a DEF OwnInv, Begun
<1>3. file = NoFile \/ (file.of # 0 /\ file.epoch = epoch)
  BY <1>1, <1>2
<1>4. chain.parent # 0 => chain.parent \in 1 .. Len(sent) /\ sent[chain.parent].session = session
  BY <1>1 DEF Linked
<1>5. Prompt(from, to).session = session /\ Prompt(from, to).file = file /\ Prompt(from, to).parent = chain.parent
  BY DEF Prompt
<1> QED BY <1>1, <1>2, <1>3, <1>4, <1>5 DEF OfThis

LEMMA OwnPosted ==
    ASSUME NEW p, NEW settled
    PROVE  IInv /\ Epochs /\ sent' = Append(sent, Message(p, settled)) =>
             /\ Len(sent') = Len(sent) + 1 /\ Len(sent) \in Nat
             /\ \A i \in 1 .. Len(sent) : i \in 1 .. Len(sent') /\ sent'[i] = sent[i]
             /\ sent'[Len(sent) + 1] = Message(p, settled) /\ Last(sent') = Message(p, settled)
             /\ \A i \in 1 .. Len(sent') : sent'[i].epoch <= epoch
             /\ p.session = session /\ Here =>
                  \A i \in 1 .. Len(sent') : sent'[i].epoch = epoch => sent'[i].session = session
             /\ seen <= Len(sent')
<1> DEFINE m == Message(p, settled)
<1>a. SUFFICES ASSUME IInv, Epochs, sent' = Append(sent, m)
      PROVE  /\ Len(sent') = Len(sent) + 1 /\ Len(sent) \in Nat
             /\ \A i \in 1 .. Len(sent) : i \in 1 .. Len(sent') /\ sent'[i] = sent[i]
             /\ sent'[Len(sent) + 1] = m /\ Last(sent') = m
             /\ \A i \in 1 .. Len(sent') : sent'[i].epoch <= epoch
             /\ p.session = session /\ Here =>
                  \A i \in 1 .. Len(sent') : sent'[i].epoch = epoch => sent'[i].session = session
             /\ seen <= Len(sent')
  OBVIOUS
<1>b. m.epoch = epoch /\ m.session = p.session
  BY DEF Message
<1>c. sent \in Seq(Messages) /\ Len(sent) \in Nat /\ epoch \in Nat /\ seen \in Nat
  BY <1>a, OwnTypes
<1>d. seen <= Len(sent) /\ \A i \in 1 .. Len(sent) : sent[i].epoch <= epoch
  BY <1>a DEF Epochs
<1> HIDE DEF m
<1>1. /\ Len(sent') = Len(sent) + 1 /\ sent'[Len(sent) + 1] = m
      /\ \A i \in 1 .. Len(sent) : sent'[i] = sent[i]
  BY <1>a, <1>c
<1>2. \A i \in 1 .. Len(sent') : i \in 1 .. Len(sent) \/ i = Len(sent) + 1
  BY <1>1, <1>c
<1>3. (\A i \in 1 .. Len(sent) : i \in 1 .. Len(sent')) /\ seen <= Len(sent')
  BY <1>1, <1>c, <1>d
<1>4. \A i \in 1 .. Len(sent') : sent'[i].epoch <= epoch
  <2>1. epoch <= epoch
    BY <1>c
  <2> QED BY <1>1, <1>2, <1>b, <1>d, <2>1, Zenon
<1>5. p.session = session /\ Here =>
        \A i \in 1 .. Len(sent') : sent'[i].epoch = epoch => sent'[i].session = session
  BY <1>1, <1>2, <1>b, Zenon DEF Here
<1>6. Last(sent') = m
  BY <1>1 DEF Last
<1> QED BY <1>1, <1>3, <1>4, <1>5, <1>6, <1>c

LEMMA OwnFire == IInv /\ OwnInv /\ FireSegment => OwnInv'
<1>a. SUFFICES ASSUME IInv, OwnInv, FireSegment PROVE OwnInv'
  OBVIOUS
<1>b. Beginning("fire")
  <2>1. Doing("fire")
    BY <1>a DEF FireSegment
  <2> QED BY <1>a, <2>1, Begins
<1>c. /\ req' = req /\ who' = who /\ leg' = leg /\ epoch' = epoch /\ session' = session /\ file' = file
      /\ payload' = payload /\ seen' = seen /\ astray' = astray
  BY <1>a DEF FireSegment, loops, tries, reading
<1>d. Epochs /\ Begun /\ Held
  BY <1>a DEF OwnInv
<1>e. /\ result = "" /\ leg # "retry" /\ ~req.file
      /\ "create" \notin Ahead /\ "call" \in Ahead /\ plan \in Seq(Ops) /\ plan # <<>> /\ Head(plan) = "fire"
  BY <1>b DEF Beginning, InOrder, Ahead
<1> DEFINE p == Prompt(chain.from, chain.from)
<1>1. CASE sent' = sent /\ result' # ""
  <2>1. Epochs'
    BY <1>1, <1>c, <1>d DEF Epochs
  <2> QED BY <1>1, <2>1 DEF OwnInv, Begun, Held
<1>2. ASSUME NEW settled, sent' = Append(sent, Message(p, settled)), plan' \in {Tail(plan), <<"pow", "call">>}
      PROVE  OwnInv'
  <2>1. "create" \notin Ahead' /\ "call" \in Ahead'
    <3>1. Range(plan) = {Head(plan)} \cup Range(Tail(plan))
      BY <1>e, RangeFacts
    <3>2. Range(<<"pow", "call">>) = {"pow", "call"}
      BY DEF Range
    <3>3. CASE plan' = Tail(plan)
      BY <1>e, <3>1, <3>3 DEF Ahead
    <3>4. CASE plan' = <<"pow", "call">>
      BY <3>2, <3>4 DEF Ahead
    <3> QED BY <1>2, <3>3, <3>4
  <2>2. OfThis(p)
    BY <1>a, <1>e, PromptOfThis
  <2>3. p.session = session /\ session.of # 0
    BY <2>2 DEF OfThis
  <2>4. /\ \A i \in 1 .. Len(sent') : sent'[i].epoch <= epoch
        /\ Here => \A i \in 1 .. Len(sent') : sent'[i].epoch = epoch => sent'[i].session = session
        /\ seen <= Len(sent')
    <3> HIDE DEF p
    <3> QED BY <1>2, <1>a, <1>d, <2>3, OwnPosted
  <2>5. Epochs'
    BY <1>c, <1>d, <2>4, Zenon DEF Epochs
  <2>6. Begun'
    BY <1>c, <1>e, <2>1, <2>3 DEF Begun
  <2>7. Held'
    <3>a. SUFFICES ASSUME ~astray PROVE Held'
      BY <1>c DEF Held
    <3>1. Holders /\ Here
      BY <1>d, <1>e, <3>a DEF Held
    <3>2. Holders' <=> Holders
      BY <1>c DEF Holders
    <3>3. Here'
      BY <1>c, <2>4, <3>1, Zenon DEF Here
    <3> QED BY <1>c, <1>e, <2>1, <3>1, <3>2, <3>3 DEF Held
  <2> QED BY <2>5, <2>6, <2>7 DEF OwnInv
<1>3. \/ sent' = sent /\ result' # ""
      \/ \E settled : sent' = Append(sent, Message(p, settled)) /\ plan' \in {Tail(plan), <<"pow", "call">>}
  BY <1>a, Zenon DEF FireSegment, FireFailed, Proceed, Fail
<1> QED BY <1>1, <1>2, <1>3

\* Another account begins with nothing.
LEMMA OwnAnew ==
    /\ IInv /\ OwnInv /\ StartsAnew /\ astray' \in BOOLEAN
    /\ UNCHANGED <<req, session, file, seen>>
    /\ sent' = sent \/ \E p, settled : sent' = Append(sent, Message(p, settled))
    => OwnInv'
<1>a. SUFFICES ASSUME IInv, OwnInv, StartsAnew, astray' \in BOOLEAN, UNCHANGED <<req, session, file, seen>>,
                      sent' = sent \/ \E p, settled : sent' = Append(sent, Message(p, settled))
               PROVE  OwnInv'
  OBVIOUS
<1>b. Epochs
  BY <1>a DEF OwnInv
<1>c. req' = req /\ session' = session /\ file' = file /\ seen' = seen /\ epoch' = epoch + 1
      /\ plan' = SwitchPlan(req)
  BY <1>a DEF StartsAnew
<1>d. epoch \in Nat /\ session.epoch \in Nat /\ file.epoch \in Nat
  BY <1>a, OwnTypes DEF Sessions, Files
<1>e. Types
  BY <1>a DEF IInv
<1>1. "create" \in Ahead' /\ "call" \in Ahead' /\ (req.file => "upload" \in Ahead')
  <2>1. /\ SwitchPlan(req) \in Seq(Ops) /\ "create" \in Range(SwitchPlan(req))
        /\ req.file => {"upload", "wait"} \subseteq Range(SwitchPlan(req))
    BY <1>e, Wholes
  <2>2. req \in Requests
    BY <1>e DEF Types
  <2>3. "call" \in Range(SwitchPlan(req))
    BY <2>1, <2>2, LastCall
  <2> HIDE DEF SwitchPlan
  <2> QED BY <1>c, <2>1, <2>3 DEF Ahead
<1>2. seen <= Len(sent') /\ \A i \in 1 .. Len(sent') : sent'[i].epoch <= epoch /\ sent'[i].epoch \in Nat
  <2>1. CASE sent' = sent
    BY <1>a, <1>b, <2>1, OwnTypes DEF Epochs
  <2>2. ASSUME NEW p, NEW settled, sent' = Append(sent, Message(p, settled))
        PROVE  seen <= Len(sent') /\ \A i \in 1 .. Len(sent') : sent'[i].epoch <= epoch /\ sent'[i].epoch \in Nat
    <3>1. /\ seen <= Len(sent') /\ \A i \in 1 .. Len(sent') : sent'[i].epoch <= epoch
          /\ Len(sent') = Len(sent) + 1 /\ Len(sent) \in Nat
          /\ sent'[Len(sent) + 1] = Message(p, settled)
          /\ \A i \in 1 .. Len(sent) : sent'[i] = sent[i]
      BY <1>a, <1>b, <2>2, OwnPosted
    <3>2. Message(p, settled).epoch = epoch
      BY DEF Message
    <3>3. \A i \in 1 .. Len(sent') : i \in 1 .. Len(sent) \/ i = Len(sent) + 1
      BY <3>1
    <3>4. \A i \in 1 .. Len(sent) : sent[i].epoch \in Nat
      BY <1>a, OwnTypes
    <3>5. \A i \in 1 .. Len(sent') : sent'[i].epoch \in Nat
      BY <1>d, <3>1, <3>2, <3>3, <3>4, Zenon
    <3> QED BY <3>1, <3>5
  <2> QED BY <1>a, <2>1, <2>2
<1>3. \A i \in 1 .. Len(sent') : sent'[i].epoch <= epoch + 1 /\ sent'[i].epoch < epoch + 1
  <2> SUFFICES ASSUME NEW i \in 1 .. Len(sent')
               PROVE  sent'[i].epoch <= epoch + 1 /\ sent'[i].epoch < epoch + 1
    OBVIOUS
  <2>1. PICK e \in Nat : e = sent'[i].epoch /\ e <= epoch
    BY <1>2
  <2>2. e <= epoch + 1 /\ e < epoch + 1
    BY <1>d, <2>1
  <2> QED BY <2>1, <2>2, Zenon
<1>4. session.epoch <= epoch + 1 /\ file.epoch <= epoch + 1 /\ session.epoch # epoch + 1 /\ file.epoch # epoch + 1
  <2>1. session.epoch <= epoch /\ file.epoch <= epoch
    BY <1>b DEF Epochs
  <2>2. PICK x \in Nat, y \in Nat : x = session.epoch /\ y = file.epoch /\ x <= epoch /\ y <= epoch
    BY <1>d, <2>1
  <2>3. x <= epoch + 1 /\ y <= epoch + 1 /\ x # epoch + 1 /\ y # epoch + 1
    BY <1>d, <2>2
  <2> QED BY <2>2, <2>3, Zenon
<1>5. Epochs'
  BY <1>a, <1>c, <1>2, <1>3, <1>4, Zenon DEF Epochs
<1>6. Begun'
  BY <1>c, <1>1, <1>3, Zenon DEF Begun
<1>7. Held'
  <2>1. Holders'
    BY <1>c, <1>4, Zenon DEF Holders
  <2>2. leg' # "retry"
    BY <1>a DEF StartsAnew
  <2> QED BY <1>1, <2>1, <2>2, Zenon DEF Held
<1> QED BY <1>5, <1>6, <1>7 DEF OwnInv

LEMMA OwnCall == IInv /\ OwnInv /\ CallCompletion => OwnInv'
<1>a. SUFFICES ASSUME IInv, OwnInv, CallCompletion PROVE OwnInv'
  OBVIOUS
<1>b. Beginning("call")
  <2>1. Doing("call")
    BY <1>a DEF CallCompletion
  <2> QED BY <1>a, <2>1, Begins
<1>c. req' = req /\ session' = session /\ file' = file /\ seen' = seen
  BY <1>a DEF CallCompletion, loops, made
<1>d. Epochs /\ Begun /\ Held
  BY <1>a DEF OwnInv
<1>e. result = "" /\ Head(plan) = "call" /\ Ahead = {"call"}
  BY <1>b DEF Beginning, InOrder, Ahead
<1>f. astray' = (epoch' = epoch /\ (astray \/ Rewinds))
  BY <1>a DEF CallCompletion
<1>g. astray' \in BOOLEAN
  BY <1>f, Zenon
<1>h. epoch' = epoch /\ ~astray' => ~astray /\ leg # "captcha"
  BY <1>f, Zenon DEF Rewinds
<1>i. Types /\ WhoTypes(who) /\ epoch \in Nat
  BY <1>a DEF IInv, Accounts, Types
<1> DEFINE p == IF leg = "retry" THEN payload ELSE Prompt(chain.from, req.segs)
<1>j. leg # "retry" => OfThis(p) /\ session.of # 0 /\ (req.file => file.of # 0)
  <2>1. CASE leg # "retry"
    <3>1. "create" \notin Ahead /\ "upload" \notin Ahead
      BY <1>e
    <3>2. OfThis(Prompt(chain.from, req.segs)) /\ (req.file => file.of # 0)
      BY <1>a, <1>e, <2>1, <3>1, PromptOfThis
    <3> QED BY <2>1, <3>2 DEF OfThis
  <2> QED BY <2>1
<1>k. ~astray => OfThis(p) /\ Holders /\ Here
  <2>1. CASE leg = "retry"
    BY <1>d, <1>e, <2>1 DEF Held, Repeated
  <2>2. CASE leg # "retry"
    BY <1>d, <1>e, <1>j, <2>2 DEF Held
  <2> QED BY <2>1, <2>2
<1> HIDE DEF p
\* The request is over.
<1>1. ASSUME result' # "", epoch' = epoch,
             sent' = sent \/ \E settled : sent' = Append(sent, Message(p, settled))
      PROVE  OwnInv'
  <2>1. seen <= Len(sent') /\ \A i \in 1 .. Len(sent') : sent'[i].epoch <= epoch
    <3>1. CASE sent' = sent
      BY <1>d, <3>1 DEF Epochs
    <3>2. ASSUME NEW settled, sent' = Append(sent, Message(p, settled))
          PROVE  seen <= Len(sent') /\ \A i \in 1 .. Len(sent') : sent'[i].epoch <= epoch
      BY <1>a, <1>d, <3>2, OwnPosted
    <3> QED BY <1>1, <3>1, <3>2
  <2>2. Epochs'
    BY <1>1, <1>c, <1>d, <1>g, <2>1, Zenon DEF Epochs
  <2> QED BY <1>1, <2>2 DEF OwnInv, Begun, Held
\* It begins anew.
<1>2. ASSUME StartsAnew, NEW settled, sent' = Append(sent, Message(p, settled)) PROVE OwnInv'
  BY <1>2, <1>a, <1>c, <1>g, OwnAnew
\* The answer is read.
<1>3. ASSUME plan' \in {<<"read">>, <<"collect">>}, UNCHANGED <<who, leg, epoch, result>>, Called(p),
             NEW settled, sent' = Append(sent, Message(p, settled))
      PROVE  OwnInv'
  <2>0. leg' = leg /\ epoch' = epoch /\ result' = "" /\ who' = who
    BY <1>3, <1>e
  <2>1. Ahead' \subseteq {"read", "collect"}
    BY <1>3, ReadsOn
  <2>2. /\ \A i \in 1 .. Len(sent') : sent'[i].epoch <= epoch
        /\ p.session = session /\ Here =>
             \A i \in 1 .. Len(sent') : sent'[i].epoch = epoch => sent'[i].session = session
        /\ seen <= Len(sent')
        /\ \A i \in 1 .. Len(sent) : i \in 1 .. Len(sent') /\ sent'[i] = sent[i]
    BY <1>3, <1>a, <1>d, OwnPosted
  <2>3. Epochs'
    BY <1>c, <1>d, <1>g, <2>0, <2>2, Zenon DEF Epochs
  <2>4. Begun'
    BY <1>c, <1>j, <2>0, <2>1 DEF Begun
  <2>5. Held'
    <3>a. SUFFICES ASSUME ~astray' PROVE Held'
      BY DEF Held
    <3>1. ~astray /\ leg # "captcha"
      BY <1>h, <2>0, <3>a
    <3>2. OfThis(p) /\ Holders /\ Here
      BY <1>k, <3>1
    <3>3. payload' = p
      BY <1>3, <3>1 DEF Called, Kept
    <3>4. Holders'
      BY <1>c, <2>0, <3>2 DEF Holders
    <3>5. Here'
      BY <1>c, <2>0, <2>2, <3>2, Zenon DEF Here, OfThis
    <3>6. Repeated'
      BY <1>c, <2>0, <2>2, <3>2, <3>3, Zenon DEF Repeated, OfThis
    <3> QED BY <3>4, <3>5, <3>6 DEF Held
  <2> QED BY <2>3, <2>4, <2>5 DEF OwnInv
<1>4. ASSUME NEW reason, NEW name \in {"switch", "captcha"}, SwitchFor(reason, name)
      PROVE  StartsAnew \/ (result' # "" /\ epoch' = epoch)
  BY <1>4, <1>e, <1>i, SwitchForFacts DEF StartsAnew
<1>5. CASE Fail /\ UNCHANGED <<posted, who, leg, epoch, limited, cont>>
  BY <1>1, <1>5 DEF Fail, posted
<1>6. ASSUME NEW status \in {"limited", "captcha", "error"},
             sent' = Append(sent, Message(p, "committed")), Called(p), AfterStatus(status)
      PROVE  OwnInv'
  <2>1. CASE plan' = <<"collect">> /\ UNCHANGED <<who, leg, epoch, limited, result>>
    BY <1>3, <1>6, <2>1
  <2>2. CASE SwitchFor("limited", "captcha")
    BY <1>1, <1>2, <1>4, <1>6, <2>2
  <2>3. CASE Fail /\ UNCHANGED <<who, leg, epoch, limited, answer>>
    BY <1>1, <1>6, <2>3 DEF Fail
  <2> QED BY <1>6, <2>1, <2>2, <2>3 DEF AfterStatus
<1>7. ASSUME AfterMute, sent' = Append(sent, Message(p, "unknown")) PROVE OwnInv'
  <2>1. CASE SwitchFor("muted", "switch")
    BY <1>1, <1>2, <1>4, <1>7, <2>1
  <2>2. CASE Fail /\ UNCHANGED <<who, leg, epoch, limited>>
    BY <1>1, <1>7, <2>2 DEF Fail
  <2> QED BY <1>7, <2>1, <2>2 DEF AfterMute
<1>8. ASSUME NEW op \in {"read", "collect"}, sent' = Append(sent, Message(p, "committed")), Called(p),
             plan' = <<op>>, UNCHANGED <<who, leg, epoch, limited, result, muted>>
      PROVE  OwnInv'
  BY <1>3, <1>8
<1>9. CASE \E status \in {"limited", "captcha", "error"} :
             /\ sent' = Append(sent, Message(p, "committed")) /\ Called(p)
             /\ AfterStatus(status) /\ UNCHANGED <<muted, cont>>
  BY <1>6, <1>9
<1>10. CASE \E body \in Answers200 :
             /\ who.token # 0
             /\ IF DetectMuted(body)
                THEN /\ muted' = muted \cup {who.token} /\ AfterMute
                     /\ sent' = Append(sent, Message(p, "unknown"))
                     /\ UNCHANGED <<payload, first, answer, cont>>
                ELSE /\ sent' = Append(sent, Message(p, "committed")) /\ Called(p)
                     /\ answer' = (IF body = "sse" THEN "stream" ELSE "nothing")
                     /\ cont' = NoCont /\ plan' = <<IF body = "sse" THEN "read" ELSE "collect">>
                     /\ UNCHANGED <<who, leg, epoch, limited, result, muted>>
  BY <1>7, <1>8, <1>10
<1> QED BY <1>a, <1>5, <1>9, <1>10 DEF CallCompletion, p

\* While the answer is read no step of the plan lies ahead.
LEMMA NothingAhead ==
    ASSUME NEW op \in {"read", "collect"}
    PROVE  IInv /\ Doing(op) => result = "" /\ Ahead \subseteq {"read", "collect"} /\ Reading
<1>a. SUFFICES ASSUME IInv, Doing(op) PROVE result = "" /\ Ahead \subseteq {"read", "collect"} /\ Reading
  OBVIOUS
<1>b. Types /\ OnPlan
  BY <1>a DEF IInv
<1>1. result = "" /\ plan # <<>> /\ Head(plan) = op
  BY <1>a, <1>b, DoingFacts
<1>2. ~Reading => Head(plan) \notin {"read", "collect"}
  BY <1>b, <1>1, Order DEF InOrder
<1>3. Reading
  BY <1>1, <1>2
<1>4. Range(<<"read">>) = {"read"} /\ Range(<<"collect">>) = {"collect"}
  BY DEF Range
<1> QED BY <1>1, <1>3, <1>4 DEF Reading, Ahead

LEMMA OwnRead == IInv /\ OwnInv /\ ReadBody => OwnInv'
<1>a. SUFFICES ASSUME IInv, OwnInv, ReadBody PROVE OwnInv'
  OBVIOUS
<1>b. result = "" /\ Ahead \subseteq {"read", "collect"} /\ Reading
  <2>1. Doing("read")
    BY <1>a DEF ReadBody
  <2> QED BY <1>a, <2>1, NothingAhead
<1>c. /\ req' = req /\ who' = who /\ leg' = leg /\ epoch' = epoch /\ session' = session /\ file' = file
      /\ payload' = payload /\ sent' = sent /\ astray' = astray /\ result' = result
  BY <1>a DEF ReadBody, made, posted, tries
<1>d. Epochs /\ Begun /\ Held
  BY <1>a DEF OwnInv
<1>e. plan' \in {plan, <<"collect">>} /\ seen' \in {seen, Len(sent)}
  BY <1>a DEF ReadBody, CallContinue, EndAnswer
<1>1. Ahead' \subseteq {"read", "collect"}
  <2>1. plan' \in {<<"read">>, <<"collect">>}
    BY <1>b, <1>e DEF Reading
  <2> QED BY <2>1, ReadsOn
<1>2. Epochs'
  <2>1. Len(sent) \in Nat
    BY <1>a, OwnTypes
  <2>2. seen' <= Len(sent)
    <3>1. Len(sent) <= Len(sent)
      BY <2>1
    <3> QED BY <1>d, <1>e, <3>1 DEF Epochs
  <2> QED BY <1>c, <1>d, <2>2, Zenon DEF Epochs
<1>3. Begun'
  BY <1>1, <1>b, <1>c, <1>d DEF Begun
<1>4. Held'
  <2>1. (Here' <=> Here) /\ (Holders' <=> Holders) /\ (Repeated' <=> Repeated)
    BY <1>c DEF Here, Holders, Repeated, OfThis
  <2> QED BY <1>1, <1>b, <1>c, <1>d, <2>1 DEF Held
<1> QED BY <1>2, <1>3, <1>4 DEF OwnInv

LEMMA OwnCollect == IInv /\ OwnInv /\ Collect => OwnInv'
<1>a. SUFFICES ASSUME IInv, OwnInv, Collect PROVE OwnInv'
  OBVIOUS
<1>b. result = "" /\ Ahead \subseteq {"read", "collect"}
  <2>1. Doing("collect")
    BY <1>a DEF Collect
  <2> QED BY <1>a, <2>1, NothingAhead
<1>c. req' = req /\ session' = session /\ file' = file /\ sent' = sent /\ seen' = seen
  BY <1>a DEF Collect, made, reading
<1>d. Epochs /\ Begun /\ Held
  BY <1>a DEF OwnInv
<1>f. astray' = (epoch' = epoch /\ (astray \/ OlderParent))
  BY <1>a DEF Collect
<1>g. astray' \in BOOLEAN
  BY <1>f, Zenon
<1>h. epoch' = epoch /\ ~astray' => ~astray /\ ~OlderParent
  BY <1>f, Zenon
<1>i. Types /\ WhoTypes(who) /\ epoch \in Nat
  BY <1>a DEF IInv, Accounts, Types
\* The request is over.
<1>1. ASSUME result' # "", epoch' = epoch PROVE OwnInv'
  <2>1. Epochs'
    BY <1>1, <1>c, <1>d, <1>g, Zenon DEF Epochs
  <2> QED BY <1>1, <2>1 DEF OwnInv, Begun, Held
\* It begins anew.
<1>2. ASSUME NEW reason, SwitchFor(reason, "switch") PROVE OwnInv'
  <2>1. StartsAnew \/ (result' # "" /\ epoch' = epoch)
    BY <1>2, <1>b, <1>i, SwitchForFacts DEF StartsAnew
  <2>2. CASE StartsAnew
    BY <1>a, <1>c, <1>g, <2>2, OwnAnew
  <2> QED BY <1>1, <2>1, <2>2
\* The same account is asked again.
<1>3. ASSUME leg' = "retry", plan' = RetryPlan, payload' = [payload EXCEPT !.parent = Parent],
             UNCHANGED <<who, epoch, limited, result>>
      PROVE  OwnInv'
  <2>0. who' = who /\ epoch' = epoch /\ result' = ""
    BY <1>3, <1>b
  <2>1. Epochs'
    BY <1>c, <1>d, <1>g, <2>0, Zenon DEF Epochs
  <2>2. Begun'
    BY <1>3 DEF Begun
  <2>3. Held'
    <3>a. SUFFICES ASSUME ~astray' PROVE Held'
      BY DEF Held
    <3>1. ~astray /\ ~OlderParent
      BY <1>h, <2>0, <3>a
    <3>2. Holders /\ Here /\ Repeated
      BY <1>b, <1>d, <3>1 DEF Held
    <3>3. (Holders' <=> Holders) /\ (Here' <=> Here)
      BY <1>c, <2>0 DEF Holders, Here
    <3>4. payload \in Payloads /\ seen \in Nat /\ Len(sent) \in Nat /\ Parent \in Nat
      BY <1>a, <1>i, OwnTypes, ParentType
    <3>5. payload'.session = payload.session /\ payload'.file = payload.file /\ payload'.parent = Parent
      <4> HIDE DEF Parent
      <4> QED BY <1>3, <3>4 DEF Payloads
    <3>6. Parent # 0 => Parent \in 1 .. Len(sent)
      <4>1. seen <= Len(sent)
        BY <1>d DEF Epochs
      <4>2. payload.parent \in Nat /\ (payload.parent # 0 => payload.parent \in 1 .. Len(sent))
        BY <3>2, <3>4 DEF Repeated, OfThis, Payloads
      <4>3. Parent \in {seen, Len(sent), 0, payload.parent}
        BY DEF Parent
      <4> HIDE DEF Parent
      <4> QED BY <3>4, <4>1, <4>2, <4>3
    <3>7. Parent # 0 => sent[Parent].session = session
      <4>1. payload'.parent # 0 => sent[payload'.parent].epoch = epoch
        BY <1>3, <3>1 DEF OlderParent
      <4> HIDE DEF Parent
      <4> QED BY <3>2, <3>5, <3>6, <4>1, Zenon DEF Here
    <3>8. Repeated'
      <4> HIDE DEF Parent
      <4> QED BY <1>c, <2>0, <3>2, <3>5, <3>6, <3>7, Zenon DEF Repeated, OfThis
    <3> QED BY <3>2, <3>3, <3>8 DEF Held
  <2> QED BY <2>1, <2>2, <2>3 DEF OwnInv
<1>4. ASSUME NEW reason, Empty(reason) PROVE OwnInv'
  BY <1>2, <1>3, <1>4 DEF Empty
<1>5. ASSUME Fail, UNCHANGED <<who, leg, epoch, limited, attempts, payload>> PROVE OwnInv'
  BY <1>1, <1>5 DEF Fail
<1>6. ASSUME result' = "answered", UNCHANGED <<who, leg, epoch, limited, attempts, payload>> PROVE OwnInv'
  BY <1>1, <1>6
<1> QED BY <1>a, <1>2, <1>4, <1>5, <1>6 DEF Collect

LEMMA OwnRest ==
    IInv /\ OwnInv
      /\ UNCHANGED <<req, who, plan, leg, epoch, session, file, sent, payload, seen, result, astray>> => OwnInv'
<1>a. SUFFICES ASSUME OwnInv, UNCHANGED <<req, who, plan, leg, epoch, session, file, sent, payload, seen,
                                          result, astray>>
               PROVE  OwnInv'
  OBVIOUS
<1>1. (Here' <=> Here) /\ (Holders' <=> Holders) /\ (Repeated' <=> Repeated) /\ Ahead' = Ahead
  BY <1>a DEF Here, Holders, Repeated, OfThis, Ahead
<1>2. Epochs'
  BY <1>a DEF OwnInv, Epochs
<1>3. Begun' /\ Held'
  BY <1>a, <1>1 DEF OwnInv, Begun, Held
<1> QED BY <1>2, <1>3 DEF OwnInv

LEMMA OwnStarts == Init => OwnInv
<1>a. SUFFICES ASSUME Init PROVE OwnInv
  OBVIOUS
<1>1. /\ sent = <<>> /\ Len(sent) = 0 /\ seen = 0 /\ astray = FALSE /\ epoch = 0 /\ leg = "start"
      /\ session.of = 0 /\ session.epoch = 0 /\ file.of = 0 /\ file.epoch = 0 /\ plan = StartPlan(req)
  BY <1>a DEF Init, NoSession, NoFile
<1>2. IInv
  BY <1>a, Starts
<1>3. req \in Requests /\ plan \in Seq(Ops)
  BY <1>2 DEF IInv, Types
<1>4. "call" \in Ahead
  BY <1>1, <1>3, LastCall DEF Ahead
<1>5. "create" \in Ahead /\ (req.file => "upload" \in Ahead)
  <2>1. CASE req.file
    <3>1. plan = <<"pow", "upload", "wait", "create", "pow", "call">>
      BY <1>1, <1>3, <2>1, Plans
    <3>2. plan[4] = "create" /\ plan[2] = "upload" /\ DOMAIN plan = 1 .. 6
      BY <3>1
    <3>3. 4 \in DOMAIN plan /\ 2 \in DOMAIN plan
      BY <3>2
    <3> QED BY <3>2, <3>3 DEF Ahead, Range
  <2>2. CASE ~req.file
    <3>1. plan[1] = "create" /\ Len(plan) = 2 * req.segs + 1
      BY <1>1, <1>3, <2>2, SegmentPlan
    <3>2. 1 \in DOMAIN plan
      <4>1. req.segs \in Nat
        BY <1>3, CompletionAssumption DEF Requests
      <4>2. Len(plan) \in Nat /\ Len(plan) >= 1 /\ DOMAIN plan = 1 .. Len(plan)
        BY <1>3, <3>1, <4>1
      <4> QED BY <4>2
    <3> QED BY <2>2, <3>1, <3>2 DEF Ahead, Range
  <2> QED BY <2>1, <2>2
<1>9. ASSUME NEW i \in 1 .. Len(sent) PROVE FALSE
  BY <1>1
<1>6. Epochs
  <2>1. 0 <= 0
    OBVIOUS
  <2> QED BY <1>1, <1>9, <2>1, Zenon DEF Epochs
<1>7. Begun
  BY <1>1, <1>5, <1>9, Zenon DEF Begun
<1>8. Held
  BY <1>1, <1>4, <1>5 DEF Held, Holders
<1> QED BY <1>6, <1>7, <1>8 DEF OwnInv

LEMMA OwnSteps == IInv /\ OwnInv /\ [Next]_vars => OwnInv'
<1>a. SUFFICES ASSUME IInv, OwnInv, [Next]_vars PROVE OwnInv'
  OBVIOUS
<1>1. CASE AutoDelete
  <2>1. UNCHANGED <<req, who, plan, leg, epoch, session, file, sent, payload, seen, result, astray>>
    BY <1>1 DEF AutoDelete, made, posted, tries
  <2> QED BY <1>a, <2>1, OwnRest
<1>2. CASE UNCHANGED vars
  <2>1. UNCHANGED <<req, who, plan, leg, epoch, session, file, sent, payload, seen, result, astray>>
    BY <1>2 DEF vars
  <2> QED BY <1>a, <2>1, OwnRest
<1> QED
  BY <1>a, <1>1, <1>2, OwnCreate, OwnPow, OwnUpload, OwnWait, OwnFire, OwnCall, OwnRead, OwnCollect DEF Next

\* Of a message the request posts while it holds the token of what it has made.
LEMMA PostsOwn ==
    ASSUME NEW p, NEW settled
    PROVE  /\ IInv /\ OwnInv /\ sent' = Append(sent, Message(p, settled)) /\ who.token # 0
           /\ OfThis(p) /\ Holders
           => LET m == Last(sent')
              IN  /\ m.session.of = m.token
                  /\ m.file # NoFile => m.file.of = m.token
                  /\ m.parent # 0 => sent[m.parent].session = m.session
<1> DEFINE m == Message(p, settled)
<1>a. SUFFICES ASSUME IInv, OwnInv, sent' = Append(sent, Message(p, settled)), who.token # 0, OfThis(p), Holders
               PROVE  LET n == Last(sent')
                      IN  /\ n.session.of = n.token
                          /\ n.file # NoFile => n.file.of = n.token
                          /\ n.parent # 0 => sent[n.parent].session = n.session
  OBVIOUS
<1>1. m.token = who.token /\ m.session = p.session /\ m.file = p.file /\ m.parent = p.parent
  BY DEF Message
<1>2. Last(sent') = m
  BY <1>a, OwnPosted DEF OwnInv
<1> HIDE DEF m
<1>3. m.session.of = m.token /\ (m.file # NoFile => m.file.of = m.token)
  BY <1>1, <1>a DEF OfThis, Holders
<1>4. m.parent # 0 => sent[m.parent].session = m.session
  BY <1>1, <1>a DEF OfThis
<1> QED BY <1>2, <1>3, <1>4

\* A message, of a retry too, goes into the session, refers to the file and answers a message of
\* the account that posts it: unless an operation has switched the account after they were made, a
\* retry has gone back to the payload of the start, or names an id of the session before.
THEOREM OwnersPost == Spec => PostedByOwner
<1> DEFINE Owned == LET m == Last(sent')
                    IN  /\ m.session.of = m.token
                        /\ m.file # NoFile => m.file.of = m.token
                        /\ m.parent # 0 => sent[m.parent].session = m.session
<1>1. Init => OwnInv
  BY OwnStarts
<1>2. IInv /\ OwnInv /\ [Next]_vars => OwnInv'
  BY OwnSteps
<1>3. IInv /\ OwnInv /\ [Next]_vars => [Len(sent') > Len(sent) /\ ~astray /\ who.token # 0 => Owned]_vars
  <2>a. SUFFICES ASSUME IInv, OwnInv, Next, Len(sent') > Len(sent), ~astray, who.token # 0 PROVE Owned
    OBVIOUS
  <2>b. Len(sent) \in Nat
    BY <2>a, OwnTypes
  <2>c. sent' # sent
    BY <2>a, <2>b
  <2>d. Held
    BY <2>a DEF OwnInv
  <2> HIDE DEF Owned
  <2>1. CASE FireSegment
    <3>1. Beginning("fire")
      <4>1. Doing("fire")
        BY <2>1 DEF FireSegment
      <4> QED BY <2>a, <4>1, Begins
    <3>2. result = "" /\ leg # "retry" /\ ~req.file /\ "create" \notin Ahead
      BY <3>1 DEF Beginning, InOrder, Ahead
    <3>3. OfThis(Prompt(chain.from, chain.from)) /\ Holders
      BY <2>a, <2>d, <3>2, PromptOfThis DEF Held
    <3>4. \E settled : sent' = Append(sent, Message(Prompt(chain.from, chain.from), settled))
      BY <2>1, <2>c, Zenon DEF FireSegment
    <3> QED BY <2>a, <3>3, <3>4, PostsOwn DEF Owned
  <2>2. CASE CallCompletion
    <3> DEFINE p == IF leg = "retry" THEN payload ELSE Prompt(chain.from, req.segs)
    <3>1. Beginning("call")
      <4>1. Doing("call")
        BY <2>2 DEF CallCompletion
      <4> QED BY <2>a, <4>1, Begins
    <3>2. result = "" /\ "create" \notin Ahead /\ "upload" \notin Ahead
      BY <3>1 DEF Beginning, InOrder, Ahead
    <3>3. OfThis(p) /\ Holders
      <4>1. CASE leg = "retry"
        BY <2>a, <2>d, <3>2, <4>1 DEF Held, Repeated
      <4>2. CASE leg # "retry"
        BY <2>a, <2>d, <3>2, <4>2, PromptOfThis DEF Held
      <4> QED BY <4>1, <4>2
    <3>4. \E settled : sent' = Append(sent, Message(p, settled))
      BY <2>2, <2>c, Zenon DEF CallCompletion, posted
    <3> HIDE DEF p
    <3> QED BY <2>a, <3>3, <3>4, PostsOwn DEF Owned
  <2>3. CASE ~FireSegment /\ ~CallCompletion
    <3>1. sent' = sent
      BY <2>a, <2>3 DEF Next, CreateSession, GetPow, UploadFile, WaitForFile, ReadBody, Collect, AutoDelete,
                        posted, vars
    <3> QED BY <2>c, <3>1
  <2> QED BY <2>1, <2>2, <2>3
<1> QED BY <1>1, <1>2, <1>3, Invariance, PTL DEF Spec, PostedByOwner

-----------------------------------------------------------------------------
(* A body, read line by line and as a whole.                               *)

Words == Telling \cup {"", "false"}
Patches == [p : {"status"}, v : Telling] \cup [p : {"auto_continue"}, v : {"true", "false"}]
Objects == [id : BOOLEAN, status : Telling \cup {""}, auto : BOOLEAN]
LineTypes == [id : BOOLEAN, patches : Seq(Patches), object : Objects]
Conts == [last : Words \cup {"AUTO_CONTINUE"}, finished : BOOLEAN, id : BOOLEAN, rounds : Nat,
          said : {"", "finished", "unfinished"}]

\* What continueState has gathered of the words of a body is not more than they say.
Tells(c, w) ==
    /\ "FINISHED" \in Range(w) => c.finished
    /\ c.last \in {"INCOMPLETE", "AUTO_CONTINUE"} => w # <<>> /\ Last(w) = "INCOMPLETE"

LEMMA LinesTyped == Lines \subseteq LineTypes
<1>1. \A v \in Telling : Patch("status", v) \in LineTypes
  BY DEF Patch, NoObject, LineTypes, Patches, Objects, Telling
<1>2. \A v \in {"true", "false"} : Patch("auto_continue", v) \in LineTypes
  BY DEF Patch, NoObject, LineTypes, Patches, Objects, Telling
<1>3. [id |-> TRUE, patches |-> <<>>, object |-> NoObject] \in LineTypes
  BY DEF NoObject, LineTypes, Objects
<1>4. \A o \in [id : {TRUE}, status : {"WIP", "FINISHED"}, auto : BOOLEAN] :
         [id |-> FALSE, patches |-> <<>>, object |-> o] \in LineTypes
  <2> SUFFICES ASSUME NEW o \in [id : {TRUE}, status : {"WIP", "FINISHED"}, auto : BOOLEAN]
               PROVE  [id |-> FALSE, patches |-> <<>>, object |-> o] \in LineTypes
    OBVIOUS
  <2>1. o.status \in Telling \cup {""} /\ o.id \in BOOLEAN /\ o.auto \in BOOLEAN
        /\ o = [id |-> o.id, status |-> o.status, auto |-> o.auto]
    BY DEF Telling
  <2>2. o \in Objects
    BY <2>1, Zenon DEF Objects
  <2>3. <<>> \in Seq(Patches)
    OBVIOUS
  <2> QED BY <2>2, <2>3 DEF LineTypes
<1>5. [id |-> FALSE, object |-> NoObject,
       patches |-> <<[p |-> "auto_continue", v |-> "true"], [p |-> "status", v |-> "WIP"]>>] \in LineTypes
  <2>1. [p |-> "auto_continue", v |-> "true"] \in Patches /\ [p |-> "status", v |-> "WIP"] \in Patches
    BY DEF Patches, Telling
  <2>2. <<[p |-> "auto_continue", v |-> "true"], [p |-> "status", v |-> "WIP"]>> \in Seq(Patches)
    BY <2>1
  <2> QED BY <2>2 DEF NoObject, LineTypes, Objects
<1> QED BY <1>1, <1>2, <1>3, <1>4, <1>5 DEF Lines, Telling

\* One word more.
LEMMA OneMore ==
    ASSUME NEW w \in Seq(Words), NEW v \in Words
    PROVE  /\ Append(w, v) \in Seq(Words) /\ Append(w, v) # <<>>
           /\ Last(Append(w, v)) = v
           /\ Range(Append(w, v)) = Range(w) \cup {v}
<1> DEFINE t == Append(w, v)
<1>1. /\ Len(w) \in Nat /\ Len(t) = Len(w) + 1 /\ DOMAIN w = 1 .. Len(w) /\ DOMAIN t = 1 .. Len(w) + 1
      /\ t[Len(w) + 1] = v /\ \A i \in 1 .. Len(w) : t[i] = w[i]
      /\ t \in Seq(Words) /\ t # <<>>
  OBVIOUS
<1> HIDE DEF t
<1>2. Last(t) = v
  BY <1>1 DEF Last
<1>3. Range(t) = Range(w) \cup {v}
  <2>1. ASSUME NEW i \in 1 .. Len(w) + 1 PROVE t[i] \in Range(w) \cup {v}
    BY <1>1 DEF Range
  <2>2. ASSUME NEW i \in 1 .. Len(w) PROVE w[i] \in Range(t)
    <3>1. i \in DOMAIN t /\ t[i] = w[i]
      BY <1>1
    <3> QED BY <3>1 DEF Range
  <2>3. v \in Range(t)
    <3>1. Len(w) + 1 \in DOMAIN t
      BY <1>1
    <3> QED BY <1>1, <3>1 DEF Range
  <2> QED BY <1>1, <2>1, <2>2, <2>3 DEF Range
<1> QED BY <1>1, <1>2, <1>3 DEF t

\* A word that is not told leaves the words as they are.
LEMMA KeepWord ==
    ASSUME NEW w \in Seq(Words), NEW v \in Words
    PROVE  /\ Keep(w, v, Telling) = IF v \in {"", "false"} THEN w ELSE Append(w, v)
           /\ Keep(w, v, Telling) \in Seq(Words)
<1>1. v \in Telling <=> v \notin {"", "false"}
  BY DEF Telling, Words
<1> QED BY <1>1, OneMore DEF Keep

LEMMA KeepLater ==
    ASSUME NEW w \in Seq(Words), NEW a \in Seq(Words), NEW v \in Words
    PROVE  /\ Keep(a, v, Telling) \in Seq(Words)
           /\ w \o Keep(a, v, Telling) = Keep(w \o a, v, Telling)
<1>1. w \o Append(a, v) = Append(w \o a, v)
  BY AppendLater
<1> QED BY <1>1, KeepWord DEF Keep

\* continueState.setStatus, and what it has been told.
LEMMA StatusTells ==
    ASSUME NEW c \in Conts, NEW w \in Seq(Words), Tells(c, w), NEW v \in Telling \cup {""}
    PROVE  SetStatus(c, v) \in Conts /\ Tells(SetStatus(c, v), Keep(w, v, Telling))
<1>1. v \in Words
  BY DEF Words
<1>2. CASE v = ""
  BY <1>1, <1>2, KeepWord DEF SetStatus
<1>3. CASE v \in Telling
  <2>1. Keep(w, v, Telling) = Append(w, v)
    BY <1>1, <1>3, KeepWord DEF Telling
  <2>2. /\ SetStatus(c, v) \in Conts /\ SetStatus(c, v).last = v
        /\ SetStatus(c, v).finished = (c.finished \/ v = "FINISHED")
    BY <1>3 DEF SetStatus, Conts, Words, Telling
  <2>3. /\ Last(Append(w, v)) = v /\ Append(w, v) # <<>>
        /\ Range(Append(w, v)) = Range(w) \cup {v}
    BY <1>1, OneMore
  <2>4. v = "FINISHED" => SetStatus(c, v).finished
    BY <2>2
  <2>5. Tells(SetStatus(c, v), Append(w, v))
    BY <1>3, <2>2, <2>3, <2>4 DEF Tells, Telling
  <2> QED BY <2>1, <2>2, <2>5
<1> QED BY <1>2, <1>3

LEMMA AutoTells ==
    ASSUME NEW c \in Conts, NEW w \in Seq(Words), Tells(c, w), NEW auto \in BOOLEAN,
           NEW v \in {"", "false"}
    PROVE  /\ AutoContinue(c, auto) \in Conts
           /\ Tells(AutoContinue(c, auto), Keep(w, IF auto THEN "INCOMPLETE" ELSE v, Telling))
<1>1. "INCOMPLETE" \in Words /\ v \in Words
  BY DEF Words, Telling
<1>2. CASE auto
  <2>1. Keep(w, "INCOMPLETE", Telling) = Append(w, "INCOMPLETE")
    BY <1>1, KeepWord
  <2>2. /\ AutoContinue(c, auto) \in Conts /\ AutoContinue(c, auto).finished = c.finished
    BY <1>2 DEF AutoContinue, Conts
  <2>3. AutoContinue(c, auto).last = "AUTO_CONTINUE"
    BY <1>2 DEF AutoContinue, Conts
  <2>4. /\ Last(Append(w, "INCOMPLETE")) = "INCOMPLETE" /\ Append(w, "INCOMPLETE") # <<>>
        /\ Range(Append(w, "INCOMPLETE")) = Range(w) \cup {"INCOMPLETE"}
    BY <1>1, OneMore
  <2>5. Tells(AutoContinue(c, auto), Append(w, "INCOMPLETE"))
    BY <2>2, <2>3, <2>4 DEF Tells
  <2> QED BY <1>2, <2>1, <2>2, <2>5
<1>3. CASE ~auto
  BY <1>1, <1>3, KeepWord DEF AutoContinue
<1> QED BY <1>2, <1>3

\* observeDirectPatch.
PatchWord(q) == IF q.v = "true" THEN "INCOMPLETE" ELSE q.v

LEMMA PatchTells ==
    ASSUME NEW c \in Conts, NEW w \in Seq(Words), Tells(c, w), NEW q \in Patches
    PROVE  ObservePatch(c, q) \in Conts /\ Tells(ObservePatch(c, q), Keep(w, PatchWord(q), Telling))
<1>1. CASE q \in [p : {"status"}, v : Telling]
  <2>1. q.p = "status" /\ q.v \in Telling /\ PatchWord(q) = q.v
    BY <1>1 DEF PatchWord, Telling
  <2>2. ObservePatch(c, q) = SetStatus(c, q.v)
    BY <2>1 DEF ObservePatch
  <2> QED BY <2>1, <2>2, StatusTells
<1>2. CASE q \in [p : {"auto_continue"}, v : {"true", "false"}]
  <2>1. q.p = "auto_continue" /\ q.v \in {"true", "false"}
    BY <1>2
  <2>2. ObservePatch(c, q) = AutoContinue(c, q.v = "true")
    BY <2>1 DEF ObservePatch
  <2>3. PatchWord(q) = IF q.v = "true" THEN "INCOMPLETE" ELSE "false"
    BY <2>1 DEF PatchWord
  <2> DEFINE auto == q.v = "true"
  <2>4. auto \in BOOLEAN
    OBVIOUS
  <2> HIDE DEF auto
  <2>5. /\ AutoContinue(c, auto) \in Conts
        /\ Tells(AutoContinue(c, auto), Keep(w, IF auto THEN "INCOMPLETE" ELSE "false", Telling))
    BY <2>4, AutoTells
  <2> QED BY <2>2, <2>3, <2>5 DEF auto
<1> QED BY <1>1, <1>2 DEF Patches

LEMMA WordOfPatch == \A q \in Patches : PatchWord(q) \in Words
BY DEF Patches, PatchWord, Words, Telling

\* Whatever has been gathered, these words tell it: a way to the types.
LEMMA Witness ==
    /\ <<"INCOMPLETE">> \in Seq(Words)
    /\ \A c \in Conts : Tells(c, <<"INCOMPLETE">>)
<1> DEFINE w == <<"INCOMPLETE">>
<1>1. w \in Seq(Words) /\ w # <<>> /\ Len(w) = 1 /\ w[1] = "INCOMPLETE" /\ DOMAIN w = 1 .. 1
  BY DEF Words, Telling
<1> HIDE DEF w
<1>2. Last(w) = "INCOMPLETE" /\ "FINISHED" \notin Range(w)
  BY <1>1 DEF Last, Range
<1>3. \A c \in Conts : Tells(c, w)
  BY <1>1, <1>2 DEF Tells
<1> QED BY <1>1, <1>3 DEF w

\* observeBatchPatches is a loop.
LEMMA PatchesLoop ==
    ASSUME NEW c \in Conts, NEW qs \in Seq(Patches)
    PROVE  \E f : f = [i \in 0 .. Len(qs) |-> IF i = 0 THEN c ELSE ObservePatch(f[i - 1], qs[i])]
<1> DEFINE n == Len(qs)
           V == Conts
           step == [i \in Nat |-> [s \in V |-> IF i \in 1 .. n THEN ObservePatch(s, qs[i]) ELSE s]]
<1>1. \A s \in V, q \in Patches : ObservePatch(s, q) \in V
  BY Witness, PatchTells
<1>2. n \in Nat /\ c \in V /\ \A i \in 1 .. n : qs[i] \in Patches
  OBVIOUS
<1> HIDE DEF V, n
<1>3. step \in [Nat -> [V -> V]]
  BY <1>1, <1>2
<1>4. \A i \in 1 .. n, s \in V : step[i][s] = ObservePatch(s, qs[i])
  BY <1>2
<1> HIDE DEF step
<1>5. PICK f \in [0 .. n -> V] : Iterates(f, n, c, step)
  BY <1>2, <1>3, Recursion
<1>6. \A i \in 1 .. n : f[i] = ObservePatch(f[i - 1], qs[i])
  BY <1>2, <1>4, <1>5 DEF Iterates
<1>7. f = [i \in 0 .. n |-> IF i = 0 THEN c ELSE ObservePatch(f[i - 1], qs[i])]
  BY <1>2, <1>5, <1>6 DEF Iterates
<1> QED BY <1>7 DEF n

LEMMA PatchesNothing == \A c \in Conts : ObservePatches(c, <<>>) = c
<1> SUFFICES ASSUME NEW c \in Conts PROVE ObservePatches(c, <<>>) = c
  OBVIOUS
<1> DEFINE f == CHOOSE h : h = [i \in 0 .. Len(<<>>) |-> IF i = 0 THEN c ELSE ObservePatch(h[i - 1], <<>>[i])]
<1>1. <<>> \in Seq(Patches) /\ Len(<<>>) = 0
  OBVIOUS
<1>2. f = [i \in 0 .. Len(<<>>) |-> IF i = 0 THEN c ELSE ObservePatch(f[i - 1], <<>>[i])]
  <2>1. \A l \in Seq(Patches) :
          \E h : h = [i \in 0 .. Len(l) |-> IF i = 0 THEN c ELSE ObservePatch(h[i - 1], l[i])]
    BY PatchesLoop
  <2>2. \E h : h = [i \in 0 .. Len(<<>>) |-> IF i = 0 THEN c ELSE ObservePatch(h[i - 1], <<>>[i])]
    BY <1>1, <2>1
  <2> QED BY <2>2, Zenon
<1>3. ObservePatches(c, <<>>) = f[Len(<<>>)]
  BY DEF ObservePatches
<1> HIDE DEF f
<1> QED BY <1>1, <1>2, <1>3

LEMMA PatchesAppend ==
    ASSUME NEW c \in Conts, NEW qs \in Seq(Patches), NEW q \in Patches
    PROVE  ObservePatches(c, Append(qs, q)) = ObservePatch(ObservePatches(c, qs), q)
<1> DEFINE long == Append(qs, q)
           n == Len(qs)
           f == CHOOSE h : h = [i \in 0 .. Len(qs) |-> IF i = 0 THEN c ELSE ObservePatch(h[i - 1], qs[i])]
           g == CHOOSE h : h = [i \in 0 .. Len(long) |-> IF i = 0 THEN c ELSE ObservePatch(h[i - 1], long[i])]
<1>1. f = [i \in 0 .. Len(qs) |-> IF i = 0 THEN c ELSE ObservePatch(f[i - 1], qs[i])]
  BY PatchesLoop, Zenon
<1>2. ObservePatches(c, qs) = f[Len(qs)]
  BY DEF ObservePatches
<1>3. /\ long \in Seq(Patches) /\ n \in Nat /\ Len(long) = n + 1 /\ long[n + 1] = q
      /\ \A i \in 1 .. n : long[i] = qs[i]
  OBVIOUS
<1> HIDE DEF f, long
<1>4. g = [i \in 0 .. Len(long) |-> IF i = 0 THEN c ELSE ObservePatch(g[i - 1], long[i])]
  BY <1>3, PatchesLoop, Zenon
<1>5. ObservePatches(c, long) = g[Len(long)]
  BY DEF ObservePatches
<1> HIDE DEF g
<1>6. f[0] = g[0]
  BY <1>1, <1>3, <1>4
<1>7. \A i \in 1 .. n : f[i - 1] = g[i - 1] => f[i] = g[i]
  <2> SUFFICES ASSUME NEW i \in 1 .. n, f[i - 1] = g[i - 1] PROVE f[i] = g[i]
    OBVIOUS
  <2>1. f[i] = ObservePatch(f[i - 1], qs[i])
    BY <1>1, <1>3
  <2>2. g[i] = ObservePatch(g[i - 1], long[i])
    BY <1>3, <1>4
  <2> QED BY <1>3, <2>1, <2>2
<1>8. f[n] = g[n]
  <2>0. n \in Nat
    BY <1>3
  <2>1. SameTurns(n, f, g)
    BY <1>6, <1>7 DEF SameTurns
  <2> QED BY <2>0, <2>1, LoopsEnd
<1>9. g[n + 1] = ObservePatch(g[n], long[n + 1])
  BY <1>3, <1>4
<1> QED BY <1>2, <1>3, <1>5, <1>8, <1>9 DEF long

\* What the patches of a line say.
LEMMA OfPatchesAppend ==
    ASSUME NEW qs \in Seq(Patches), NEW q \in Patches
    PROVE  /\ OfPatches(qs) \in Seq(Words)
           /\ OfPatches(Append(qs, q)) = Append(OfPatches(qs), PatchWord(q))
<1>1. PatchWord(q) \in Words /\ \A i \in 1 .. Len(qs) : PatchWord(qs[i]) \in Words
  BY WordOfPatch
<1>2. OfPatches(qs) = [i \in 1 .. Len(qs) |-> PatchWord(qs[i])]
  BY DEF OfPatches, PatchWord
<1>3. OfPatches(Append(qs, q)) = [i \in 1 .. Len(qs) + 1 |-> PatchWord(Append(qs, q)[i])]
  BY DEF OfPatches, PatchWord
<1> QED BY <1>1, <1>2, <1>3

\* observeBatchPatches gathers no more than the patches say.
LEMMA PatchesTell ==
    ASSUME NEW c \in Conts, NEW w \in Seq(Words), Tells(c, w)
    PROVE  \A qs \in Seq(Patches) :
              /\ ObservePatches(c, qs) \in Conts
              /\ OfPatches(qs) \in Seq(Words)
              /\ Tells(ObservePatches(c, qs), w \o Among(OfPatches(qs), Telling))
<1> DEFINE Right(qs) == /\ ObservePatches(c, qs) \in Conts
                        /\ OfPatches(qs) \in Seq(Words)
                        /\ Tells(ObservePatches(c, qs), w \o Among(OfPatches(qs), Telling))
           T == {n \in Nat : \A qs \in Seq(Patches) : Len(qs) = n => Right(qs)}
<1>1. 0 \in T
  <2> SUFFICES ASSUME NEW qs \in Seq(Patches), Len(qs) = 0 PROVE Right(qs)
    OBVIOUS
  <2>1. qs = <<>>
    OBVIOUS
  <2>2. OfPatches(<<>>) = <<>>
    BY DEF OfPatches
  <2>3. w \o <<>> = w /\ <<>> \in Seq(Words)
    OBVIOUS
  <2> QED BY <2>1, <2>2, <2>3, PatchesNothing, AmongNothing
<1>2. ASSUME NEW n \in T PROVE n + 1 \in T
  <2> SUFFICES ASSUME NEW qs \in Seq(Patches), Len(qs) = n + 1 PROVE Right(qs)
    OBVIOUS
  <2>1. PICK us \in Seq(Patches), q \in Patches : qs = Append(us, q) /\ Len(us) = n
    BY LastTurn
  <2>2. Right(us)
    BY <2>1
  <2> DEFINE d == ObservePatches(c, us)
             said == Among(OfPatches(us), Telling)
             word == PatchWord(q)
  <2>3. ObservePatches(c, qs) = ObservePatch(d, q)
    BY <2>1, PatchesAppend
  <2>4. word \in Words
    BY WordOfPatch
  <2>5. OfPatches(qs) = Append(OfPatches(us), word) /\ OfPatches(us) \in Seq(Words)
    BY <2>1, OfPatchesAppend
  <2>6. said \in Seq(Words \cap Telling)
    BY <2>5, AmongType
  <2>7. said \in Seq(Words)
    BY <2>6
  <2>8. Among(OfPatches(qs), Telling) = Keep(said, word, Telling)
    BY <2>4, <2>5, AmongAppend
  <2>9. d \in Conts /\ Tells(d, w \o said)
    BY <2>2
  <2> HIDE DEF d, said, word
  <2>10. w \o Keep(said, word, Telling) = Keep(w \o said, word, Telling)
    BY <2>4, <2>7, KeepLater
  <2>0. w \o said \in Seq(Words)
    BY <2>7
  <2>11. ObservePatch(d, q) \in Conts /\ Tells(ObservePatch(d, q), Keep(w \o said, PatchWord(q), Telling))
    BY <2>0, <2>9, PatchTells
  <2>12. OfPatches(qs) \in Seq(Words)
    BY <2>4, <2>5
  <2> QED BY <2>3, <2>8, <2>10, <2>11, <2>12 DEF word
<1>3. T = Nat
  <2>1. T \in SUBSET Nat
    OBVIOUS
  <2> HIDE DEF T
  <2> QED BY <1>1, <1>2, <2>1, Induction
<1> QED BY <1>3

\* continueState.observe gathers no more than the line says.
LEMMA LineTells ==
    ASSUME NEW c \in Conts, NEW w \in Seq(Words), Tells(c, w), NEW l \in LineTypes
    PROVE  /\ Observe(c, l) \in Conts
           /\ OfLine(l) \in Seq(Words)
           /\ Tells(Observe(c, l), w \o Among(OfLine(l), Telling))
<1> DEFINE c0 == [c EXCEPT !.id = @ \/ l.id]
           c1 == ObservePatches(c0, l.patches)
           c2 == [c1 EXCEPT !.id = @ \/ l.object.id]
           c3 == SetStatus(c2, l.object.status)
           u == OfPatches(l.patches)
           w1 == w \o Among(u, Telling)
           auto == l.object.auto
           word == IF auto THEN "INCOMPLETE" ELSE ""
           w2 == Keep(w1, l.object.status, Telling)
<1>1. /\ l.id \in BOOLEAN /\ l.patches \in Seq(Patches) /\ l.object.id \in BOOLEAN
      /\ l.object.status \in Telling \cup {""} /\ auto \in BOOLEAN
  BY DEF LineTypes, Objects
<1>2. c0 \in Conts /\ Tells(c0, w)
  BY <1>1 DEF Conts, Tells
<1>3. c1 \in Conts /\ u \in Seq(Words) /\ Tells(c1, w1)
  <2> HIDE DEF c0
  <2> QED BY <1>1, <1>2, PatchesTell
<1>4. c2 \in Conts /\ Tells(c2, w1)
  <2> HIDE DEF c1, w1
  <2> QED BY <1>1, <1>3 DEF Conts, Tells
<1>5. Among(u, Telling) \in Seq(Words)
  <2>1. Among(u, Telling) \in Seq(Words \cap Telling)
    BY <1>3, AmongType
  <2> QED BY <2>1
<1>6. w1 \in Seq(Words) /\ l.object.status \in Words /\ word \in Words
  <2>1. w1 \in Seq(Words)
    <3> DEFINE told == Among(u, Telling)
    <3> HIDE DEF told
    <3>1. told \in Seq(Words)
      BY <1>5 DEF told
    <3>2. w \o told \in Seq(Words)
      BY <3>1
    <3> QED BY <3>2 DEF told
  <2> HIDE DEF w1
  <2> QED BY <1>1, <2>1 DEF Words, Telling
<1>7. c3 \in Conts /\ Tells(c3, w2) /\ w2 \in Seq(Words)
  <2> HIDE DEF c2, w1
  <2> QED BY <1>1, <1>4, <1>6, StatusTells, KeepWord
<1>8. AutoContinue(c3, auto) \in Conts /\ Tells(AutoContinue(c3, auto), Keep(w2, word, Telling))
  <2> HIDE DEF c3, w2, auto
  <2> QED BY <1>1, <1>7, AutoTells
<1>9. Observe(c, l) = AutoContinue(c3, auto)
  BY DEF Observe, ObserveObject
<1>10. OfLine(l) = Append(Append(u, l.object.status), word) /\ OfLine(l) \in Seq(Words)
  <2>1. OfLine(l) = u \o <<l.object.status, word>>
    BY DEF OfLine
  <2> HIDE DEF u, word
  <2> QED BY <1>3, <1>6, <2>1
<1>11. Among(OfLine(l), Telling) = Keep(Keep(Among(u, Telling), l.object.status, Telling), word, Telling)
  <2>1. Append(u, l.object.status) \in Seq(Words)
    <3> HIDE DEF u
    <3>1. u \in Seq(Words) /\ l.object.status \in Words
      BY <1>3, <1>6
    <3> QED BY <3>1, OneMore
  <2> HIDE DEF u, word
  <2>2. Among(Append(u, l.object.status), Telling) = Keep(Among(u, Telling), l.object.status, Telling)
    BY <1>3, <1>6, AmongAppend
  <2>3. Among(OfLine(l), Telling) = Keep(Among(Append(u, l.object.status), Telling), word, Telling)
    BY <1>6, <1>10, <2>1, AmongAppend
  <2> QED BY <2>2, <2>3
<1>12. w \o Among(OfLine(l), Telling) = Keep(w2, word, Telling)
  <2> DEFINE a == Among(u, Telling)
             b == Keep(a, l.object.status, Telling)
  <2>1. a \in Seq(Words)
    BY <1>5
  <2> HIDE DEF a, word
  <2>2. b \in Seq(Words) /\ w \o b = Keep(w \o a, l.object.status, Telling)
    BY <1>6, <2>1, KeepLater
  <2> HIDE DEF b
  <2>3. w \o Keep(b, word, Telling) = Keep(w \o b, word, Telling)
    BY <1>6, <2>2, KeepLater
  <2> QED BY <1>11, <2>2, <2>3 DEF a, b
<1> QED BY <1>8, <1>9, <1>10, <1>12

\* continueState.observe, line by line, is a loop.
LEMMA BodyLoop ==
    ASSUME NEW c \in Conts, NEW ls \in Seq(LineTypes)
    PROVE  \E f : f = [i \in 0 .. Len(ls) |-> IF i = 0 THEN c ELSE Observe(f[i - 1], ls[i])]
<1> DEFINE n == Len(ls)
           V == Conts
           step == [i \in Nat |-> [s \in V |-> IF i \in 1 .. n THEN Observe(s, ls[i]) ELSE s]]
<1>1. \A s \in V, l \in LineTypes : Observe(s, l) \in V
  BY Witness, LineTells
<1>2. n \in Nat /\ c \in V /\ \A i \in 1 .. n : ls[i] \in LineTypes
  OBVIOUS
<1> HIDE DEF V, n
<1>3. step \in [Nat -> [V -> V]]
  BY <1>1, <1>2
<1>4. \A i \in 1 .. n, s \in V : step[i][s] = Observe(s, ls[i])
  BY <1>2
<1> HIDE DEF step
<1>5. PICK f \in [0 .. n -> V] : Iterates(f, n, c, step)
  BY <1>2, <1>3, Recursion
<1>6. \A i \in 1 .. n : f[i] = Observe(f[i - 1], ls[i])
  BY <1>2, <1>4, <1>5 DEF Iterates
<1>7. f = [i \in 0 .. n |-> IF i = 0 THEN c ELSE Observe(f[i - 1], ls[i])]
  BY <1>2, <1>5, <1>6 DEF Iterates
<1> QED BY <1>7 DEF n

LEMMA BodyNothing == \A c \in Conts : ObserveBody(c, <<>>) = c
<1> SUFFICES ASSUME NEW c \in Conts PROVE ObserveBody(c, <<>>) = c
  OBVIOUS
<1> DEFINE f == CHOOSE h : h = [i \in 0 .. Len(<<>>) |-> IF i = 0 THEN c ELSE Observe(h[i - 1], <<>>[i])]
<1>1. <<>> \in Seq(LineTypes) /\ Len(<<>>) = 0
  OBVIOUS
<1>2. f = [i \in 0 .. Len(<<>>) |-> IF i = 0 THEN c ELSE Observe(f[i - 1], <<>>[i])]
  <2>1. \A l \in Seq(LineTypes) : \E h : h = [i \in 0 .. Len(l) |-> IF i = 0 THEN c ELSE Observe(h[i - 1], l[i])]
    BY BodyLoop
  <2>2. \E h : h = [i \in 0 .. Len(<<>>) |-> IF i = 0 THEN c ELSE Observe(h[i - 1], <<>>[i])]
    BY <1>1, <2>1
  <2> QED BY <2>2, Zenon
<1>3. ObserveBody(c, <<>>) = f[Len(<<>>)]
  BY DEF ObserveBody
<1> HIDE DEF f
<1> QED BY <1>1, <1>2, <1>3

LEMMA BodyAppend ==
    ASSUME NEW c \in Conts, NEW ls \in Seq(LineTypes), NEW l \in LineTypes
    PROVE  ObserveBody(c, Append(ls, l)) = Observe(ObserveBody(c, ls), l)
<1> DEFINE long == Append(ls, l)
           n == Len(ls)
           f == CHOOSE h : h = [i \in 0 .. Len(ls) |-> IF i = 0 THEN c ELSE Observe(h[i - 1], ls[i])]
           g == CHOOSE h : h = [i \in 0 .. Len(long) |-> IF i = 0 THEN c ELSE Observe(h[i - 1], long[i])]
<1>1. f = [i \in 0 .. Len(ls) |-> IF i = 0 THEN c ELSE Observe(f[i - 1], ls[i])]
  BY BodyLoop, Zenon
<1>2. ObserveBody(c, ls) = f[Len(ls)]
  BY DEF ObserveBody
<1>3. /\ long \in Seq(LineTypes) /\ n \in Nat /\ Len(long) = n + 1 /\ long[n + 1] = l
      /\ \A i \in 1 .. n : long[i] = ls[i]
  OBVIOUS
<1> HIDE DEF f, long
<1>4. g = [i \in 0 .. Len(long) |-> IF i = 0 THEN c ELSE Observe(g[i - 1], long[i])]
  BY <1>3, BodyLoop, Zenon
<1>5. ObserveBody(c, long) = g[Len(long)]
  BY DEF ObserveBody
<1> HIDE DEF g
<1>6. f[0] = g[0]
  BY <1>1, <1>3, <1>4
<1>7. \A i \in 1 .. n : f[i - 1] = g[i - 1] => f[i] = g[i]
  <2> SUFFICES ASSUME NEW i \in 1 .. n, f[i - 1] = g[i - 1] PROVE f[i] = g[i]
    OBVIOUS
  <2>1. f[i] = Observe(f[i - 1], ls[i])
    BY <1>1, <1>3
  <2>2. g[i] = Observe(g[i - 1], long[i])
    BY <1>3, <1>4
  <2> QED BY <1>3, <2>1, <2>2
<1>8. f[n] = g[n]
  <2>0. n \in Nat
    BY <1>3
  <2>1. SameTurns(n, f, g)
    BY <1>6, <1>7 DEF SameTurns
  <2> QED BY <2>0, <2>1, LoopsEnd
<1>9. g[n + 1] = Observe(g[n], long[n + 1])
  BY <1>3, <1>4
<1> QED BY <1>2, <1>3, <1>5, <1>8, <1>9 DEF long

\* One line more.
LEMMA ToldAppend ==
    ASSUME NEW ls \in Seq(LineTypes), NEW l \in LineTypes
    PROVE  /\ Told(ls) \in Seq(Words)
           /\ Told(Append(ls, l)) = Told(ls) \o Among(OfLine(l), Telling)
<1> DEFINE each == [i \in 1 .. Len(ls) |-> OfLine(ls[i])]
<1>1. \A x \in LineTypes : OfLine(x) \in Seq(Words)
  <2>1. PICK c : c \in Conts
    <3>1. NoCont \in Conts
      BY DEF NoCont, Conts, Words
    <3> QED BY <3>1
  <2> QED BY <2>1, Witness, LineTells
<1>2. Len(ls) \in Nat /\ \A i \in 1 .. Len(ls) : ls[i] \in LineTypes
  OBVIOUS
<1>3. each \in Seq(Seq(Words))
  BY <1>1, <1>2
<1>4. [i \in DOMAIN ls |-> OfLine(ls[i])] = each
  OBVIOUS
<1>5. [i \in DOMAIN Append(ls, l) |-> OfLine(Append(ls, l)[i])] = Append(each, OfLine(l))
  <2> DEFINE b == Append(each, OfLine(l))
  <2>1. /\ b = [i \in 1 .. Len(ls) + 1 |-> b[i]]
        /\ \A i \in 1 .. Len(ls) : b[i] = OfLine(ls[i])
        /\ b[Len(ls) + 1] = OfLine(l)
    <3> DEFINE o == OfLine(l)
               e == Append(each, o)
    <3>1. o \in Seq(Words) /\ Len(each) = Len(ls) /\ \A i \in 1 .. Len(ls) : each[i] = OfLine(ls[i])
      BY <1>1, <1>2
    <3> HIDE DEF o, each
    <3>2. /\ e \in Seq(Seq(Words)) /\ Len(e) = Len(ls) + 1 /\ e[Len(ls) + 1] = o
          /\ \A i \in 1 .. Len(ls) : e[i] = each[i]
      BY <1>2, <1>3, <3>1
    <3> HIDE DEF e
    <3>3. e = [i \in 1 .. Len(ls) + 1 |-> e[i]]
      BY <3>2
    <3> QED BY <3>1, <3>2, <3>3 DEF o, e
  <2>2. /\ DOMAIN Append(ls, l) = 1 .. Len(ls) + 1 /\ Append(ls, l)[Len(ls) + 1] = l
        /\ \A i \in 1 .. Len(ls) : Append(ls, l)[i] = ls[i]
    BY <1>2
  <2> HIDE DEF b
  <2>3. \A i \in 1 .. Len(ls) + 1 : OfLine(Append(ls, l)[i]) = b[i]
    BY <1>2, <2>1, <2>2
  <2>4. [i \in 1 .. Len(ls) + 1 |-> OfLine(Append(ls, l)[i])] = [i \in 1 .. Len(ls) + 1 |-> b[i]]
    BY <2>3
  <2> QED BY <2>1, <2>2, <2>4 DEF b
<1> HIDE DEF each
<1>6. /\ Joined(each) \in Seq(Words) /\ OfLine(l) \in Seq(Words)
      /\ Joined(Append(each, OfLine(l))) = Joined(each) \o OfLine(l)
  BY <1>1, <1>3, JoinedType, JoinedAppend
<1>7. Told(Append(ls, l)) = Among(Joined(each), Telling) \o Among(OfLine(l), Telling)
  <2>1. Told(Append(ls, l)) = Among(Joined(each) \o OfLine(l), Telling)
    BY <1>5, <1>6, Zenon DEF Told
  <2> QED BY <1>6, <2>1, AmongConcat
<1>8. Told(ls) = Among(Joined(each), Telling)
  BY <1>4 DEF Told
<1>9. Among(Joined(each), Telling) \in Seq(Words \cap Telling)
  BY <1>6, AmongType
<1>10. Told(ls) \in Seq(Words)
  BY <1>8, <1>9
<1> QED BY <1>7, <1>8, <1>10

\* continueState at the beginning of a body.
Fresh(c) == c \in {s \in Conts : s.last = "" /\ s.finished = FALSE}

LEMMA FreshFacts ==
    ASSUME NEW c, Fresh(c)
    PROVE  c \in Conts /\ Tells(c, <<>>)
<1>1. c \in Conts /\ c.last = ""
  BY Zenon DEF Fresh
<1>2. Range(<<>>) = {}
  BY DEF Range
<1>3. c.last \notin {"INCOMPLETE", "AUTO_CONTINUE"}
  BY <1>1
<1> QED BY <1>1, <1>2, <1>3 DEF Tells

\* streamBodyWithContinueState: from a fresh continueState, a body of any length leaves no more
\* than it says.
LEMMA BodyTells ==
    ASSUME NEW c, Fresh(c)
    PROVE  \A ls \in Seq(LineTypes) : ObserveBody(c, ls) \in Conts /\ Tells(ObserveBody(c, ls), Told(ls))
<1> DEFINE Right(ls) == ObserveBody(c, ls) \in Conts /\ Tells(ObserveBody(c, ls), Told(ls))
           T == {n \in Nat : \A ls \in Seq(LineTypes) : Len(ls) = n => Right(ls)}
<1>1. 0 \in T
  <2> SUFFICES ASSUME NEW ls \in Seq(LineTypes), Len(ls) = 0 PROVE Right(ls)
    OBVIOUS
  <2>1. ls = <<>>
    OBVIOUS
  <2>2. Told(<<>>) = <<>>
    <3>1. [i \in DOMAIN <<>> |-> OfLine(<<>>[i])] = <<>>
      <4>1. DOMAIN <<>> = 1 .. 0
        OBVIOUS
      <4>2. [i \in 1 .. 0 |-> OfLine(<<>>[i])] = <<>>
        OBVIOUS
      <4> QED BY <4>1, <4>2
    <3> QED BY <3>1, JoinedNothing, AmongNothing DEF Told
  <2> QED BY <2>1, <2>2, FreshFacts, BodyNothing
<1>2. ASSUME NEW n \in T PROVE n + 1 \in T
  <2> SUFFICES ASSUME NEW ls \in Seq(LineTypes), Len(ls) = n + 1 PROVE Right(ls)
    OBVIOUS
  <2>1. PICK us \in Seq(LineTypes), l \in LineTypes : ls = Append(us, l) /\ Len(us) = n
    BY LastTurn
  <2>2. Right(us)
    BY <2>1
  <2>3. ObserveBody(c, ls) = Observe(ObserveBody(c, us), l)
    BY <2>1, FreshFacts, BodyAppend
  <2>4. Told(us) \in Seq(Words) /\ Told(ls) = Told(us) \o Among(OfLine(l), Telling)
    BY <2>1, ToldAppend
  <2> QED BY <2>2, <2>3, <2>4, LineTells
<1>3. T = Nat
  <2>1. T \in SUBSET Nat
    OBVIOUS
  <2> HIDE DEF T
  <2> QED BY <1>1, <1>2, <2>1, Induction
<1> QED BY <1>3

\* continueState.prepareForNextRound is complete: a body always finds it as it was at first.
ContFresh == Fresh(cont)

LEMMA BodiesTyped == Bodies \subseteq Seq(LineTypes)
<1> SUFFICES ASSUME NEW n \in 0 .. MaxLines, NEW b \in [1 .. n -> Lines] PROVE b \in Seq(LineTypes)
  BY DEF Bodies
<1>1. n \in Nat
  BY CompletionAssumption
<1>2. \A i \in 1 .. n : b[i] \in LineTypes
  BY LinesTyped
<1> QED BY <1>1, <1>2

LEMMA NoContFresh == Fresh(NoCont) /\ NoCont.rounds = 0
BY DEF Fresh, NoCont, Conts, Words

LEMMA ReadContinues ==
    ContFresh /\ ReadBody => ContFresh' /\ (cont'.rounds > cont.rounds => cont'.said = "unfinished")
<1> SUFFICES ASSUME ContFresh, ReadBody
             PROVE  ContFresh' /\ (cont'.rounds > cont.rounds => cont'.said = "unfinished")
  OBVIOUS
<1>1. PICK body \in Bodies :
         LET c == [ObserveBody(cont, body) EXCEPT !.said = Said[body]] IN
         \/ ShouldContinue(c) /\ c.rounds < MaxRounds /\ CallContinue(c)
         \/ EndAnswer(c)
  BY DEF ReadBody
<1> DEFINE d == ObserveBody(cont, body)
           c == [d EXCEPT !.said = Said[body]]
<1>2. body \in Seq(LineTypes)
  BY BodiesTyped
<1>3. d \in Conts /\ Tells(d, Told(body))
  BY <1>2, BodyTells DEF ContFresh
<1>0. cont.rounds \in Nat
  <2>1. cont \in Conts
    BY FreshFacts DEF ContFresh
  <2> QED BY <2>1 DEF Conts
<1>4. Said[body] = Verdict(Told(body)) /\ Said[body] \in {"", "finished", "unfinished"}
  BY DEF Said, Verdict
<1> HIDE DEF d
<1>5. c \in Conts /\ c.said = Said[body] /\ c.last = d.last /\ c.finished = d.finished
  BY <1>3, <1>4 DEF Conts
<1>6. CASE ShouldContinue(c) /\ CallContinue(c)
  <2>1. ~d.finished /\ d.last \in {"INCOMPLETE", "AUTO_CONTINUE"}
    BY <1>5, <1>6 DEF ShouldContinue
  <2>2. Said[body] = "unfinished"
    BY <1>3, <1>4, <2>1 DEF Tells, Verdict
  <2> HIDE DEF c
  <2>3. c.id \in BOOLEAN /\ c.rounds \in Nat /\ c.said \in {"", "finished", "unfinished"}
    BY <1>5 DEF Conts
  <2>4. cont' = [last |-> "", finished |-> FALSE, id |-> c.id, rounds |-> c.rounds + 1, said |-> c.said]
    BY <1>5, <1>6 DEF CallContinue, PrepareForNextRound, Conts
  <2>5. Fresh(cont')
    <3> DEFINE e == cont'
    <3>1. e = [last |-> "", finished |-> FALSE, id |-> c.id, rounds |-> c.rounds + 1, said |-> c.said]
      BY <2>4
    <3>2. c.rounds + 1 \in Nat
      <4> DEFINE n == c.rounds
      <4>1. n \in Nat
        BY <2>3
      <4> HIDE DEF n
      <4>2. n + 1 \in Nat
        BY <4>1
      <4> QED BY <4>2 DEF n
    <3>5. "" \in Words
      BY DEF Words
    <3> HIDE DEF e
    <3>3. e \in Conts
      BY <2>3, <3>1, <3>2, <3>5 DEF Conts
    <3>4. e.last = "" /\ e.finished = FALSE
      BY <3>1
    <3> QED BY <3>3, <3>4 DEF Fresh, e
  <2>6. cont'.said = "unfinished"
    BY <1>5, <2>2, <2>4
  <2> QED BY <2>5, <2>6 DEF ContFresh
<1>7. CASE EndAnswer(c)
  <2> HIDE DEF c
  <2>1. cont' = [last |-> "", finished |-> FALSE, id |-> c.id, rounds |-> 0, said |-> ""] /\ c.id \in BOOLEAN
    BY <1>5, <1>7 DEF EndAnswer, NoCont, Conts
  <2>2. Fresh(cont')
    BY <2>1 DEF Fresh, Conts, Words
  <2>3. cont'.rounds = 0
    BY <2>1
  <2> QED BY <1>0, <2>2, <2>3 DEF ContFresh
<1> QED BY <1>1, <1>6, <1>7 DEF d

LEMMA ContinueSteps ==
    ContFresh /\ [Next]_vars => ContFresh' /\ (cont'.rounds > cont.rounds => cont'.said = "unfinished")
<1> SUFFICES ASSUME ContFresh, [Next]_vars
             PROVE  ContFresh' /\ (cont'.rounds > cont.rounds => cont'.said = "unfinished")
  OBVIOUS
<1>1. cont.rounds \in Nat
  <2>1. cont \in Conts
    BY FreshFacts DEF ContFresh
  <2> QED BY <2>1 DEF Conts
<1>2. CASE UNCHANGED cont
  <2>1. ContFresh' /\ cont'.rounds = cont.rounds
    BY <1>2 DEF ContFresh
  <2> QED BY <1>1, <2>1
<1>3. CASE ReadBody
  BY <1>3, ReadContinues
<1>4. CASE cont' = NoCont
  <2>1. ContFresh'
    BY <1>4, NoContFresh DEF ContFresh
  <2>2. cont'.rounds = 0
    BY <1>4 DEF NoCont
  <2> QED BY <1>1, <2>1, <2>2
<1>5. CallCompletion => UNCHANGED cont \/ cont' = NoCont
  BY DEF CallCompletion
<1>6. /\ CreateSession => UNCHANGED cont
      /\ GetPow => UNCHANGED cont
      /\ UploadFile => UNCHANGED cont
      /\ WaitForFile => UNCHANGED cont
      /\ FireSegment => UNCHANGED cont
      /\ Collect => UNCHANGED cont
      /\ AutoDelete => UNCHANGED cont
  BY DEF CreateSession, GetPow, UploadFile, WaitForFile, FireSegment, Collect, AutoDelete, reading
<1>7. UNCHANGED vars => UNCHANGED cont
  BY DEF vars
<1> QED BY <1>2, <1>3, <1>4, <1>5, <1>6, <1>7 DEF Next

\* An answer is continued only when the body just read calls it unfinished in the end, and
\* nowhere finished, for bodies of any length: continueState remembers no more than the body
\* says, and nothing of the bodies before (prepareForNextRound).
THEOREM UnfinishedIsContinued == Spec => ContinuesUnfinished
<1>1. Init => ContFresh
  BY NoContFresh DEF Init, ContFresh
<1>2. ContFresh /\ [Next]_vars => ContFresh' /\ [cont'.rounds > cont.rounds => cont'.said = "unfinished"]_vars
  BY ContinueSteps
<1> QED BY <1>1, <1>2, PTL DEF Spec, ContinuesUnfinished
=============================================================================
