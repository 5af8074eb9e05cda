------------------------------ MODULE MfsProofs ------------------------------
(***************************************************************************)
(* The mutable file system, proved in five parts.                         *)
(*                                                                        *)
(*   1. The lock.  It does what index.js says, whatever the operations do  *)
(*      to the tree; who puts a root while holding it replaces the one it *)
(*      has read; without timeouts each step is atomic.                   *)
(*   2. The tree.  What the functions of MfsTree are, and that what a step *)
(*      stores has below it only what is stored.                          *)
(*   3. The blockstore always holds the whole tree.                       *)
(*   4. A step changes the tree on the path of its call only.             *)
(*   5. mv never removes the last of what it moves.                       *)
(*                                                                        *)
(* Parts 3 to 5 say in their hypotheses which requests they are about.  The *)
(* instance of the run that checks ChangesAreConfined and MvKeepsItsSource *)
(* satisfies them; RootIntact is also checked with calls that do not flush. *)
(***************************************************************************)
EXTENDS MFS, MorticeProofs, WellFoundedInduction

StepOps == {"mkdir", "rm", "link", "cp", "touch", "chmod", "ensureDir", "stat"}

(* A list of steps.  (Steps are no set of their own: they carry nodes.) *)
IsSteps(s) == (\E S : s \in Seq(S)) /\ \A k \in 1 .. Len(s) : s[k].op \in StepOps

LEMMA EmptySteps == IsSteps(<<>>)
<1>1. <<>> \in Seq({}) /\ Len(<<>>) = 0
  OBVIOUS
<1> QED
  BY <1>1 DEF IsSteps

LEMMA OneStep ==
  ASSUME NEW s, s.op \in StepOps
  PROVE  IsSteps(<<s>>) /\ <<s>> # <<>>
<1> DEFINE list == <<s>>
<1>1. list \in Seq({s}) /\ list # <<>> /\ \A k \in 1 .. Len(list) : list[k] = s
  OBVIOUS
<1> HIDE DEF list
<1>2. IsSteps(list) /\ list # <<>>
  BY <1>1 DEF IsSteps
<1> QED
  BY <1>2 DEF list

LEMMA TwoSteps ==
  ASSUME NEW s, NEW t, s.op \in StepOps, t.op \in StepOps
  PROVE  IsSteps(<<s, t>>) /\ <<s, t>> # <<>>
<1> DEFINE list == <<s, t>>
<1>1. list \in Seq({s, t}) /\ list # <<>> /\ \A k \in 1 .. Len(list) : list[k] \in {s, t}
  OBVIOUS
<1> HIDE DEF list
<1>2. IsSteps(list) /\ list # <<>>
  BY <1>1 DEF IsSteps
<1> QED
  BY <1>2 DEF list

LEMMA RestOfSteps ==
  ASSUME NEW s, IsSteps(s), s # <<>>
  PROVE  /\ Head(s).op \in StepOps /\ IsSteps(Tail(s))
         /\ (Len(s) = 1 <=> Tail(s) = <<>>)
<1>1. PICK S : s \in Seq(S)
  BY DEF IsSteps
<1>2. /\ Len(s) \in Nat \ {0} /\ Head(s) = s[1] /\ Tail(s) \in Seq(S)
      /\ Len(Tail(s)) = Len(s) - 1
      /\ \A k \in 1 .. Len(Tail(s)) : Tail(s)[k] = s[k + 1]
  BY <1>1
<1>3. \A k \in 1 .. Len(Tail(s)) : k + 1 \in 1 .. Len(s)
  BY <1>2
<1>4. IsSteps(Tail(s))
  BY <1>2, <1>3 DEF IsSteps
<1>5. Head(s).op \in StepOps
  BY <1>2 DEF IsSteps
<1>6. Len(s) = 1 <=> Tail(s) = <<>>
  <2>1. Tail(s) = <<>> <=> Len(Tail(s)) = 0
    BY <1>2, EmptySeq
  <2> QED
    BY <1>2, <2>1
<1> QED
  BY <1>4, <1>5, <1>6

LEMMA MoreSteps ==
  ASSUME NEW s, IsSteps(s), s # <<>>, NEW t, IsSteps(t)
  PROVE  IsSteps(s \o t) /\ s \o t # <<>>
<1>1. PICK S : s \in Seq(S)
  BY DEF IsSteps
<1>2. PICK T : t \in Seq(T)
  BY DEF IsSteps
<1>3. s \in Seq(S \cup T) /\ t \in Seq(S \cup T)
  BY <1>1, <1>2, SeqMonotonic
<1>4. s \o t \in Seq(S \cup T) /\ Len(s \o t) = Len(s) + Len(t) /\ Len(s) \in Nat \ {0} /\ Len(t) \in Nat
      /\ \A k \in 1 .. Len(s) + Len(t) :
           (s \o t)[k] = IF k <= Len(s) THEN s[k] ELSE t[k - Len(s)]
  BY <1>1, <1>3, ConcatProperties
<1>5. \A k \in 1 .. Len(s) + Len(t) : (s \o t)[k].op \in StepOps
  <2> SUFFICES ASSUME NEW k \in 1 .. Len(s) + Len(t) PROVE (s \o t)[k].op \in StepOps
    OBVIOUS
  <2>1. CASE k <= Len(s)
    BY <1>4, <2>1 DEF IsSteps
  <2>2. CASE ~(k <= Len(s))
    <3>1. k - Len(s) \in 1 .. Len(t)
      BY <1>4, <2>2
    <3> QED
      BY <1>4, <2>2, <3>1 DEF IsSteps
  <2> QED
    BY <2>1, <2>2
<1> QED
  BY <1>4, <1>5 DEF IsSteps

-----------------------------------------------------------------------------
(* Steps that take the place of another one (chmod -R, cp and write with   *)
(* missing directories).                                                  *)
LEMMA CommitsKind ==
  ASSUME NEW bottom, NEW dir, NEW updated, NEW put, NEW flush
  PROVE  Commits(bottom, dir, updated, put, flush).kind = "commit"
  BY DEF Commits, NoEffect

LEMMA LinkKind ==
  ASSUME NEW tree, NEW s
  PROVE  LinkEffect(tree, s).kind \in {"commit", "fail"}
  BY CommitsKind DEF LinkEffect, Fails, NoEffect
LEMMA NoExpansion ==
  ASSUME NEW tree, NEW s
  PROVE  /\ MkdirEffect(tree, s).kind # "expand" /\ RmEffect(tree, s).kind # "expand"
         /\ TouchEffect(tree, s).kind # "expand" /\ StatEffect(tree, s).kind # "expand"
<1>1. MkdirEffect(tree, s).kind # "expand"
  BY CommitsKind DEF MkdirEffect, Commits, Fails, Skips, NoEffect
<1>2. RmEffect(tree, s).kind # "expand"
  BY CommitsKind DEF RmEffect, Fails, NoEffect
<1>3. TouchEffect(tree, s).kind # "expand"
  <2>1. \A n : LinkEffect(tree, n).kind # "expand"
    BY LinkKind
  <2>2. \A n, put : [LinkEffect(tree, n) EXCEPT !.put = put].kind # "expand"
    BY <2>1 DEF LinkEffect, Commits, Fails, NoEffect
  <2> QED
    BY <2>1, <2>2 DEF TouchEffect
<1>4. StatEffect(tree, s).kind # "expand"
  BY DEF StatEffect, Skips, Fails, NoEffect
<1> QED
  BY <1>1, <1>2, <1>3, <1>4

LEMMA ExpansionIsSteps ==
  ASSUME NEW tree, NEW s, s.op \in StepOps, Effect(tree, s).kind = "expand"
  PROVE  IsSteps(Effect(tree, s).steps) /\ Effect(tree, s).steps # <<>>
<1>1. s.op \in {"link", "cp", "chmod", "ensureDir"}
  BY NoExpansion DEF StepOps, Effect
<1>2. CASE s.op = "link"
  BY <1>2, LinkKind DEF Effect
<1>3. CASE s.op = "ensureDir"
  <2>1. Effect(tree, s) = Expands(<<MkdirStep(s.loc, s.opts)>>, {})
    BY <1>3 DEF Effect, EnsureDirEffect, Skips, NoEffect
  <2>2. Effect(tree, s).steps = <<MkdirStep(s.loc, s.opts)>>
    BY <2>1 DEF Expands, NoEffect
  <2>3. MkdirStep(s.loc, s.opts).op \in StepOps
    BY DEF MkdirStep, StepOps
  <2> QED
    BY <2>2, <2>3, OneStep
<1>4. CASE s.op = "cp"
  <2> DEFINE made == MkdirStep(Directory(s.loc), s.opts)
             link == LinkStep(s.loc, Resolve(tree, s.from), FALSE, s.opts)
  <2>1. Effect(tree, s) = Expands(<<made, link>>, {})
    <3>1. Effect(tree, s) = CpEffect(tree, s)
      BY <1>4 DEF Effect
    <3>2. Fails.kind # "expand" /\ \A n : LinkEffect(tree, n).kind # "expand"
      BY LinkKind DEF Fails, NoEffect
    <3> QED
      BY <3>1, <3>2 DEF CpEffect
  <2>2. Effect(tree, s).steps = <<made, link>>
    BY <2>1 DEF Expands, NoEffect
  <2>3. made.op \in StepOps /\ link.op \in StepOps
    BY DEF MkdirStep, LinkStep, StepOps
  <2> QED
    BY <2>2, <2>3, TwoSteps
<1>5. CASE s.op = "chmod"
  <2> DEFINE old == Resolve(tree, s.loc)
             node == IF s.opts.recursive THEN WithMeta(old, s.meta) ELSE [old EXCEPT !.meta = s.meta]
             linked == LinkEffect(tree, LinkStep(s.loc, node, FALSE, s.opts))
             expanded ==
               Expands(<<RmStep(s.loc, s.opts), CpStep(IpfsPath(node, <<>>), s.loc, s.opts)>>, NodesOf(node))
  <2>1. Effect(tree, s) = expanded
    <3>1. Effect(tree, s) =
            CASE ~Exists(old) -> Fails
              [] Exists(old) /\ s.opts.recursive -> expanded
              [] OTHER -> IF s.opts.flush THEN [linked EXCEPT !.put = @ \cup {node}] ELSE linked
      BY <1>5 DEF Effect, ChmodEffect
    <3>2. Fails.kind # "expand" /\ linked.kind # "expand"
      BY LinkKind DEF Fails, NoEffect
    <3>3. [linked EXCEPT !.put = @ \cup {node}].kind # "expand"
      BY LinkKind, ZenonT(60) DEF LinkEffect, Commits, Fails, NoEffect
    <3> HIDE DEF linked, expanded, node, old
    <3> QED
      BY <3>1, <3>2, <3>3
  <2>2. Effect(tree, s).steps = <<RmStep(s.loc, s.opts), CpStep(IpfsPath(node, <<>>), s.loc, s.opts)>>
    BY <2>1 DEF Expands, NoEffect
  <2> HIDE DEF node
  <2>3. RmStep(s.loc, s.opts).op \in StepOps /\ CpStep(IpfsPath(node, <<>>), s.loc, s.opts).op \in StepOps
    BY DEF RmStep, CpStep, StepOps
  <2> QED
    BY <2>2, <2>3, TwoSteps
<1> QED
  BY <1>1, <1>2, <1>3, <1>4, <1>5

LEMMA RequestSteps ==
  ASSUME NEW r \in Requests, r.op \notin {"stat", "write"}
  PROVE  IsSteps(StepsOf(r)) /\ StepsOf(r) # <<>>
<1> USE DEF StepOps, MkdirStep, RmStep, CpStep, TouchStep, ChmodStep, StatStep
<1>1. r.op \in {"flush", "mkdir", "rm", "cp", "mv", "touch", "chmod"}
  BY MfsAssumption
<1>2. CASE r.op = "mv"
  <2> DEFINE copy == CpStep(r.from, r.loc, r.opts)
             remove == RmStep(r.from, [r.opts EXCEPT !.recursive = TRUE])
  <2>1. StepsOf(r) = <<copy, remove>> /\ copy.op \in StepOps /\ remove.op \in StepOps
    BY <1>2 DEF StepsOf
  <2> QED
    BY <2>1, TwoSteps
<1>3. CASE r.op # "mv"
  <2>1. \E s : s.op \in StepOps /\ StepsOf(r) = <<s>>
    <3>1. CASE r.op = "mkdir"
      BY <3>1 DEF StepsOf
    <3>2. CASE r.op = "rm"
      BY <3>2 DEF StepsOf
    <3>3. CASE r.op = "cp"
      BY <3>3 DEF StepsOf
    <3>4. CASE r.op = "touch"
      BY <3>4 DEF StepsOf
    <3>5. CASE r.op = "chmod"
      BY <3>5 DEF StepsOf
    <3>6. CASE r.op = "flush"
      BY <3>6 DEF StepsOf
    <3> QED
      BY <1>1, <1>3, <3>1, <3>2, <3>3, <3>4, <3>5, <3>6
  <2> QED
    BY <2>1, OneStep
<1> QED
  BY <1>2, <1>3
-----------------------------------------------------------------------------
(* The invariant: what every variable is, and what is true of each call.   *)

Types ==
  /\ queue \in Seq(Batches(Calls))
  /\ at \in [Calls -> Phases]
  /\ outcome \in [Calls -> Outcomes]
  /\ stray \in BOOLEAN
  /\ DOMAIN request = Calls /\ DOMAIN steps = Calls /\ DOMAIN base = Calls

(* A call that is inside holds the lock unless it has timed out; what it   *)
(* has read is the root still unless a call without the lock has put one. *)
CallInv(c) ==
  /\ IsSteps(steps[c])
  /\ at[c] \in {"wait", "load", "check", "put"} <=> steps[c] # <<>>
  /\ at[c] # "idle" => request[c] \in Requests
  /\ outcome[c] = "none" => at[c] = "idle"
  /\ Inside(c) /\ ~Aborted(c) => WriteHeld(queue, c)
  /\ at[c] \in {"check", "put"} => Effect(base[c], Head(steps[c])).kind = "commit"
  /\ at[c] \in {"check", "put"} /\ ~Aborted(c) /\ ~stray => base[c] = root

IInv == Types /\ \A c \in Calls : CallInv(c)

LEMMA InitIInv == Init => IInv
<1> SUFFICES ASSUME Init PROVE IInv
  OBVIOUS
<1>1. Types
  <2>1. queue \in Seq(Batches(Calls))
    BY DEF Init
  <2>2. at \in [Calls -> Phases] /\ outcome \in [Calls -> Outcomes] /\ stray \in BOOLEAN
    BY DEF Init, Phases, Outcomes
  <2>3. DOMAIN request = Calls /\ DOMAIN steps = Calls /\ DOMAIN base = Calls
    BY DEF Init
  <2> QED
    BY <2>1, <2>2, <2>3 DEF Types
<1>2. \A c \in Calls : CallInv(c)
  BY EmptySteps DEF Init, CallInv, Inside
<1> QED
  BY <1>1, <1>2 DEF IInv

(* A step of one call, as the others see it: the root is the same or, if   *)
(* the call does not hold the lock, it is known to be a stray.            *)
Undisturbing(c) ==
  /\ Types'
  /\ \A d \in Calls \ {c} :
       /\ at'[d] = at[d] /\ outcome'[d] = outcome[d] /\ request'[d] = request[d]
       /\ steps'[d] = steps[d] /\ base'[d] = base[d]
  /\ queue' \in {queue, QueueRead(queue, c), QueueWrite(queue, c), Released(queue, c)}
  /\ (root' = root /\ stray' = stray) \/ stray' = (stray \/ ~Held(queue, c))

LEMMA OthersKeep ==
  ASSUME Types, NEW c \in Calls, NEW d \in Calls \ {c}, CallInv(d), Undisturbing(c)
  PROVE  CallInv(d)'
<1>1. WriteHeld(queue, d) => WriteHeld(queue', d)
  <2>1. queue \in Seq(Batches(Calls)) /\ d # c
    BY DEF Types
  <2>2. WriteHeld(queue, d) => /\ WriteHeld(QueueRead(queue, c), d)
                              /\ WriteHeld(QueueWrite(queue, c), d)
                              /\ WriteHeld(Released(queue, c), d)
    BY <2>1, QueueReadKeeps, QueueWriteKeeps, ReleasedKeeps
  <2> QED
    BY <2>2 DEF Undisturbing
<1>2. (Inside(d) <=> Inside(d)') /\ (Aborted(d) <=> Aborted(d)')
  BY DEF Undisturbing, Inside, Aborted
<1>3. at[d] \in {"check", "put"} /\ ~Aborted(d) /\ ~stray' => base[d] = root'
  <2> SUFFICES ASSUME at[d] \in {"check", "put"}, ~Aborted(d), ~stray' PROVE base[d] = root'
    OBVIOUS
  <2>1. WriteHeld(queue, d)
    BY DEF CallInv, Inside
  <2>2. ~Held(queue, c)
    BY <2>1 DEF WriteHeld, WriteBatch, Held
  <2>3. root' = root /\ ~stray
    BY <2>2 DEF Undisturbing, Types
  <2> QED
    BY <2>3 DEF CallInv
<1> QED
  BY <1>1, <1>2, <1>3 DEF Undisturbing, CallInv

(* How a step or a call ends. *)
LEMMA EndsKeep ==
  ASSUME IInv, NEW c \in Calls, at[c] # "idle",
         NEW result \in {"ok", "failed"}, Ends(c, result),
         (stray' = stray /\ root' = root) \/ stray' = (stray \/ ~Held(queue, c))
  PROVE  Undisturbing(c) /\ CallInv(c)'
<1>1. queue' \in Seq(Batches(Calls))
  BY ReleasedKeeps DEF Ends, IInv, Types
<1>2. Types'
  BY <1>1 DEF Ends, Aborted, IInv, Types, Phases, Outcomes
<1>3. at'[c] = "idle" /\ steps'[c] = <<>> /\ outcome'[c] # "none"
  BY DEF Ends, IInv, Types
<1>4. CallInv(c)'
  BY <1>3, EmptySteps DEF CallInv, Inside
<1>5. Undisturbing(c)
  BY <1>2 DEF Undisturbing, Ends, IInv, Types
<1> QED
  BY <1>4, <1>5

LEMMA StepDoneKeeps ==
  ASSUME IInv, NEW c \in Calls, Inside(c), StepDone(c),
         Aborted(c) \/ WriteHeld(queue, c),
         (stray' = stray /\ root' = root) \/ stray' = (stray \/ ~Held(queue, c))
  PROVE  Undisturbing(c) /\ CallInv(c)'
<1>1. steps[c] # <<>> /\ IsSteps(steps[c])
  BY DEF IInv, CallInv, Inside
<1>2. CASE Len(steps[c]) = 1
  BY <1>2, EndsKeep DEF StepDone, Inside
<1>3. CASE Len(steps[c]) # 1
  <2>1. /\ steps' = [steps EXCEPT ![c] = Tail(@)] /\ at' = [at EXCEPT ![c] = "load"]
        /\ UNCHANGED <<queue, request, base, outcome>>
    BY <1>3 DEF StepDone
  <2>2. IsSteps(Tail(steps[c])) /\ Tail(steps[c]) # <<>>
    BY <1>1, <1>3, RestOfSteps
  <2>3. Types'
    BY <2>1 DEF IInv, Types, Phases
  <2>4. CallInv(c)'
    BY <2>1, <2>2 DEF IInv, Types, CallInv, Inside, Aborted
  <2>5. Undisturbing(c)
    BY <2>1, <2>3 DEF Undisturbing, IInv, Types
  <2> QED
    BY <2>4, <2>5
<1> QED
  BY <1>2, <1>3
(* The operations up to the acquisition of the write lock. *)
LEMMA BeginKeeps ==
  ASSUME IInv, NEW c \in Calls, NEW r \in Requests, Begin(c, r)
  PROVE  Undisturbing(c) /\ CallInv(c)'
<1>1. at[c] = "idle" /\ steps[c] = <<>>
  BY DEF Begin, IInv, CallInv
<1>2. queue' \in Seq(Batches(Calls)) /\ queue' \in {QueueRead(queue, c), QueueWrite(queue, c)}
  BY QueueReadKeeps, QueueWriteKeeps, SMTT(60) DEF Begin, IInv, Types
<1>3. outcome' = [outcome EXCEPT ![c] = "pending"] /\ request' = [request EXCEPT ![c] = r]
      /\ UNCHANGED <<root, base, stray>>
  BY DEF Begin
<1>4. CASE at' = [at EXCEPT ![c] = "read"] /\ UNCHANGED steps
  <2>1. Types'
    BY <1>2, <1>3, <1>4 DEF IInv, Types, Phases, Outcomes
  <2>2. CallInv(c)'
    BY <1>1, <1>3, <1>4, EmptySteps DEF IInv, Types, CallInv, Inside
  <2>3. Undisturbing(c)
    BY <1>2, <1>3, <1>4, <2>1 DEF Undisturbing, IInv, Types
  <2> QED
    BY <2>2, <2>3
<1>5. CASE /\ r.op \notin {"stat", "write"}
           /\ at' = [at EXCEPT ![c] = "wait"] /\ steps' = [steps EXCEPT ![c] = StepsOf(r)]
  <2>1. Types'
    BY <1>2, <1>3, <1>5 DEF IInv, Types, Phases, Outcomes
  <2>2. IsSteps(StepsOf(r)) /\ StepsOf(r) # <<>>
    BY <1>5, RequestSteps
  <2>3. CallInv(c)'
    BY <1>3, <1>5, <2>2 DEF IInv, Types, CallInv, Inside
  <2>4. Undisturbing(c)
    BY <1>2, <1>3, <1>5, <2>1 DEF Undisturbing, IInv, Types
  <2> QED
    BY <2>3, <2>4
<1> QED
  BY <1>4, <1>5 DEF Begin

LEMMA StatKeeps ==
  ASSUME IInv, NEW c \in Calls, Stat(c)
  PROVE  Undisturbing(c) /\ CallInv(c)'
<1>1. at[c] # "idle" /\ (Ends(c, "ok") \/ Ends(c, "failed")) /\ UNCHANGED <<root, stray>>
  BY DEF Stat
<1> QED
  BY <1>1, EndsKeep

LEMMA ReadDestinationKeeps ==
  ASSUME IInv, NEW c \in Calls, ReadDestination(c)
  PROVE  Undisturbing(c) /\ CallInv(c)'
<1>1. at[c] = "read" /\ UNCHANGED <<root, stray>> /\ steps[c] = <<>>
  BY DEF ReadDestination, IInv, CallInv
<1>2. CASE Ends(c, "failed")
  BY <1>1, <1>2, EndsKeep
<1>3. CASE /\ queue' = Released(queue, c) /\ at' = [at EXCEPT ![c] = "import"]
           /\ base' = [base EXCEPT ![c] = root] /\ UNCHANGED <<request, steps, outcome>>
  <2>1. queue' \in Seq(Batches(Calls))
    BY <1>3, ReleasedKeeps DEF IInv, Types
  <2>2. Types'
    BY <1>1, <1>3, <2>1 DEF IInv, Types, Phases
  <2>3. CallInv(c)'
    BY <1>1, <1>3, EmptySteps DEF IInv, Types, CallInv, Inside
  <2>4. Undisturbing(c)
    BY <1>1, <1>3, <2>2 DEF Undisturbing, IInv, Types
  <2> QED
    BY <2>3, <2>4
<1> QED
  BY <1>2, <1>3 DEF ReadDestination

LEMMA ImportKeeps ==
  ASSUME IInv, NEW c \in Calls, Import(c)
  PROVE  Undisturbing(c) /\ CallInv(c)'
<1> DEFINE ensured == EnsureDirStep(Directory(request[c].loc), request[c].opts)
           linked == LinkStep(request[c].loc, Written(base[c], request[c]), TRUE, request[c].opts)
<1>1. /\ at[c] = "import" /\ queue' = QueueWrite(queue, c) /\ at' = [at EXCEPT ![c] = "wait"]
      /\ steps' = [steps EXCEPT ![c] = <<ensured, linked>>]
      /\ UNCHANGED <<root, request, base, outcome, stray>>
  BY DEF Import
<1>2. IsSteps(<<ensured, linked>>) /\ <<ensured, linked>> # <<>>
  <2>1. ensured.op \in StepOps /\ linked.op \in StepOps
    BY DEF EnsureDirStep, LinkStep, StepOps
  <2> QED
    BY <2>1, TwoSteps
<1> HIDE DEF ensured, linked
<1>3. queue' \in Seq(Batches(Calls))
  BY <1>1, QueueWriteKeeps DEF IInv, Types
<1>4. Types'
  BY <1>1, <1>3 DEF IInv, Types, Phases
<1>5. CallInv(c)'
  BY <1>1, <1>2 DEF IInv, Types, CallInv, Inside
<1>6. Undisturbing(c)
  BY <1>1, <1>4 DEF Undisturbing, IInv, Types
<1> QED
  BY <1>5, <1>6

LEMMA EnterKeeps ==
  ASSUME IInv, NEW c \in Calls, Enter(c)
  PROVE  Undisturbing(c) /\ CallInv(c)'
<1>1. Types'
  BY DEF Enter, IInv, Types, Phases
<1>2. CallInv(c)'
  BY DEF Enter, IInv, Types, CallInv, Inside
<1>3. Undisturbing(c)
  BY <1>1, SMTT(60) DEF Enter, Undisturbing, IInv, Types
<1> QED
  BY <1>2, <1>3

(* A step, from the reading of the root to the putting of the new one. *)
LEMMA LoadKeeps ==
  ASSUME IInv, NEW c \in Calls, Load(c)
  PROVE  Undisturbing(c) /\ CallInv(c)'
<1> DEFINE effect == Effect(root, Head(steps[c]))
<1>1. /\ at[c] = "load" /\ ~Aborted(c) /\ UNCHANGED <<root, stray>>
      /\ steps[c] # <<>> /\ IsSteps(steps[c]) /\ WriteHeld(queue, c)
  BY DEF Load, LoadFrom, IInv, CallInv, Inside
<1>2. CASE Ends(c, "failed")
  BY <1>1, <1>2, EndsKeep
<1>3. CASE StepDone(c)
  BY <1>1, <1>3, StepDoneKeeps DEF Inside
<1>4. CASE /\ effect.kind = "expand"
           /\ steps' = [steps EXCEPT ![c] = effect.steps \o Tail(@)]
           /\ UNCHANGED <<queue, at, request, base, outcome>>
  <2>1. IsSteps(Tail(steps[c])) /\ Head(steps[c]).op \in StepOps
    BY <1>1, RestOfSteps
  <2>2. IsSteps(effect.steps) /\ effect.steps # <<>>
    BY <1>4, <2>1, ExpansionIsSteps
  <2> HIDE DEF effect
  <2>3. IsSteps(effect.steps \o Tail(steps[c])) /\ effect.steps \o Tail(steps[c]) # <<>>
    BY <2>1, <2>2, MoreSteps
  <2>4. Types'
    BY <1>1, <1>4 DEF IInv, Types
  <2>5. CallInv(c)'
    BY <1>1, <1>4, <2>3 DEF IInv, Types, CallInv, Inside, Aborted
  <2>6. Undisturbing(c)
    BY <1>1, <1>4, <2>4 DEF Undisturbing, IInv, Types
  <2> QED
    BY <2>5, <2>6
<1>5. CASE /\ effect.kind = "commit"
           /\ at' = [at EXCEPT ![c] = "check"] /\ base' = [base EXCEPT ![c] = root]
           /\ UNCHANGED <<queue, request, steps, outcome>>
  <2>1. Types'
    BY <1>1, <1>5 DEF IInv, Types, Phases
  <2>2. CallInv(c)'
    BY <1>1, <1>5 DEF IInv, Types, CallInv, Inside, Aborted
  <2>3. Undisturbing(c)
    BY <1>1, <1>5, <2>1 DEF Undisturbing, IInv, Types
  <2> QED
    BY <2>2, <2>3
<1> QED
  BY <1>2, <1>3, <1>4, <1>5 DEF Load, LoadFrom

LEMMA CheckKeeps ==
  ASSUME IInv, NEW c \in Calls, Check(c)
  PROVE  Undisturbing(c) /\ CallInv(c)'
<1>1. at[c] = "check" /\ UNCHANGED <<root, blocks, stray>>
  BY DEF Check
<1>2. CASE Ends(c, "failed")
  BY <1>1, <1>2, EndsKeep
<1>3. CASE /\ ~Aborted(c) /\ at' = [at EXCEPT ![c] = "put"]
           /\ UNCHANGED <<queue, request, steps, base, outcome>>
  <2>1. Types'
    BY <1>1, <1>3 DEF IInv, Types, Phases
  <2>2. CallInv(c)'
    BY <1>1, <1>3 DEF IInv, Types, CallInv, Inside, Aborted
  <2>3. Undisturbing(c)
    BY <1>1, <1>3, <2>1 DEF Undisturbing, IInv, Types
  <2> QED
    BY <2>2, <2>3
<1> QED
  BY <1>2, <1>3 DEF Check

LEMMA PutKeeps ==
  ASSUME IInv, NEW c \in Calls, Put(c)
  PROVE  Undisturbing(c) /\ CallInv(c)'
<1>1. Inside(c) /\ StepDone(c) /\ stray' = (stray \/ ~Held(queue, c))
  BY DEF Put, Inside
<1>2. Aborted(c) \/ WriteHeld(queue, c)
  BY <1>1 DEF IInv, CallInv
<1> QED
  BY <1>1, <1>2, StepDoneKeeps

LEMMA TimeoutKeeps ==
  ASSUME IInv, NEW c \in Calls, Timeout(c) \/ NestedTimeout(c)
  PROVE  Undisturbing(c) /\ CallInv(c)'
<1>1. CASE Timeout(c)
  <2>1. /\ outcome[c] = "pending" /\ outcome' = [outcome EXCEPT ![c] = "timeout"]
        /\ UNCHANGED <<root, at, request, steps, base, stray>>
        /\ queue' \in {queue, Released(queue, c)}
    BY <1>1 DEF Timeout
  <2>2. queue' \in Seq(Batches(Calls))
    BY <2>1, ReleasedKeeps DEF IInv, Types
  <2>3. Types'
    BY <2>1, <2>2 DEF IInv, Types, Outcomes
  <2>4. CallInv(c)'
    BY <2>1 DEF IInv, Types, CallInv, Inside, Aborted
  <2>5. Undisturbing(c)
    BY <2>1, <2>3 DEF Undisturbing, IInv, Types
  <2> QED
    BY <2>4, <2>5
<1>2. CASE NestedTimeout(c)
  <2>1. /\ Aborted(c) /\ Inside(c) /\ queue' = Released(queue, c)
        /\ steps' = [steps EXCEPT ![c] = <<Head(@)>>]
        /\ UNCHANGED <<root, at, request, base, outcome, stray>>
    BY <1>2 DEF NestedTimeout
  <2>2. Head(steps[c]).op \in StepOps
    BY <2>1, RestOfSteps DEF IInv, CallInv, Inside
  <2>3. IsSteps(<<Head(steps[c])>>) /\ <<Head(steps[c])>> # <<>> /\ Head(<<Head(steps[c])>>) = Head(steps[c])
    BY <2>2, OneStep
  <2>4. queue' \in Seq(Batches(Calls))
    BY <2>1, ReleasedKeeps DEF IInv, Types
  <2>5. Types'
    BY <2>1, <2>4 DEF IInv, Types
  <2>6. CallInv(c)'
    BY <2>1, <2>3 DEF IInv, Types, CallInv, Inside, Aborted
  <2>7. Undisturbing(c)
    BY <2>1, <2>5 DEF Undisturbing, IInv, Types
  <2> QED
    BY <2>6, <2>7
<1> QED
  BY <1>1, <1>2

LEMMA LoadAbortedKeeps ==
  ASSUME IInv, NEW c \in Calls, LoadAborted(c)
  PROVE  Undisturbing(c) /\ CallInv(c)'
<1>1. at[c] # "idle" /\ Ends(c, "failed") /\ UNCHANGED <<root, stray>>
  BY DEF LoadAborted
<1> QED
  BY <1>1, EndsKeep

LEMMA StepKeeps ==
  ASSUME IInv, NEW c \in Calls,
         (\E r \in Requests : Begin(c, r)) \/ Advance(c) \/ Timeout(c) \/ NestedTimeout(c)
  PROVE  Undisturbing(c) /\ CallInv(c)'
BY BeginKeeps, StatKeeps, ReadDestinationKeeps, ImportKeeps, EnterKeeps, LoadAbortedKeeps,
   LoadKeeps, CheckKeeps, PutKeeps, TimeoutKeeps DEF Advance

LEMMA CrashKeeps == IInv /\ Crash => IInv'
<1> SUFFICES ASSUME IInv, Crash PROVE IInv'
  OBVIOUS
<1>1. /\ at' = [c \in Calls |-> "idle"] /\ steps' = [c \in Calls |-> <<>>]
      /\ base' = [c \in Calls |-> NoNode] /\ queue' = <<>> /\ UNCHANGED <<root, request, stray>>
      /\ outcome' = [c \in Calls |-> IF outcome[c] = "pending" THEN "crashed" ELSE outcome[c]]
  BY DEF Crash
<1>2. queue' \in Seq(Batches(Calls))
  BY <1>1
<1>3. Types'
  BY <1>1, <1>2 DEF IInv, Types, Phases, Outcomes
<1>4. \A c \in Calls : CallInv(c)'
  BY <1>1, EmptySteps DEF CallInv, Inside
<1> QED
  BY <1>3, <1>4 DEF IInv

LEMMA StepIInv == IInv /\ [Next]_vars => IInv'
<1> SUFFICES ASSUME IInv, [Next]_vars PROVE IInv'
  OBVIOUS
<1>1. ASSUME NEW c \in Calls,
             (\E r \in Requests : Begin(c, r)) \/ Advance(c) \/ Timeout(c) \/ NestedTimeout(c)
      PROVE  IInv'
  <2>1. Undisturbing(c) /\ CallInv(c)'
    BY <1>1, StepKeeps
  <2>2. \A d \in Calls \ {c} : CallInv(d)'
    BY <2>1, OthersKeep DEF IInv
  <2> QED
    BY <2>1, <2>2 DEF IInv, Undisturbing
<1>2. CASE Crash
  BY <1>2, CrashKeeps
<1>3. CASE UNCHANGED vars
  BY <1>3 DEF vars, callVars, IInv, Types, CallInv, Inside, Aborted
<1> QED
  BY <1>1, <1>2, <1>3 DEF Next

LEMMA AlwaysIInv == Spec => []IInv
<1> QED
  BY InitIInv, StepIInv, PTL DEF Spec

-----------------------------------------------------------------------------
(* The type invariant of the MFS, and that a call inside has a step to do. *)
THEOREM TypeCorrect == Spec => []TypeOK
<1>1. IInv => TypeOK
  BY DEF IInv, Types, CallInv, Inside, TypeOK
<1> QED
  BY <1>1, AlwaysIInv, PTL

(* Of the operations that change the MFS one at a time is between taking   *)
(* the write lock and releasing it, unless it has timed out (index.js).   *)
THEOREM Serial == Spec => []InSeries
<1>1. IInv => InSeries
  BY WriterIsAlone DEF IInv, CallInv, InSeries
<1> QED
  BY <1>1, AlwaysIInv, PTL

(* No root is overwritten by one that was built from an older root, until  *)
(* a call that had timed out has put one (update-mfs-root.js).            *)
THEOREM NoLostUpdate == Spec => []NoStaleRoot
<1>1. IInv => NoStaleRoot
  BY DEF IInv, CallInv, NoStaleRoot
<1> QED
  BY <1>1, AlwaysIInv, PTL

-----------------------------------------------------------------------------
(* With timeouts.  A call that has lost the lock is nowhere in the queue,  *)
(* and one that holds it, timed out or not, still has the root it has read *)
(* as its base, unless a root was put without the lock.                   *)
CallLined(c) ==
  /\ Once(queue, c)
  /\ at[c] \in {"idle", "import"} => Absent(queue, c)
  /\ at[c] \in {"wait", "load", "check", "put"} => OnlyWrites(queue, c)
  /\ Inside(c) => AtFront(queue, c)
  /\ at[c] # "idle" /\ Aborted(c) /\ request[c].op # "write" => Inside(c) /\ Absent(queue, c)
  /\ at[c] \in {"check", "put"} /\ Held(queue, c) /\ ~stray => base[c] = root

Lined == \A c \in Calls : CallLined(c)

LEMMA LinedInit == Init => Lined
<1> SUFFICES ASSUME Init, NEW c \in Calls PROVE CallLined(c)
  BY DEF Lined
<1>1. queue = <<>> /\ Len(queue) = 0 /\ at[c] = "idle"
  BY DEF Init
<1>2. Absent(queue, c)
  BY <1>1 DEF Absent
<1> QED
  BY <1>1, <1>2, AbsentIsAnything DEF CallLined, Inside

(* A call that is nowhere in the queue any more. *)
LEMMA AbsentIsLined ==
  ASSUME NEW c \in Calls, Absent(queue', c), queue' \in Seq(Batches(Calls)),
         at'[c] # "idle" /\ Aborted(c)' /\ request'[c].op # "write" => Inside(c)'
  PROVE  CallLined(c)'
<1>1. ~Held(queue', c)
  <2>1. queue' # <<>> => 1 \in 1 .. Len(queue') /\ Head(queue') = queue'[1]
    OBVIOUS
  <2> QED
    BY <2>1 DEF Held, Absent
<1>2. Once(queue', c) /\ OnlyWrites(queue', c) /\ AtFront(queue', c)
  BY AbsentIsAnything
<1> QED
  BY <1>1, <1>2 DEF CallLined

LEMMA OthersStayLined ==
  ASSUME Types, Lined, NEW c \in Calls, NEW d \in Calls \ {c}, Undisturbing(c)
  PROVE  CallLined(d)'
<1>1. queue \in Seq(Batches(Calls)) /\ queue' \in Seq(Batches(Calls)) /\ CallLined(d)
  BY DEF Types, Undisturbing, Lined
<1>2. PICK by \in {0, 1} : Moved(queue, queue', c, by)
  <2>1. Moved(queue, QueueRead(queue, c), c, 0) /\ Moved(queue, QueueWrite(queue, c), c, 0)
    BY <1>1, QueueReadMoves, QueueWriteMoves
  <2>2. \E by \in {0, 1} : Moved(queue, Released(queue, c), c, by)
    BY <1>1, ReleasedMoves
  <2>3. Moved(queue, queue, c, 0)
    <3>1. \A i \in 1 .. Len(queue) : i + 0 = i
      BY <1>1
    <3> QED
      BY <3>1 DEF Moved
  <2> QED
    BY <2>1, <2>2, <2>3 DEF Undisturbing
<1>3. /\ Absent(queue, d) => Absent(queue', d)
      /\ OnlyWrites(queue, d) => OnlyWrites(queue', d)
      /\ AtFront(queue, d) => AtFront(queue', d)
      /\ Once(queue, d) => Once(queue', d)
      /\ AtFront(queue, d) /\ Held(queue', d) => Held(queue, d)
  BY <1>1, <1>2, MovedKeeps
<1>4. (Inside(d) <=> Inside(d)') /\ (Aborted(d) <=> Aborted(d)')
  BY DEF Undisturbing, Inside, Aborted
<1>5. ASSUME at[d] \in {"check", "put"}, Held(queue', d), ~stray' PROVE base[d] = root'
  <2>1. Held(queue, d) /\ OnlyWrites(queue, d)
    BY <1>1, <1>3, <1>5 DEF CallLined, Inside
  <2>2. WriteHeld(queue, d)
    BY <1>1, <2>1, WritersHoldToWrite
  <2>3. ~Held(queue, c)
    BY <2>2 DEF WriteHeld, WriteBatch, Held
  <2>4. root' = root /\ ~stray
    BY <1>5, <2>3 DEF Undisturbing, Types
  <2> QED
    BY <1>1, <1>5, <2>1, <2>4 DEF CallLined
<1> QED
  BY <1>1, <1>3, <1>4, <1>5 DEF CallLined, Undisturbing

(* A call that ends, or loses the lock, has left the queue. *)
LEMMA ReleasedIsLined ==
  ASSUME NEW c \in Calls, queue \in Seq(Batches(Calls)), queue' \in Seq(Batches(Calls)),
         AtFront(queue, c), queue' = Released(queue, c),
         at'[c] # "idle" /\ Aborted(c)' /\ request'[c].op # "write" => Inside(c)'
  PROVE  CallLined(c)'
<1>1. Absent(queue', c)
  BY ReleasedMoves
<1> QED
  BY <1>1, AbsentIsLined

LEMMA EndsIsLined ==
  ASSUME Types, Types', NEW c \in Calls, AtFront(queue, c), NEW result, Ends(c, result)
  PROVE  CallLined(c)'
<1>1. at'[c] = "idle" /\ queue' = Released(queue, c)
  BY DEF Ends, Types
<1> QED
  BY <1>1, ReleasedIsLined DEF Types

LEMMA StepDoneIsLined ==
  ASSUME Types, Types', NEW c \in Calls, CallLined(c), Inside(c), StepDone(c)
  PROVE  CallLined(c)'
<1>1. CASE Len(steps[c]) = 1
  BY <1>1, EndsIsLined DEF StepDone, CallLined
<1>2. CASE Len(steps[c]) # 1
  <2>1. at'[c] = "load" /\ UNCHANGED <<queue, request, outcome>>
    BY <1>2 DEF StepDone, Types
  <2> QED
    BY <2>1 DEF CallLined, Inside, Aborted
<1> QED
  BY <1>1, <1>2

LEMMA OwnStepLined ==
  ASSUME IInv, Types', NEW c \in Calls, CallLined(c),
         (\E r \in Requests : Begin(c, r)) \/ Advance(c) \/ Timeout(c) \/ NestedTimeout(c)
  PROVE  CallLined(c)'
<1>1. queue \in Seq(Batches(Calls)) /\ queue' \in Seq(Batches(Calls)) /\ Types
  BY DEF IInv, Types
<1>2. Held(queue, c) => AtFront(queue, c)
  BY <1>1, HoldersAreAtFront DEF CallLined
<1>3. ASSUME NEW r \in Requests, Begin(c, r) PROVE CallLined(c)'
  <2>1. Absent(queue, c)
    BY <1>3 DEF Begin, IInv, CallInv, CallLined
  <2>2. ~Aborted(c)'
    BY <1>3 DEF Begin, Aborted, IInv, Types
  <2>3. CASE queue' = QueueRead(queue, c) /\ at' = [at EXCEPT ![c] = "read"]
    <3>1. Once(queue', c) /\ at'[c] = "read"
      BY <1>1, <2>1, <2>3, QueueReadMoves DEF Types
    <3> QED
      BY <2>2, <3>1 DEF CallLined, Inside
  <2>4. CASE queue' = QueueWrite(queue, c) /\ at' = [at EXCEPT ![c] = "wait"]
    <3>1. Once(queue', c) /\ OnlyWrites(queue', c) /\ at'[c] = "wait"
      BY <1>1, <2>1, <2>4, QueueWriteMoves DEF Types
    <3> QED
      BY <2>2, <3>1 DEF CallLined, Inside
  <2> QED
    BY <1>3, <2>3, <2>4 DEF Begin
<1>4. CASE Stat(c)
  BY <1>1, <1>2, <1>4, EndsIsLined, HoldersHold DEF Stat
<1>5. CASE ReadDestination(c)
  <2>1. AtFront(queue, c)
    BY <1>2, <1>5, HoldersHold DEF ReadDestination
  <2>2. CASE Ends(c, "failed")
    BY <1>1, <2>1, <2>2, EndsIsLined
  <2>3. CASE queue' = Released(queue, c) /\ UNCHANGED request
    <3>1. request'[c].op = "write"
      BY <1>5, <2>3 DEF ReadDestination
    <3> QED
      BY <1>1, <2>1, <2>3, <3>1, ReleasedIsLined
  <2> QED
    BY <1>5, <2>2, <2>3 DEF ReadDestination
<1>6. CASE Import(c)
  <2>1. /\ at[c] = "import" /\ at'[c] = "wait" /\ queue' = QueueWrite(queue, c)
        /\ UNCHANGED <<request, outcome>>
    BY <1>1, <1>6 DEF Import, Types
  <2>2. Absent(queue, c) /\ (Aborted(c) => request[c].op = "write")
    BY <2>1 DEF CallLined, Inside
  <2>3. Once(queue', c) /\ OnlyWrites(queue', c)
    BY <1>1, <2>1, <2>2, QueueWriteMoves
  <2> QED
    BY <2>1, <2>2, <2>3 DEF CallLined, Inside, Aborted
<1>7. CASE Enter(c)
  <2>1. at[c] = "wait" /\ at'[c] = "load" /\ UNCHANGED <<queue, request, outcome>>
    BY <1>1, <1>7 DEF Enter, Types
  <2>2. AtFront(queue, c) /\ (Aborted(c) => request[c].op = "write")
    BY <1>2, <1>7, <2>1, HoldersHold DEF Enter, CallLined, Inside
  <2> QED
    BY <2>1, <2>2 DEF CallLined, Inside, Aborted
<1>8. CASE LoadAborted(c)
  BY <1>1, <1>8, EndsIsLined DEF LoadAborted, CallLined, Inside
<1>9. CASE Load(c)
  <2>1. Inside(c) /\ UNCHANGED <<root, stray>>
    BY <1>9 DEF Load, LoadFrom, Inside
  <2>2. CASE Ends(c, "failed")
    BY <1>1, <2>1, <2>2, EndsIsLined DEF CallLined
  <2>3. CASE StepDone(c)
    BY <1>1, <2>1, <2>3, StepDoneIsLined
  <2>4. CASE at[c] = "load" /\ UNCHANGED <<queue, at, request, base, outcome>>
    BY <2>1, <2>4 DEF CallLined, Inside, Aborted
  <2>5. CASE /\ at' = [at EXCEPT ![c] = "check"] /\ base' = [base EXCEPT ![c] = root]
             /\ UNCHANGED <<queue, request, steps, outcome>>
    <3>1. at'[c] = "check" /\ base'[c] = root' /\ Inside(c)'
      BY <1>1, <2>1, <2>5 DEF Types, Inside
    <3> QED
      BY <2>1, <2>5, <3>1 DEF CallLined, Inside, Aborted
  <2> QED
    BY <1>9, <2>2, <2>3, <2>4, <2>5 DEF Load, LoadFrom
<1>10. CASE Check(c)
  <2>1. at[c] = "check" /\ UNCHANGED <<root, stray>>
    BY <1>10 DEF Check
  <2>2. CASE Ends(c, "failed")
    BY <1>1, <2>1, <2>2, EndsIsLined DEF CallLined, Inside
  <2>3. CASE at' = [at EXCEPT ![c] = "put"] /\ UNCHANGED <<queue, request, steps, base, outcome>>
    <3>1. at'[c] = "put"
      BY <1>1, <2>3 DEF Types
    <3> QED
      BY <2>1, <2>3, <3>1 DEF CallLined, Inside, Aborted
  <2> QED
    BY <1>10, <2>2, <2>3 DEF Check
<1>11. CASE Put(c)
  BY <1>1, <1>11, StepDoneIsLined DEF Put, Inside
<1>12. CASE Timeout(c)
  <2>1. /\ outcome[c] = "pending" /\ outcome' = [outcome EXCEPT ![c] = "timeout"]
        /\ UNCHANGED <<root, at, request, steps, base, stray>>
    BY <1>12 DEF Timeout
  <2>2. CASE request[c].op = "write" /\ UNCHANGED queue
    BY <2>1, <2>2 DEF CallLined, Inside
  <2>3. CASE request[c].op # "write" /\ Inside(c) /\ queue' = Released(queue, c)
    BY <1>1, <2>1, <2>3, ReleasedIsLined DEF CallLined, Inside
  <2> QED
    BY <1>12, <2>2, <2>3 DEF Timeout
<1>13. CASE NestedTimeout(c)
  BY <1>1, <1>13, ReleasedIsLined DEF NestedTimeout, CallLined, Inside
<1> QED
  BY <1>3, <1>4, <1>5, <1>6, <1>7, <1>8, <1>9, <1>10, <1>11, <1>12, <1>13 DEF Advance

LEMMA StepLined == IInv /\ Lined /\ [Next]_vars => Lined'
<1> SUFFICES ASSUME IInv, Lined, [Next]_vars PROVE Lined'
  OBVIOUS
<1>1. ASSUME NEW c \in Calls,
             (\E r \in Requests : Begin(c, r)) \/ Advance(c) \/ Timeout(c) \/ NestedTimeout(c)
      PROVE  Lined'
  <2>1. Undisturbing(c) /\ Types /\ Types'
    BY <1>1, StepKeeps DEF Undisturbing, IInv
  <2>2. CallLined(c)'
    BY <1>1, <2>1, OwnStepLined DEF Lined
  <2>3. \A d \in Calls \ {c} : CallLined(d)'
    BY <2>1, OthersStayLined
  <2> QED
    BY <2>2, <2>3 DEF Lined
<1>2. CASE Crash
  <2> SUFFICES ASSUME NEW c \in Calls PROVE CallLined(c)'
    BY DEF Lined
  <2>1. queue' = <<>> /\ queue' \in Seq(Batches(Calls)) /\ Len(queue') = 0 /\ at'[c] = "idle"
    BY <1>2 DEF Crash
  <2>2. Absent(queue', c)
    BY <2>1 DEF Absent
  <2> QED
    BY <2>1, <2>2, AbsentIsLined
<1>3. CASE UNCHANGED vars
  BY <1>3 DEF vars, callVars, Lined, CallLined, Inside, Aborted
<1> QED
  BY <1>1, <1>2, <1>3 DEF Next

(* A call that puts a root that is no stray holds the lock, has not timed  *)
(* out unless it is a write, and replaces the root it was built from.     *)
LEMMA PutsTheNext ==
  ASSUME IInv, Lined, NEW c \in Calls, Put(c), ~stray'
  PROVE  /\ ~stray /\ Inside(c) /\ WriteHeld(queue, c) /\ base[c] = root
         /\ request[c].op # "write" => ~Aborted(c)
         /\ root' = Effect(root, Head(steps[c])).root
         /\ Effect(root, Head(steps[c])).kind = "commit"
<1>1. /\ at[c] = "put" /\ Inside(c) /\ Held(queue, c) /\ ~stray /\ queue \in Seq(Batches(Calls))
      /\ root' = Effect(base[c], Head(steps[c])).root
  BY DEF Put, Inside, IInv, Types
<1>2. /\ OnlyWrites(queue, c) /\ base[c] = root
      /\ Aborted(c) /\ request[c].op # "write" => Absent(queue, c)
  BY <1>1 DEF Lined, CallLined
<1>3. ~Absent(queue, c)
  <2>1. 1 \in 1 .. Len(queue) /\ c \in queue[1].calls
    BY <1>1 DEF Held
  <2> QED
    BY <2>1 DEF Absent
<1>4. WriteHeld(queue, c)
  BY <1>1, <1>2, WritersHoldToWrite
<1>5. Effect(base[c], Head(steps[c])).kind = "commit"
  BY <1>1 DEF IInv, CallInv
<1> QED
  BY <1>1, <1>2, <1>3, <1>4, <1>5

-----------------------------------------------------------------------------
(* Without timeouts no call ever loses the lock, so every put replaces the *)
(* root its step was built from: the step might as well be atomic.        *)
Patient ==
  /\ ~stray
  /\ \A c \in Calls : outcome[c] # "timeout" /\ (outcome[c] = "pending" => request[c] \in Requests)

LEMMA InitPatient == Init => Patient
BY DEF Init, Patient

LEMMA StepPatient ==
  ASSUME NoTimeouts
  PROVE  IInv /\ Patient /\ [Next]_vars => Patient'
<1> SUFFICES ASSUME IInv, Patient, [Next]_vars PROVE Patient'
  OBVIOUS
<1>1. \A c \in Calls : ~Aborted(c)
  BY DEF Patient, Aborted
<1>2. ASSUME NEW c \in Calls, NEW result \in {"ok", "failed"}, Ends(c, result), ~stray'
      PROVE  Patient'
  BY <1>1, <1>2 DEF Ends, Patient, IInv, Types
<1>3. ASSUME NEW c \in Calls, StepDone(c), ~stray' PROVE Patient'
  BY <1>2, <1>3 DEF StepDone, Patient
<1>4. ASSUME UNCHANGED <<stray, outcome, request>> PROVE Patient'
  BY <1>4 DEF Patient
<1>5. ASSUME NEW c \in Calls, NEW r \in Requests, Begin(c, r) PROVE Patient'
  BY <1>5 DEF Begin, Patient, IInv, Types
<1>6. ASSUME NEW c \in Calls, Stat(c) PROVE Patient'
  <2>1. (Ends(c, "ok") \/ Ends(c, "failed")) /\ ~stray'
    BY <1>6 DEF Stat, Patient
  <2> QED
    BY <1>2, <2>1
<1>7. ASSUME NEW c \in Calls, ReadDestination(c) PROVE Patient'
  BY <1>2, <1>4, <1>7 DEF ReadDestination, Patient
<1>8. ASSUME NEW c \in Calls, Import(c) \/ Enter(c) PROVE Patient'
  BY <1>4, <1>8 DEF Import, Enter
<1>9. ASSUME NEW c \in Calls, LoadAborted(c) \/ Load(c) \/ Check(c) PROVE Patient'
  <2>1. CASE Load(c)
    <3>1. ~stray' /\ (\/ Ends(c, "failed") \/ StepDone(c) \/ UNCHANGED <<request, outcome>>)
      BY <2>1 DEF Load, LoadFrom, Patient
    <3> QED
      BY <1>2, <1>3, <3>1 DEF Patient
  <2>2. CASE LoadAborted(c) \/ Check(c)
    BY <1>2, <1>4, <2>2 DEF LoadAborted, Check, Patient
  <2> QED
    BY <1>9, <2>1, <2>2
<1>10. ASSUME NEW c \in Calls, Put(c) PROVE Patient'
  <2>1. Held(queue, c)
    BY <1>1, <1>10 DEF Put, IInv, CallInv, Inside, WriteHeld, WriteBatch, Held
  <2>2. StepDone(c) /\ ~stray'
    BY <1>10, <2>1 DEF Put, Patient
  <2> QED
    BY <1>3, <2>2
<1>11. ASSUME NEW c \in Calls, Timeout(c) \/ NestedTimeout(c) PROVE FALSE
  BY <1>1, <1>11 DEF Timeout, NestedTimeout, Patient, NoTimeouts
<1>12. CASE Crash
  BY <1>12 DEF Crash, Patient
<1>13. CASE UNCHANGED vars
  BY <1>4, <1>13 DEF vars, callVars
<1> QED
  BY <1>5, <1>6, <1>7, <1>8, <1>9, <1>10, <1>11, <1>12, <1>13 DEF Next, Advance

-----------------------------------------------------------------------------
(* Every step of the MFS is a step of AtomicMfs or changes nothing there. *)
StepDoneTail ==
  \A c \in Calls : Inside(c) /\ StepDone(c) => steps' = [steps EXCEPT ![c] = Tail(@)]

LEMMA StepDoneIsTail == IInv => StepDoneTail
<1> SUFFICES ASSUME IInv, NEW c \in Calls, Inside(c), StepDone(c)
             PROVE  steps' = [steps EXCEPT ![c] = Tail(@)]
  BY DEF StepDoneTail
<1>1. IsSteps(steps[c]) /\ steps[c] # <<>>
  BY DEF IInv, CallInv, Inside
<1>2. Len(steps[c]) = 1 => Tail(steps[c]) = <<>>
  BY <1>1, RestOfSteps
<1> QED
  BY <1>2 DEF StepDone, Ends

LEMMA EachStepIsAtomic ==
  ASSUME NoTimeouts, IInv, Patient, [Next]_vars
  PROVE  [Atomic!Next]_<<root, steps>>
<1>1. \A c \in Calls : ~Aborted(c)
  BY DEF Patient, Aborted
<1>2. ASSUME NEW c \in Calls, NEW result, Ends(c, result), root' = root
      PROVE  Atomic!Abandon(c)
  BY <1>2 DEF Ends, Atomic!Abandon
<1>3. ASSUME UNCHANGED <<root, steps>> PROVE [Atomic!Next]_<<root, steps>>
  BY <1>3
<1>4. ASSUME NEW c \in Calls, NEW r \in Requests, Begin(c, r)
      PROVE  Atomic!Submit(c) \/ UNCHANGED <<root, steps>>
  <2>1. steps[c] = <<>> /\ root' = root /\ DOMAIN steps = Calls
    BY <1>4 DEF Begin, IInv, CallInv, Types
  <2>2. CASE steps' = [steps EXCEPT ![c] = StepsOf(r)]
    <3>1. steps'[c] = StepsOf(r)
      BY <2>1, <2>2
    <3> QED
      BY <2>1, <2>2, <3>1 DEF Atomic!Submit
  <2> QED
    BY <1>4, <2>1, <2>2 DEF Begin
<1>5. ASSUME NEW c \in Calls, Stat(c) PROVE Atomic!Abandon(c)
  BY <1>2, <1>5 DEF Stat
<1>6. ASSUME NEW c \in Calls, ReadDestination(c) PROVE Atomic!Abandon(c) \/ UNCHANGED <<root, steps>>
  BY <1>2, <1>6 DEF ReadDestination
<1>7. ASSUME NEW c \in Calls, Import(c) PROVE Atomic!Submit(c)
  <2> DEFINE list == <<EnsureDirStep(Directory(request[c].loc), request[c].opts),
                       LinkStep(request[c].loc, Written(base[c], request[c]), TRUE, request[c].opts)>>
  <2>1. steps[c] = <<>> /\ root' = root /\ DOMAIN steps = Calls
        /\ steps' = [steps EXCEPT ![c] = list]
    BY <1>7 DEF Import, IInv, CallInv, Types
  <2> HIDE DEF list
  <2>2. steps'[c] = list
    BY <2>1
  <2> QED
    BY <2>1, <2>2 DEF Atomic!Submit
<1>8. ASSUME NEW c \in Calls, Enter(c) PROVE UNCHANGED <<root, steps>>
  BY <1>8 DEF Enter
<1>9. ASSUME NEW c \in Calls, LoadAborted(c) PROVE FALSE
  BY <1>1, <1>9, SMTT(60) DEF LoadAborted
<1>10. ASSUME NEW c \in Calls, Load(c)
       PROVE  Atomic!Apply(c) \/ Atomic!Abandon(c) \/ UNCHANGED <<root, steps>>
  <2> DEFINE effect == Effect(root, Head(steps[c]))
  <2>1. steps[c] # <<>> /\ root' = root /\ Inside(c)
    BY <1>10 DEF Load, LoadFrom, IInv, CallInv, Inside
  <2>2. CASE Ends(c, "failed")
    BY <1>2, <2>1, <2>2
  <2>3. CASE effect.kind = "skip" /\ StepDone(c)
    <3>1. steps' = [steps EXCEPT ![c] = Tail(@)]
      BY <2>1, <2>3, StepDoneIsTail DEF StepDoneTail
    <3> QED
      BY <2>1, <2>3, <3>1 DEF Atomic!Apply
  <2>4. CASE effect.kind = "expand" /\ steps' = [steps EXCEPT ![c] = effect.steps \o Tail(@)]
    BY <2>1, <2>4 DEF Atomic!Apply
  <2>5. CASE UNCHANGED steps
    BY <2>1, <2>5
  <2> QED
    BY <1>10, <2>2, <2>3, <2>4, <2>5 DEF Load, LoadFrom
<1>11. ASSUME NEW c \in Calls, Check(c) PROVE UNCHANGED <<root, steps>>
  BY <1>1, <1>11 DEF Check
<1>12. ASSUME NEW c \in Calls, Put(c) PROVE Atomic!Apply(c)
  <2>1. /\ base[c] = root /\ Effect(base[c], Head(steps[c])).kind = "commit"
        /\ Inside(c) /\ steps[c] # <<>>
    BY <1>1, <1>12 DEF Put, IInv, CallInv, Inside, Patient
  <2>2. steps' = [steps EXCEPT ![c] = Tail(@)] /\ root' = Effect(root, Head(steps[c])).root
    BY <1>12, <2>1, StepDoneIsTail DEF Put, StepDoneTail
  <2> QED
    BY <2>1, <2>2 DEF Atomic!Apply
<1>13. ASSUME NEW c \in Calls, Timeout(c) \/ NestedTimeout(c) PROVE FALSE
  BY <1>1, <1>13 DEF Timeout, NestedTimeout, Patient, NoTimeouts
<1>14. CASE Crash
  BY <1>14 DEF Crash, Atomic!AbandonAll, Atomic!Next
<1>15. CASE UNCHANGED vars
  BY <1>15 DEF vars, callVars
<1> QED
  BY <1>4, <1>5, <1>6, <1>7, <1>8, <1>9, <1>10, <1>11, <1>12, <1>13, <1>14, <1>15
  DEF Next, Advance, Atomic!Next

(* As long as no call may time out, the MFS is a tree of which every step  *)
(* of an operation is one indivisible change: index.js's "in series".     *)
THEOREM Refines ==
  ASSUME NoTimeouts
  PROVE  Spec => ImplementsAtomicMfs
<1>1. Init => Atomic!Init
  BY DEF Init, Atomic!Init
<1>2. IInv /\ Patient /\ [Next]_vars => Patient'
  BY StepPatient
<1>3. IInv /\ Patient /\ [Next]_vars => [Atomic!Next]_<<root, steps>>
  BY EachStepIsAtomic
<1> QED
  BY <1>1, <1>2, <1>3, InitPatient, AlwaysIInv, PTL DEF Spec, ImplementsAtomicMfs, Atomic!Spec

-----------------------------------------------------------------------------
(*************************************************************************)
(* The tree.  The recursive functions of MfsTree run over depths and over*)
(* positions of a path, which are bounded: what holds of them is shown by*)
(* the least depth at which it would not.                                *)
(*************************************************************************)

(* A set of naturals with a member has a least one. *)
LEMMA LeastOf ==
  ASSUME NEW T, T \subseteq Nat, T # {}
  PROVE  \E n \in T : \A m \in T : n <= m
<1>1. PICK n \in T : \A m \in T : ~(<<m, n>> \in OpToRel(<, Nat))
  BY NatLessThanWellFounded, WFMin
<1>2. ASSUME NEW m \in T PROVE n <= m
  <2>1. m \in Nat /\ n \in Nat
    BY <1>1
  <2>2. ~(m < n)
    BY <1>1, <2>1 DEF OpToRel
  <2> QED
    BY <2>1, <2>2
<1> QED
  BY <1>2

(* Induction over the naturals up to a bound, for the members of a set.   *)
LEMMA UpTo ==
  ASSUME NEW N \in Nat, NEW T, 0 \in T, \A n \in 0 .. N - 1 : n \in T => n + 1 \in T
  PROVE  0 .. N \subseteq T
<1> DEFINE missing == {n \in 0 .. N : n \notin T}
<1> SUFFICES ASSUME missing # {} PROVE FALSE
  OBVIOUS
<1>1. missing \subseteq Nat
  OBVIOUS
<1>2. PICK n \in missing : \A m \in missing : n <= m
  <2> HIDE DEF missing
  <2> QED
    BY <1>1, LeastOf
<1>3. n \in 1 .. N /\ n - 1 \in 0 .. N - 1 /\ n - 1 + 1 = n
  BY <1>2
<1>4. n - 1 \notin missing
  BY <1>2, <1>3
<1>5. n - 1 \in T
  BY <1>3, <1>4
<1> QED
  BY <1>2, <1>3, <1>5

LEMMA DownTo ==
  ASSUME NEW N \in Nat, NEW T, N \in T, \A n \in 1 .. N : n \in T => n - 1 \in T
  PROVE  0 .. N \subseteq T
<1> DEFINE S == {n \in 0 .. N : N - n \in T}
<1>1. 0 \in S
  OBVIOUS
<1>2. ASSUME NEW n \in 0 .. N - 1, n \in S PROVE n + 1 \in S
  <2>1. N - n \in 1 .. N /\ N - n \in T /\ N - n - 1 = N - (n + 1) /\ n + 1 \in 0 .. N
    BY <1>2
  <2> QED
    BY <2>1
<1>3. 0 .. N \subseteq S
  <2> HIDE DEF S
  <2> QED
    BY <1>1, <1>2, UpTo
<1>4. ASSUME NEW n \in 0 .. N PROVE n \in T
  <2>1. N - n \in 0 .. N /\ N - (N - n) = n
    OBVIOUS
  <2> QED
    BY <1>3, <2>1
<1> QED
  BY <1>4

-----------------------------------------------------------------------------
(* What the recursive functions of MfsTree are.                           *)
LEMMA TrailDef ==
  ASSUME NEW bottom, NEW path, Len(path) \in Nat
  PROVE  /\ ToTrail(bottom, path)[0] = bottom
         /\ \A n \in 1 .. Len(path) :
              ToTrail(bottom, path)[n] = Child(ToTrail(bottom, path)[n - 1], path[n])
<1> DEFINE N == Len(path)
           Step(g, n) == IF n = 0 THEN bottom ELSE Child(g[n - 1], path[n])
           T == {n \in 0 .. N : \E g : g = [k \in 0 .. n |-> Step(g, k)]}
<1>1. 0 \in T
  <2> DEFINE g == [k \in 0 .. 0 |-> bottom]
  <2>1. g = [k \in 0 .. 0 |-> Step(g, k)]
    OBVIOUS
  <2> HIDE DEF g
  <2> QED
    BY <2>1
<1>2. ASSUME NEW n \in 0 .. N - 1, n \in T PROVE n + 1 \in T
  <2>1. PICK g : g = [k \in 0 .. n |-> Step(g, k)]
    BY <1>2
  <2> DEFINE h == [k \in 0 .. n + 1 |-> Step(g, k)]
  <2>2. \A k \in 0 .. n : h[k] = g[k]
    BY <2>1
  <2>3. ASSUME NEW k \in 0 .. n + 1 PROVE Step(h, k) = Step(g, k)
    <3>1. k = 0 \/ k - 1 \in 0 .. n
      OBVIOUS
    <3> HIDE DEF h
    <3> QED
      BY <2>2, <3>1
  <2>4. h = [k \in 0 .. n + 1 |-> Step(h, k)]
    BY <2>3
  <2> HIDE DEF h
  <2> QED
    BY <2>4
<1>3. N \in T
  <2>1. N \in Nat /\ N \in 0 .. N
    OBVIOUS
  <2> HIDE DEF T, N
  <2> QED
    BY <1>1, <1>2, <2>1, UpTo
<1>4. \E g : g = [k \in 0 .. N |-> Step(g, k)]
  BY <1>3
<1> DEFINE t == ToTrail(bottom, path)
<1>5. t = [k \in 0 .. N |-> Step(t, k)]
  BY <1>4 DEF ToTrail
<1> HIDE DEF t
<1>6. t[0] = bottom /\ \A n \in 1 .. Len(path) : t[n] = Child(t[n - 1], path[n])
  BY <1>5
<1> QED
  BY <1>6 DEF t

LEMMA UpdateTreeDef ==
  ASSUME NEW trail, NEW path, NEW last, Len(path) \in Nat
  PROVE  LET rebuilt == UpdateTree(trail, path, last) IN
         /\ rebuilt[Len(path)] = last
         /\ \A n \in 0 .. Len(path) - 1 :
              rebuilt[n] = AddLink(trail[n], path[n + 1], rebuilt[n + 1])
<1> DEFINE N == Len(path)
           Step(g, n) == IF n = N THEN last ELSE AddLink(trail[n], path[n + 1], g[n + 1])
           T == {n \in 0 .. N : \E g : g = [k \in n .. N |-> Step(g, k)]}
<1>1. N \in T
  <2> DEFINE g == [k \in N .. N |-> last]
  <2>1. g = [k \in N .. N |-> Step(g, k)]
    OBVIOUS
  <2>2. N \in 0 .. N
    OBVIOUS
  <2> HIDE DEF g
  <2> QED
    BY <2>1, <2>2
<1>2. ASSUME NEW n \in 1 .. N, n \in T PROVE n - 1 \in T
  <2>1. PICK g : g = [k \in n .. N |-> Step(g, k)]
    BY <1>2
  <2> DEFINE h == [k \in n - 1 .. N |-> Step(g, k)]
  <2>2. \A k \in n .. N : h[k] = g[k]
    BY <2>1
  <2>3. ASSUME NEW k \in n - 1 .. N PROVE Step(h, k) = Step(g, k)
    <3>1. k = N \/ k + 1 \in n .. N
      OBVIOUS
    <3> HIDE DEF h
    <3> QED
      BY <2>2, <3>1
  <2>4. h = [k \in n - 1 .. N |-> Step(h, k)]
    BY <2>3
  <2>5. n - 1 \in 0 .. N
    OBVIOUS
  <2> HIDE DEF h
  <2> QED
    BY <2>4, <2>5
<1>3. 0 \in T
  <2>1. N \in Nat /\ 0 \in 0 .. N
    OBVIOUS
  <2> HIDE DEF T, N
  <2> QED
    BY <1>1, <1>2, <2>1, DownTo
<1>4. \E g : g = [k \in 0 .. N |-> Step(g, k)]
  BY <1>3
<1> DEFINE t == UpdateTree(trail, path, last)
<1>5. t = [k \in 0 .. N |-> Step(t, k)]
  BY <1>4 DEF UpdateTree
<1> HIDE DEF t
<1>6. t[N] = last /\ \A n \in 0 .. N - 1 : t[n] = AddLink(trail[n], path[n + 1], t[n + 1])
  BY <1>5
<1> QED
  BY <1>6 DEF t

LEMMA NodesDownToDef ==
  ASSUME NEW node
  PROVE  LET down == NodesDownTo(node) IN
         /\ down[0] = {node}
         /\ \A d \in 1 .. MaxDepth :
              down[d] = down[d - 1] \cup UNION {Children(n) : n \in down[d - 1]}
<1> DEFINE N == MaxDepth
           Step(g, d) == IF d = 0 THEN {node}
                         ELSE g[d - 1] \cup UNION {Children(n) : n \in g[d - 1]}
           T == {n \in 0 .. N : \E g : g = [k \in 0 .. n |-> Step(g, k)]}
<1>1. 0 \in T
  <2> DEFINE g == [k \in 0 .. 0 |-> {node}]
  <2>1. g = [k \in 0 .. 0 |-> Step(g, k)]
    OBVIOUS
  <2>2. 0 \in 0 .. N
    BY MfsTreeAssumption
  <2> HIDE DEF g
  <2> QED
    BY <2>1, <2>2
<1>2. ASSUME NEW n \in 0 .. N - 1, n \in T PROVE n + 1 \in T
  <2>1. PICK g : g = [k \in 0 .. n |-> Step(g, k)]
    BY <1>2
  <2> DEFINE h == [k \in 0 .. n + 1 |-> Step(g, k)]
  <2>2. \A k \in 0 .. n : h[k] = g[k]
    <3>1. \A k \in 0 .. n : k \in 0 .. n + 1
      BY MfsTreeAssumption
    <3> HIDE DEF Step
    <3> QED
      BY <2>1, <3>1
  <2>3. ASSUME NEW k \in 0 .. n + 1 PROVE Step(h, k) = Step(g, k)
    <3>1. k = 0 \/ k - 1 \in 0 .. n
      BY MfsTreeAssumption
    <3> HIDE DEF h
    <3> QED
      BY <2>2, <3>1
  <2>4. h = [k \in 0 .. n + 1 |-> Step(h, k)]
    BY <2>3
  <2>5. n + 1 \in 0 .. N
    BY MfsTreeAssumption
  <2> HIDE DEF h
  <2> QED
    BY <2>4, <2>5
<1>3. N \in T
  <2>1. N \in Nat /\ N \in 0 .. N
    BY MfsTreeAssumption
  <2> HIDE DEF T, N
  <2> QED
    BY <1>1, <1>2, <2>1, UpTo
<1>4. \E g : g = [k \in 0 .. N |-> Step(g, k)]
  BY <1>3
<1> DEFINE t == NodesDownTo(node)
<1>5. t = [k \in 0 .. N |-> Step(t, k)]
  BY <1>4 DEF NodesDownTo
<1> HIDE DEF t
<1>6. t[0] = {node} /\ \A d \in 1 .. N : t[d] = t[d - 1] \cup UNION {Children(n) : n \in t[d - 1]}
  BY <1>5, MfsTreeAssumption
<1> QED
  BY <1>6 DEF t

LEMMA ChangedDef ==
  ASSUME NEW node, NEW meta, NEW n \in NodesOf(node), "links" \in DOMAIN n
  PROVE  /\ \A h \in 0 .. MaxDepth : "links" \in DOMAIN Changed(node, meta)[h][n]
         /\ Changed(node, meta)[0][n].links = n.links
         /\ \A h \in 1 .. MaxDepth :
              /\ DOMAIN Changed(node, meta)[h][n].links = DOMAIN n.links
              /\ \A name \in DOMAIN n.links :
                   Changed(node, meta)[h][n].links[name] = Changed(node, meta)[h - 1][n.links[name]]
<1> DEFINE N == MaxDepth
           Step(g, h) == [m \in NodesOf(node) |->
                            [m EXCEPT !.meta = meta,
                                      !.links = IF h = 0 THEN @
                                                ELSE [name \in DOMAIN @ |-> g[h - 1][@[name]]]]]
           T == {i \in 0 .. N : \E g : g = [k \in 0 .. i |-> Step(g, k)]}
<1>1. 0 \in T
  <2> DEFINE g == [k \in 0 .. 0 |-> Step(<<>>, 0)]
  <2>1. g = [k \in 0 .. 0 |-> Step(g, k)]
    OBVIOUS
  <2>2. 0 \in 0 .. N
    BY MfsTreeAssumption
  <2> HIDE DEF g
  <2> QED
    BY <2>1, <2>2
<1>2. ASSUME NEW i \in 0 .. N - 1, i \in T PROVE i + 1 \in T
  <2>1. PICK g : g = [k \in 0 .. i |-> Step(g, k)]
    BY <1>2
  <2> DEFINE h == [k \in 0 .. i + 1 |-> Step(g, k)]
  <2>2. \A k \in 0 .. i : h[k] = g[k]
    <3>1. \A k \in 0 .. i : k \in 0 .. i + 1
      BY MfsTreeAssumption
    <3> HIDE DEF Step
    <3> QED
      BY <2>1, <3>1
  <2>3. ASSUME NEW k \in 0 .. i + 1 PROVE Step(h, k) = Step(g, k)
    <3>1. k = 0 \/ h[k - 1] = g[k - 1]
      <4>1. k = 0 \/ k - 1 \in 0 .. i
        BY MfsTreeAssumption
      <4> HIDE DEF h
      <4> QED
        BY <2>2, <4>1
    <3> HIDE DEF h
    <3> QED
      BY <3>1
  <2>4. h = [k \in 0 .. i + 1 |-> Step(h, k)]
    BY <2>3
  <2>5. i + 1 \in 0 .. N
    BY MfsTreeAssumption
  <2> HIDE DEF h
  <2> QED
    BY <2>4, <2>5
<1>3. N \in T
  <2>1. N \in Nat /\ N \in 0 .. N
    BY MfsTreeAssumption
  <2> HIDE DEF T, N
  <2> QED
    BY <1>1, <1>2, <2>1, UpTo
<1>4. \E g : g = [k \in 0 .. N |-> Step(g, k)]
  BY <1>3
<1> DEFINE t == Changed(node, meta)
<1>5. t = [k \in 0 .. N |-> Step(t, k)]
  BY <1>4 DEF Changed
<1> HIDE DEF t
<1>6. \A h \in 0 .. N : t[h] = Step(t, h)
  BY <1>5
<1>7. 0 \in 0 .. N /\ \A h \in 1 .. N : h \in 0 .. N /\ h # 0
  BY MfsTreeAssumption
<1>8. ASSUME NEW h \in 0 .. N
      PROVE  /\ "links" \in DOMAIN t[h][n]
             /\ t[h][n].links = IF h = 0 THEN n.links
                               ELSE [name \in DOMAIN n.links |-> t[h - 1][n.links[name]]]
  <2> DEFINE links == IF h = 0 THEN n.links
                      ELSE [name \in DOMAIN n.links |-> t[h - 1][n.links[name]]]
  <2>1. t[h] = Step(t, h)
    BY <1>6
  <2>2. t[h][n] = [n EXCEPT !.meta = meta, !.links = links]
    BY <2>1
  <2>3. "links" \in DOMAIN t[h][n] /\ t[h][n].links = links
    <3> HIDE DEF links
    <3> QED
      BY <2>2
  <2> QED
    BY <2>3
<1>9. /\ \A h \in 0 .. N : "links" \in DOMAIN t[h][n]
      /\ t[0][n].links = n.links
      /\ \A h \in 1 .. N :
           /\ DOMAIN t[h][n].links = DOMAIN n.links
           /\ \A name \in DOMAIN n.links : t[h][n].links[name] = t[h - 1][n.links[name]]
  <2>1. ASSUME NEW h \in 1 .. N
        PROVE  t[h][n].links = [name \in DOMAIN n.links |-> t[h - 1][n.links[name]]]
    BY <1>7, <1>8
  <2>2. ASSUME NEW h \in 1 .. N
        PROVE  /\ DOMAIN t[h][n].links = DOMAIN n.links
               /\ \A name \in DOMAIN n.links : t[h][n].links[name] = t[h - 1][n.links[name]]
    BY <2>1
  <2> QED
    BY <1>7, <1>8, <2>2
<1> QED
  BY <1>9 DEF t

(* What is added to a closed set leaves it closed.                        *)
Grows(B, more) == Closed(B \cup more)

LEMMA NewNodeIsLeaf ==
  ASSUME NEW type, NEW data, NEW meta
  PROVE  /\ "links" \in DOMAIN NewNode(type, data, meta)
         /\ Children(NewNode(type, data, meta)) = {}
  BY DEF NewNode, NoEntries, Children

LEMMA Leaves ==
  /\ "links" \in DOMAIN NoNode /\ Children(NoNode) = {}
  /\ "links" \in DOMAIN EmptyDir /\ Children(EmptyDir) = {}
  /\ \A data, meta : "links" \in DOMAIN File(data, meta) /\ Children(File(data, meta)) = {}
  BY NewNodeIsLeaf DEF NoNode, EmptyDir, File

LEMMA ClosedTree ==
  ASSUME NEW B, Closed(B), NEW node \in B
  PROVE  NodesOf(node) \subseteq B
<1> DEFINE down == NodesDownTo(node)
           T == {d \in 0 .. MaxDepth : down[d] \subseteq B}
<1>1. 0 \in T
  BY NodesDownToDef, MfsTreeAssumption
<1>2. ASSUME NEW d \in 0 .. MaxDepth - 1, d \in T PROVE d + 1 \in T
  <2>1. d + 1 \in 1 .. MaxDepth /\ d + 1 \in 0 .. MaxDepth /\ (d + 1) - 1 = d
    BY MfsTreeAssumption
  <2>2. down[d + 1] = down[d] \cup UNION {Children(n) : n \in down[d]}
    BY <2>1, NodesDownToDef
  <2>3. down[d] \subseteq B /\ \A n \in down[d] : Children(n) \subseteq B
    BY <1>2 DEF Closed
  <2> QED
    BY <2>1, <2>2, <2>3
<1>3. MaxDepth \in T
  <2> HIDE DEF T
  <2> QED
    BY <1>1, <1>2, UpTo, MfsTreeAssumption
<1> QED
  BY <1>3 DEF NodesOf

LEMMA TrailStays ==
  ASSUME NEW B, Closed(B), NEW bottom \in B, NEW path, Len(path) \in Nat
  PROVE  \A n \in 0 .. Len(path) : ToTrail(bottom, path)[n] \in B \cup {NoNode}
<1> DEFINE trail == ToTrail(bottom, path)
           T == {n \in 0 .. Len(path) : trail[n] \in B \cup {NoNode}}
<1>1. 0 \in T
  BY TrailDef
<1>2. ASSUME NEW n \in 0 .. Len(path) - 1, n \in T PROVE n + 1 \in T
  <2>1. n + 1 \in 1 .. Len(path) /\ n + 1 \in 0 .. Len(path) /\ (n + 1) - 1 = n
    OBVIOUS
  <2>2. trail[n + 1] = Child(trail[n], path[n + 1])
    BY <2>1, TrailDef
  <2>3. trail[n] \in B \cup {NoNode}
    BY <1>2
  <2>4. Children(trail[n]) \subseteq B
    BY <2>3, Leaves DEF Closed
  <2>5. Child(trail[n], path[n + 1]) \in B \cup {NoNode}
    BY <2>4 DEF Child, Children
  <2> QED
    BY <2>1, <2>2, <2>5
<1>3. 0 .. Len(path) \subseteq T
  <2> HIDE DEF T
  <2> QED
    BY <1>1, <1>2, UpTo
<1> QED
  BY <1>3

LEMMA AtStays ==
  ASSUME NEW B, Closed(B), NEW bottom \in B, NEW path, Len(path) \in Nat
  PROVE  At(bottom, path) \in B \cup {NoNode}
  BY TrailStays DEF At

LEMMA AddLinkLinks ==
  ASSUME NEW parent, "links" \in DOMAIN parent, NEW name, NEW node
  PROVE  /\ "links" \in DOMAIN AddLink(parent, name, node)
         /\ Children(AddLink(parent, name, node)) \subseteq Children(parent) \cup {node}
  BY DEF AddLink, Children

LEMMA RemoveLinkLinks ==
  ASSUME NEW parent, "links" \in DOMAIN parent, NEW name
  PROVE  /\ "links" \in DOMAIN RemoveLink(parent, name)
         /\ Children(RemoveLink(parent, name)) \subseteq Children(parent)
  BY DEF RemoveLink, Children

LEMMA MetaLinks ==
  ASSUME NEW node, "links" \in DOMAIN node, NEW meta
  PROVE  /\ "links" \in DOMAIN [node EXCEPT !.meta = meta]
         /\ Children([node EXCEPT !.meta = meta]) = Children(node)
  BY DEF Children

(* The directories above the last node of a trail, before and after.      *)
Over(trail, path, B) == \A n \in 0 .. Len(path) - 1 : trail[n] \in B \cup {NoNode}
Rebuilt(trail, path, last) ==
  {UpdateTree(trail, path, last)[n] : n \in 0 .. Len(path) - 1}

LEMMA UpdatedIsClosed ==
  ASSUME NEW B, Closed(B), NEW trail, NEW path, Len(path) \in Nat, NEW last \in B,
         Over(trail, path, B)
  PROVE  /\ Grows(B, Rebuilt(trail, path, last))
         /\ \A n \in 0 .. Len(path) :
              UpdateTree(trail, path, last)[n] \in B \cup Rebuilt(trail, path, last)
<1> DEFINE rebuilt == UpdateTree(trail, path, last)
           above == {rebuilt[n] : n \in 0 .. Len(path) - 1}
<1>1. \A n \in 0 .. Len(path) : rebuilt[n] \in B \cup above
  <2>1. rebuilt[Len(path)] = last
    BY UpdateTreeDef
  <2>2. \A n \in 0 .. Len(path) : n = Len(path) \/ n \in 0 .. Len(path) - 1
    OBVIOUS
  <2> QED
    BY <2>1, <2>2
<1>2. ASSUME NEW n \in 0 .. Len(path) - 1
      PROVE  "links" \in DOMAIN rebuilt[n] /\ Children(rebuilt[n]) \subseteq B \cup above
  <2>1. rebuilt[n] = AddLink(trail[n], path[n + 1], rebuilt[n + 1])
    BY UpdateTreeDef
  <2>2. n + 1 \in 0 .. Len(path)
    OBVIOUS
  <2>3. rebuilt[n + 1] \in B \cup above
    BY <1>1, <2>2
  <2>4. "links" \in DOMAIN trail[n] /\ Children(trail[n]) \subseteq B
    BY Leaves DEF Closed, Over
  <2> HIDE DEF rebuilt, above
  <2> QED
    BY <2>1, <2>3, <2>4, AddLinkLinks
<1>3. Grows(B, above)
  BY <1>2 DEF Grows, Closed
<1> QED
  BY <1>1, <1>3 DEF Rebuilt

(* A step that names only nodes of B and flushes what it builds.           *)
KnownStep(s, B) ==
  /\ KnownLoc(s.loc, B)
  /\ s.op # "stat" => s.opts.flush = TRUE
  /\ s.op = "link" => s.node \in B
  /\ s.op = "cp" => KnownLoc(s.from, B)

KnownSteps(list, B) == \A k \in 1 .. Len(list) : KnownStep(list[k], B)

Safe(B, e) ==
  /\ Grows(B, e.put)
  /\ e.kind = "commit" => e.root \in B \cup e.put
  /\ e.kind = "expand" => KnownSteps(e.steps, B \cup e.put)

LEMMA KnownStepStays ==
  ASSUME NEW B, NEW C, B \subseteq C, NEW s, KnownStep(s, B)
  PROVE  KnownStep(s, C)
  BY DEF KnownStep, KnownLoc

LEMMA CommitsSafe ==
  ASSUME NEW B, Closed(B), NEW bottom \in B, NEW dir, Len(dir) \in Nat,
         NEW put, Grows(B, put), NEW updated \in B \cup put
  PROVE  /\ Safe(B, Commits(bottom, dir, updated, put, TRUE))
         /\ Commits(bottom, dir, updated, put, TRUE).kind = "commit"
<1> DEFINE trail == ToTrail(bottom, dir)
           rebuilt == UpdateTree(trail, dir, updated)
           above == Rebuilt(trail, dir, updated)
           e == Commits(bottom, dir, updated, put, TRUE)
           C == B \cup put
<1>1. e.put = put \cup above /\ e.root = rebuilt[0] /\ e.kind = "commit"
  BY DEF Commits, NoEffect, Rebuilt
<1>2. Over(trail, dir, C)
  BY TrailStays DEF Over
<1>3. Grows(C, above) /\ \A n \in 0 .. Len(dir) : rebuilt[n] \in C \cup above
  <2>1. Closed(C) /\ updated \in C
    BY DEF Grows
  <2> HIDE DEF trail, C
  <2> QED
    BY <1>2, <2>1, UpdatedIsClosed
<1>4. C \cup above = B \cup e.put
  <2> HIDE DEF above, e
  <2> QED
    BY <1>1
<1>5. 0 \in 0 .. Len(dir)
  OBVIOUS
<1>6. Safe(B, e)
  <2> HIDE DEF e, rebuilt, above, C
  <2> QED
    BY <1>1, <1>3, <1>4, <1>5 DEF Safe, Grows
<1> QED
  BY <1>1, <1>6

LEMMA BaseStays ==
  ASSUME NEW B, NEW tree \in B, NEW loc, KnownLoc(loc, B)
  PROVE  Base(tree, loc) \in B
  BY DEF KnownLoc, Base, Exists

LEMMA FrontIsPath ==
  ASSUME NEW path \in Seq(Names)
  PROVE  Front(path) \in Seq(Names) /\ Len(Front(path)) \in Nat
<1>1. CASE path = <<>>
  <2>1. Front(path) = <<>>
    BY <1>1 DEF Front
  <2> QED
    BY <2>1
<1>2. CASE path # <<>>
  BY <1>2 DEF Front
<1> QED
  BY <1>1, <1>2

LEMMA ResolveStays ==
  ASSUME NEW B, Closed(B), NEW tree \in B, NEW loc, KnownLoc(loc, B)
  PROVE  Resolve(tree, loc) \in B \cup {NoNode}
<1>1. Base(tree, loc) \in B /\ Len(loc.path) \in Nat
  BY BaseStays DEF KnownLoc
<1> QED
  BY <1>1, AtStays DEF Resolve

LEMMA NothingSafe ==
  ASSUME NEW B, Closed(B), NEW kind \in {"fail", "skip"}
  PROVE  Safe(B, NoEffect(kind))
  BY DEF Safe, NoEffect, Grows

LEMMA LinkSafe ==
  ASSUME NEW B, Closed(B), NEW tree \in B, NEW s,
         KnownLoc(s.loc, B), s.opts.flush = TRUE, s.node \in B
  PROVE  Safe(B, LinkEffect(tree, s)) /\ LinkEffect(tree, s).kind \in {"commit", "fail"}
<1> DEFINE bottom == Base(tree, s.loc)
           dir == Front(s.loc.path)
           parent == At(bottom, dir)
           updated == AddLink(parent, Last(s.loc.path), s.node)
           put == {updated}
           e == Commits(bottom, dir, updated, put, TRUE)
<1>1. bottom \in B /\ Len(dir) \in Nat
  BY BaseStays, FrontIsPath DEF KnownLoc
<1>2. Closed(B \cup {updated})
  <2>1. "links" \in DOMAIN parent /\ Children(parent) \subseteq B
    BY <1>1, AtStays, Leaves DEF Closed
  <2>2. "links" \in DOMAIN updated /\ Children(updated) \subseteq B
    <3> HIDE DEF parent
    <3> QED
      BY <2>1, AddLinkLinks
  <2> HIDE DEF updated
  <2> QED
    BY <2>2 DEF Closed
<1>3. Safe(B, e) /\ e.kind = "commit"
  <2>1. updated \in B \cup put /\ Grows(B, put)
    BY <1>2 DEF Grows
  <2> HIDE DEF updated, bottom, dir, put
  <2> QED
    BY <1>1, <2>1, CommitsSafe
<1>4. Safe(B, Fails) /\ Fails.kind = "fail"
  BY NothingSafe DEF Fails, NoEffect
<1>5. LinkEffect(tree, s) = e \/ LinkEffect(tree, s) = Fails
  BY DEF LinkEffect
<1> QED
  BY <1>3, <1>4, <1>5

LEMMA RmSafe ==
  ASSUME NEW B, Closed(B), NEW tree \in B, NEW s, KnownLoc(s.loc, B), s.opts.flush = TRUE
  PROVE  Safe(B, RmEffect(tree, s))
<1> DEFINE bottom == Base(tree, s.loc)
           dir == Front(s.loc.path)
           parent == At(bottom, dir)
           updated == RemoveLink(parent, Last(s.loc.path))
           put == {updated}
           e == Commits(bottom, dir, updated, put, TRUE)
<1>1. bottom \in B /\ Len(dir) \in Nat
  BY BaseStays, FrontIsPath DEF KnownLoc
<1>2. Closed(B \cup {updated})
  <2>1. "links" \in DOMAIN parent /\ Children(parent) \subseteq B
    BY <1>1, AtStays, Leaves DEF Closed
  <2>2. "links" \in DOMAIN updated /\ Children(updated) \subseteq B
    <3> HIDE DEF parent
    <3> QED
      BY <2>1, RemoveLinkLinks
  <2> HIDE DEF updated
  <2> QED
    BY <2>2 DEF Closed
<1>3. Safe(B, e)
  <2>1. updated \in B \cup put /\ Grows(B, put)
    BY <1>2 DEF Grows
  <2> HIDE DEF updated, bottom, dir, put
  <2> QED
    BY <1>1, <2>1, CommitsSafe
<1>4. Safe(B, Fails)
  BY NothingSafe DEF Fails, NoEffect
<1>5. RmEffect(tree, s) = e \/ RmEffect(tree, s) = Fails
  BY DEF RmEffect
<1> QED
  BY <1>3, <1>4, <1>5

(* The directories that mkdir makes below the first one.                  *)
LEMMA ChainIsClosed ==
  ASSUME NEW path, Len(path) \in Nat
  PROVE  LET chain == UpdateTree([n \in 0 .. Len(path) |-> EmptyDir], path, EmptyDir)
             links == {chain[n] : n \in 0 .. Len(path)}
         IN  Closed(links) /\ chain[0] \in links /\ EmptyDir \in links
<1> DEFINE empties == [n \in 0 .. Len(path) |-> EmptyDir]
           chain == UpdateTree(empties, path, EmptyDir)
           links == {chain[n] : n \in 0 .. Len(path)}
           E == {EmptyDir}
           above == Rebuilt(empties, path, EmptyDir)
<1>1. Closed(E) /\ EmptyDir \in E
  BY Leaves DEF Closed
<1>2. Over(empties, path, E)
  BY DEF Over
<1>3. Grows(E, above)
  <2> HIDE DEF empties, E
  <2> QED
    BY <1>1, <1>2, UpdatedIsClosed
<1>4. chain[Len(path)] = EmptyDir
  BY UpdateTreeDef
<1>5. /\ 0 .. Len(path) = (0 .. Len(path) - 1) \cup {Len(path)}
      /\ 0 \in 0 .. Len(path) /\ Len(path) \in 0 .. Len(path)
  OBVIOUS
<1>6. links = E \cup above
  <2>1. above = {chain[n] : n \in 0 .. Len(path) - 1}
    BY DEF Rebuilt
  <2> HIDE DEF chain, above
  <2> QED
    BY <1>4, <1>5, <2>1
<1> QED
  BY <1>3, <1>4, <1>5, <1>6 DEF Grows

LEMMA MkdirSafe ==
  ASSUME NEW B, Closed(B), NEW tree \in B, NEW s, KnownLoc(s.loc, B), s.opts.flush = TRUE
  PROVE  Safe(B, MkdirEffect(tree, s))
<1> DEFINE path == s.loc.path
           missing == {n \in 1 .. Len(path) : ~Exists(At(tree, Prefix(path, n)))}
           first == Min(missing)
           over == Prefix(path, first - 1)
           below == SubSeq(path, first + 1, Len(path))
           empties == [n \in 0 .. Len(below) |-> EmptyDir]
           chain == UpdateTree(empties, below, EmptyDir)
           parent == At(tree, over)
           updated == AddLink(parent, path[first], chain[0])
           firstVersion == AddLink(parent, path[first], EmptyDir)
           links == {chain[n] : n \in 0 .. Len(below)}
           stored == links \cup {firstVersion, updated}
           effect == Commits(tree, over, updated, stored, TRUE)
<1> SUFFICES ASSUME missing # {}, MkdirEffect(tree, s) # Fails
             PROVE  Safe(B, MkdirEffect(tree, s))
  <2>1. Safe(B, Fails) /\ Safe(B, Skips)
    BY NothingSafe DEF Fails, Skips
  <2>2. missing = {} => MkdirEffect(tree, s) \in {Skips, Fails}
    BY DEF MkdirEffect
  <2> QED
    BY <2>1, <2>2
<1>1. path \in Seq(Names) /\ Len(path) \in Nat
  BY DEF KnownLoc
<1>2. first \in 1 .. Len(path)
  <2>1. missing \subseteq Nat
    BY <1>1
  <2>2. \E n \in missing : \A m \in missing : n <= m
    <3> HIDE DEF missing
    <3> QED
      BY <2>1, LeastOf
  <2>3. first \in missing
    <3> HIDE DEF missing
    <3> QED
      BY <2>2 DEF Min
  <2> QED
    BY <2>3
<1>3. Len(over) \in Nat /\ Len(below) \in Nat
  <2> HIDE DEF first, path
  <2>1. over \in Seq(Names) /\ below \in Seq(Names)
    BY <1>1, <1>2 DEF Prefix
  <2> HIDE DEF over, below
  <2> QED
    BY <2>1
<1>4. Closed(links) /\ chain[0] \in links /\ EmptyDir \in links
  <2> HIDE DEF below
  <2> QED
    BY <1>3, ChainIsClosed
<1>5. parent \in B \cup {NoNode}
  <2> HIDE DEF over
  <2> QED
    BY <1>3, AtStays
<1>6. Grows(B, stored) /\ updated \in B \cup stored
  <2>1. "links" \in DOMAIN parent /\ Children(parent) \subseteq B
    BY <1>5, Leaves DEF Closed
  <2>2. /\ "links" \in DOMAIN updated /\ Children(updated) \subseteq B \cup links
        /\ "links" \in DOMAIN firstVersion /\ Children(firstVersion) \subseteq B \cup links
    <3> HIDE DEF parent, links, chain
    <3> QED
      BY <1>4, <2>1, AddLinkLinks
  <2> HIDE DEF updated, firstVersion, links
  <2> QED
    BY <1>4, <2>2 DEF Closed, Grows
<1>7. Safe(B, effect)
  <2> HIDE DEF updated, stored, over
  <2> QED
    BY <1>3, <1>6, CommitsSafe
<1>8. MkdirEffect(tree, s) = [effect EXCEPT !.reads = (@ \ {updated}) \cup {firstVersion, EmptyDir}]
  BY DEF MkdirEffect
<1>9. /\ MkdirEffect(tree, s).put = effect.put /\ MkdirEffect(tree, s).root = effect.root
      /\ MkdirEffect(tree, s).kind = "commit"
  <2>1. effect.kind = "commit" /\ {"kind", "root", "put", "reads"} \subseteq DOMAIN effect
    BY DEF Commits, NoEffect
  <2> HIDE DEF effect
  <2> QED
    BY <1>8, <2>1
<1>10. effect.kind = "commit"
  BY DEF Commits, NoEffect
<1> QED
  <2> HIDE DEF effect
  <2> QED
    BY <1>7, <1>9, <1>10 DEF Safe

LEMMA DownToIsNodes ==
  ASSUME NEW node
  PROVE  \A d \in 0 .. MaxDepth : NodesDownTo(node)[d] \subseteq NodesOf(node)
<1> DEFINE down == NodesDownTo(node)
           T == {d \in 0 .. MaxDepth : down[d] \subseteq down[MaxDepth]}
<1>1. MaxDepth \in T
  BY MfsTreeAssumption
<1>2. ASSUME NEW d \in 1 .. MaxDepth, d \in T PROVE d - 1 \in T
  <2>1. down[d - 1] \subseteq down[d]
    BY NodesDownToDef
  <2>2. d - 1 \in 0 .. MaxDepth
    BY MfsTreeAssumption
  <2> QED
    BY <1>2, <2>1, <2>2
<1>3. 0 .. MaxDepth \subseteq T
  <2> HIDE DEF T
  <2> QED
    BY <1>1, <1>2, DownTo, MfsTreeAssumption
<1> QED
  BY <1>3 DEF NodesOf

LEMMA NodeIsOneOfItsNodes ==
  ASSUME NEW node
  PROVE  node \in NodesOf(node)
  BY DownToIsNodes, NodesDownToDef, MfsTreeAssumption

(* chmod -R: the nodes of the changed tree link to each other, or, where   *)
(* the tree is deeper than it is looked at, to old nodes.                 *)
LEMMA ChangedIsClosed ==
  ASSUME NEW B, Closed(B), NEW node \in B, NEW meta
  PROVE  Grows(B, NodesOf(WithMeta(node, meta)))
<1> DEFINE N == MaxDepth
           down == NodesDownTo(node)
           changed == Changed(node, meta)
           E(d) == {changed[N - d][n] : n \in down[d]}
           c == changed[N][node]
           new == NodesDownTo(c)
<1>1. \A d \in 0 .. N : down[d] \subseteq NodesOf(node) /\ down[d] \subseteq B
  BY DownToIsNodes, ClosedTree
<1>2. ASSUME NEW d \in 0 .. N - 1, NEW n \in down[d]
      PROVE  "links" \in DOMAIN changed[N - d][n] /\ Children(changed[N - d][n]) \subseteq E(d + 1)
  <2>1. /\ d \in 0 .. N /\ N - d \in 1 .. N /\ N - d - 1 = N - (d + 1)
        /\ d + 1 \in 1 .. N /\ d + 1 - 1 = d
    BY MfsTreeAssumption
  <2>2. "links" \in DOMAIN n /\ n \in NodesOf(node)
    BY <1>1, <2>1 DEF Closed
  <2>3. /\ "links" \in DOMAIN changed[N - d][n]
        /\ DOMAIN changed[N - d][n].links = DOMAIN n.links
        /\ \A name \in DOMAIN n.links :
             changed[N - d][n].links[name] = changed[N - d - 1][n.links[name]]
    <3>1. N - d \in 0 .. MaxDepth /\ N - d \in 1 .. MaxDepth
      BY MfsTreeAssumption
    <3> QED
      BY <2>2, <3>1, ChangedDef
  <2>4. Children(n) \subseteq down[d + 1]
    BY <2>1, NodesDownToDef
  <2> HIDE DEF changed, down
  <2>5. ASSUME NEW name \in DOMAIN n.links
        PROVE  changed[N - d - 1][n.links[name]] \in E(d + 1)
    <3>1. n.links[name] \in down[d + 1]
      BY <2>4 DEF Children
    <3> QED
      BY <2>1, <3>1
  <2> QED
    BY <2>3, <2>5 DEF Children
<1>3. ASSUME NEW n \in down[N]
      PROVE  "links" \in DOMAIN changed[0][n] /\ Children(changed[0][n]) \subseteq B
  <2>1. n \in NodesOf(node) /\ n \in B
    BY <1>1, MfsTreeAssumption
  <2>2. "links" \in DOMAIN n /\ Children(n) \subseteq B
    BY <2>1 DEF Closed
  <2>3. "links" \in DOMAIN changed[0][n] /\ changed[0][n].links = n.links
    BY <2>1, <2>2, ChangedDef, MfsTreeAssumption
  <2> HIDE DEF changed
  <2> QED
    BY <2>2, <2>3 DEF Children
<1>4. \A d \in 0 .. N : \A x \in E(d) : "links" \in DOMAIN x
  <2> SUFFICES ASSUME NEW d \in 0 .. N, NEW n \in down[d] PROVE "links" \in DOMAIN changed[N - d][n]
    OBVIOUS
  <2> HIDE DEF changed, down
  <2>1. CASE d = N
    <3>1. N - d = 0
      BY <2>1, MfsTreeAssumption
    <3> QED
      BY <1>3, <2>1, <3>1
  <2>2. CASE d # N
    <3>1. d \in 0 .. N - 1
      BY <2>2, MfsTreeAssumption
    <3> QED
      BY <1>2, <3>1
  <2> QED
    BY <2>1, <2>2
<1>5. c \in E(0) /\ new[0] = {c}
  <2>1. new[0] = {c} /\ down[0] = {node}
    BY NodesDownToDef
  <2>2. N - 0 = N
    BY MfsTreeAssumption
  <2> HIDE DEF changed, down, new
  <2> QED
    BY <2>1, <2>2
<1> DEFINE T == {d \in 0 .. N : \A x \in new[d] :
                   "links" \in DOMAIN x /\ (x \in E(d) \/ Children(x) \subseteq new[d])}
<1>6. 0 \in T
  <2> HIDE DEF E, new, c
  <2> QED
    BY <1>4, <1>5, MfsTreeAssumption
<1>7. ASSUME NEW d \in 0 .. N - 1, d \in T PROVE d + 1 \in T
  <2>1. d \in 0 .. N /\ d + 1 \in 0 .. N /\ d + 1 \in 1 .. N /\ d + 1 - 1 = d
    BY MfsTreeAssumption
  <2>2. new[d + 1] = new[d] \cup UNION {Children(n) : n \in new[d]}
    BY <2>1, NodesDownToDef
  <2>3. ASSUME NEW x \in new[d + 1]
        PROVE  "links" \in DOMAIN x /\ (x \in E(d + 1) \/ Children(x) \subseteq new[d + 1])
    <3> HIDE DEF new
    <3>1. CASE x \in new[d]
      <4>1. "links" \in DOMAIN x
        BY <1>7, <3>1
      <4>2. Children(x) \subseteq new[d + 1]
        BY <2>2, <3>1
      <4> QED
        BY <4>1, <4>2
    <3>2. CASE x \notin new[d]
      <4>1. PICK y \in new[d] : x \in Children(y)
        BY <2>2, <3>2
      <4>2. y \in E(d)
        BY <1>7, <3>2, <4>1
      <4>3. x \in E(d + 1)
        <5>1. PICK n \in down[d] : y = changed[N - d][n]
          BY <4>2
        <5>2. Children(changed[N - d][n]) \subseteq E(d + 1)
          BY <1>2
        <5> HIDE DEF changed, down, E
        <5> QED
          BY <4>1, <5>1, <5>2
      <4>4. "links" \in DOMAIN x
        <5> HIDE DEF E
        <5> QED
          BY <1>4, <2>1, <4>3
      <4> QED
        BY <4>3, <4>4
    <3> QED
      BY <3>1, <3>2
  <2> HIDE DEF E, new
  <2> QED
    BY <2>1, <2>3
<1>8. N \in T
  <2>1. 0 .. N \subseteq T /\ N \in 0 .. N
    <3> HIDE DEF T
    <3> QED
      BY <1>6, <1>7, UpTo, MfsTreeAssumption
  <2> HIDE DEF T
  <2> QED
    BY <2>1
<1>9. ASSUME NEW x \in new[N] PROVE "links" \in DOMAIN x /\ Children(x) \subseteq B \cup new[N]
  <2>1. "links" \in DOMAIN x /\ (x \in E(N) \/ Children(x) \subseteq new[N])
    <3> HIDE DEF E, new
    <3> QED
      BY <1>8
  <2>2. ASSUME x \in E(N) PROVE Children(x) \subseteq B
    <3>1. PICK n \in down[N] : x = changed[N - N][n]
      BY <2>2
    <3>2. N - N = 0
      BY MfsTreeAssumption
    <3>3. Children(changed[0][n]) \subseteq B
      BY <1>3
    <3> HIDE DEF changed, down
    <3> QED
      BY <3>1, <3>2, <3>3
  <2> HIDE DEF E, new
  <2> QED
    BY <2>1, <2>2
<1> HIDE DEF new, c
<1>10. Closed(B \cup new[N])
  BY <1>9 DEF Closed
<1> QED
  BY <1>10 DEF Grows, NodesOf, WithMeta, new, c

LEMMA ExpandsSafe ==
  ASSUME NEW B, NEW list, NEW put, Grows(B, put), KnownSteps(list, B \cup put)
  PROVE  Safe(B, Expands(list, put))
  BY DEF Safe, Expands, NoEffect

LEMMA OneKnown ==
  ASSUME NEW B, NEW s, KnownStep(s, B)
  PROVE  KnownSteps(<<s>>, B)
  BY DEF KnownSteps

LEMMA TwoKnown ==
  ASSUME NEW B, NEW s, NEW t, KnownStep(s, B), KnownStep(t, B)
  PROVE  KnownSteps(<<s, t>>, B)
<1> DEFINE list == <<s, t>>
<1>1. \A k \in 1 .. Len(list) : list[k] \in {s, t}
  OBVIOUS
<1> HIDE DEF list
<1>2. KnownSteps(list, B)
  BY <1>1 DEF KnownSteps
<1> QED
  BY <1>2 DEF list

LEMMA DirectoryKnown ==
  ASSUME NEW B, NEW loc, KnownLoc(loc, B)
  PROVE  KnownLoc(Directory(loc), B)
<1> DEFINE cid == loc.cid
           path == loc.path
           front == Front(path)
<1>1. loc = [cid |-> cid, path |-> path] /\ cid \in B \cup {NoNode} /\ front \in Seq(Names)
  BY FrontIsPath DEF KnownLoc
<1>2. Directory(loc) = [cid |-> cid, path |-> front]
  <2>1. Directory(loc) = [[cid |-> cid, path |-> path] EXCEPT !.path = front]
    BY <1>1 DEF Directory
  <2> HIDE DEF cid, path, front
  <2> QED
    BY <2>1
<1> HIDE DEF front, cid, path
<1> QED
  BY <1>1, <1>2 DEF KnownLoc

LEMMA EnsureDirSafe ==
  ASSUME NEW B, Closed(B), NEW tree, NEW s, KnownLoc(s.loc, B), s.opts.flush = TRUE
  PROVE  Safe(B, EnsureDirEffect(tree, s))
<1>1. KnownStep(MkdirStep(s.loc, s.opts), B \cup {})
  BY DEF KnownStep, MkdirStep, KnownLoc
<1>2. Safe(B, Expands(<<MkdirStep(s.loc, s.opts)>>, {}))
  <2>1. Grows(B, {})
    BY DEF Grows
  <2> QED
    BY <1>1, <2>1, OneKnown, ExpandsSafe
<1> QED
  BY <1>2, NothingSafe DEF EnsureDirEffect, Skips

LEMMA StatSafe ==
  ASSUME NEW B, Closed(B), NEW tree, NEW s
  PROVE  Safe(B, StatEffect(tree, s))
<1> DEFINE reads == {ToTrail(Base(tree, s.loc), s.loc.path)[n] : n \in 0 .. Len(s.loc.path)}
<1>1. Safe(B, Fails)
  BY NothingSafe DEF Fails
<1>2. Safe(B, [Skips EXCEPT !.reads = reads])
  <2> HIDE DEF reads
  <2> QED
    BY DEF Skips, NoEffect, Safe, Grows
<1>3. StatEffect(tree, s) = [Skips EXCEPT !.reads = reads] \/ StatEffect(tree, s) = Fails
  BY DEF StatEffect
<1> HIDE DEF reads
<1> QED
  BY <1>1, <1>2, <1>3

LEMMA CpSafe ==
  ASSUME NEW B, Closed(B), NEW tree \in B, NEW s,
         KnownLoc(s.loc, B), KnownLoc(s.from, B), s.opts.flush = TRUE
  PROVE  Safe(B, CpEffect(tree, s))
<1> DEFINE source == Resolve(tree, s.from)
           into == [s.loc EXCEPT !.path = Append(@, NameOf(s.from))]
           link(loc) == LinkStep(loc, source, FALSE, s.opts)
           made == MkdirStep(Directory(s.loc), s.opts)
<1>1. Safe(B, Fails)
  BY NothingSafe DEF Fails
<1> SUFFICES ASSUME Exists(source) PROVE Safe(B, CpEffect(tree, s))
  BY <1>1 DEF CpEffect
<1>2. source \in B
  BY ResolveStays DEF Exists
<1>3. KnownLoc(into, B)
  <2> DEFINE cid == s.loc.cid
             path == s.loc.path
             longer == Append(path, NameOf(s.from))
  <2>1. NameOf(s.from) \in Names
    BY MfsTreeAssumption DEF NameOf, Last, KnownLoc
  <2>2. s.loc = [cid |-> cid, path |-> path] /\ cid \in B \cup {NoNode} /\ longer \in Seq(Names)
    BY <2>1 DEF KnownLoc
  <2>3. into = [cid |-> cid, path |-> longer]
    <3>1. into = [[cid |-> cid, path |-> path] EXCEPT !.path = longer]
      BY <2>2
    <3> HIDE DEF cid, path, longer
    <3> QED
      BY <3>1
  <2> HIDE DEF cid, path, longer, into
  <2> QED
    BY <2>2, <2>3 DEF KnownLoc
<1>4. ASSUME NEW loc, KnownLoc(loc, B) PROVE Safe(B, LinkEffect(tree, link(loc)))
  <2> DEFINE l == link(loc)
  <2>1. l.loc = loc /\ l.opts = s.opts /\ l.node = source
    BY DEF LinkStep
  <2> HIDE DEF l, source
  <2>2. Safe(B, LinkEffect(tree, l))
    BY <1>2, <1>4, <2>1, LinkSafe
  <2> QED
    BY <2>2 DEF l
<1>5. Safe(B, Expands(<<made, link(s.loc)>>, {}))
  <2>1. KnownStep(made, B)
    <3>1. made.loc = Directory(s.loc) /\ made.opts = s.opts /\ made.op = "mkdir"
      BY DEF MkdirStep
    <3> HIDE DEF made
    <3> QED
      BY <3>1, DirectoryKnown DEF KnownStep
  <2>2. KnownStep(link(s.loc), B)
    <3> DEFINE l == link(s.loc)
    <3>1. l.loc = s.loc /\ l.opts = s.opts /\ l.node = source /\ l.op = "link"
      BY DEF LinkStep
    <3> HIDE DEF l, source
    <3>2. KnownStep(l, B)
      BY <1>2, <3>1 DEF KnownStep
    <3> QED
      BY <3>2 DEF l
  <2> HIDE DEF made, source
  <2>3. KnownSteps(<<made, link(s.loc)>>, B)
    BY <2>1, <2>2, TwoKnown
  <2>4. Grows(B, {}) /\ B \cup {} = B
    BY DEF Grows
  <2> QED
    BY <2>3, <2>4, ExpandsSafe
<1>6. CpEffect(tree, s) \in {Fails, LinkEffect(tree, link(into)), LinkEffect(tree, link(s.loc)),
                             Expands(<<made, link(s.loc)>>, {})}
  BY DEF CpEffect
<1> HIDE DEF source, into, link, made
<1> QED
  BY <1>1, <1>3, <1>4, <1>5, <1>6

(* A link to a new node that is stored as well.                           *)
LEMMA LinkNewSafe ==
  ASSUME NEW B, Closed(B), NEW tree \in B, NEW loc, NEW node, NEW opts,
         KnownLoc(loc, B), opts.flush = TRUE,
         "links" \in DOMAIN node, Children(node) \subseteq B
  PROVE  LET effect == LinkEffect(tree, LinkStep(loc, node, FALSE, opts))
         IN  Safe(B, [effect EXCEPT !.put = @ \cup {node}])
<1> DEFINE l == LinkStep(loc, node, FALSE, opts)
           effect == LinkEffect(tree, l)
           C == B \cup {node}
<1>1. Closed(C)
  BY DEF Closed
<1>2. l.loc = loc /\ l.opts = opts /\ l.node = node
  BY DEF LinkStep
<1>3. Safe(C, effect) /\ effect.kind \in {"commit", "fail"}
  <2>1. KnownLoc(loc, C) /\ tree \in C /\ node \in C
    BY DEF KnownLoc
  <2> HIDE DEF C, l
  <2> QED
    BY <1>1, <1>2, <2>1, LinkSafe
<1>4. {"put", "root", "kind"} \subseteq DOMAIN effect
  BY DEF LinkEffect, Commits, Fails, NoEffect
<1>5. Safe(B, [effect EXCEPT !.put = @ \cup {node}])
  <2> DEFINE e == [effect EXCEPT !.put = @ \cup {node}]
  <2> HIDE DEF effect
  <2>1. e.put = effect.put \cup {node} /\ e.root = effect.root /\ e.kind = effect.kind
    BY <1>4
  <2>2. B \cup e.put = C \cup effect.put
    BY <2>1
  <2> HIDE DEF C, e
  <2>3. Safe(B, e)
    BY <1>3, <2>1, <2>2 DEF Safe, Grows
  <2> QED
    BY <2>3 DEF e
<1> QED
  BY <1>5

LEMMA TouchSafe ==
  ASSUME NEW B, Closed(B), NEW tree \in B, NEW s, KnownLoc(s.loc, B), s.opts.flush = TRUE
  PROVE  Safe(B, TouchEffect(tree, s))
<1> DEFINE node == Resolve(tree, s.loc)
           touched == IF Exists(node) THEN [node EXCEPT !.meta = s.meta] ELSE File(<<>>, s.meta)
           effect == LinkEffect(tree, LinkStep(s.loc, touched, FALSE, s.opts))
<1>1. "links" \in DOMAIN touched /\ Children(touched) \subseteq B
  <2>1. node \in B \cup {NoNode}
    BY ResolveStays
  <2> HIDE DEF node
  <2> QED
    BY <2>1, MetaLinks, Leaves DEF Closed, Exists
<1>2. Safe(B, [effect EXCEPT !.put = @ \cup {touched}])
  <2> HIDE DEF touched
  <2> QED
    BY <1>1, LinkNewSafe
<1>3. TouchEffect(tree, s) = [effect EXCEPT !.put = @ \cup {touched}]
  BY DEF TouchEffect
<1> QED
  BY <1>2, <1>3

LEMMA ChmodSafe ==
  ASSUME NEW B, Closed(B), NEW tree \in B, NEW s, KnownLoc(s.loc, B), s.opts.flush = TRUE
  PROVE  Safe(B, ChmodEffect(tree, s))
<1> DEFINE node == Resolve(tree, s.loc)
<1>1. Safe(B, Fails)
  BY NothingSafe DEF Fails
<1> SUFFICES ASSUME Exists(node) PROVE Safe(B, ChmodEffect(tree, s))
  BY <1>1 DEF ChmodEffect
<1>2. node \in B
  BY ResolveStays DEF Exists
<1>3. CASE s.opts.recursive
  <2> DEFINE changed == WithMeta(node, s.meta)
             rm == RmStep(s.loc, s.opts)
             cp == CpStep(IpfsPath(changed, <<>>), s.loc, s.opts)
             C == B \cup NodesOf(changed)
  <2>1. Grows(B, NodesOf(changed)) /\ changed \in NodesOf(changed)
    BY <1>2, ChangedIsClosed, NodeIsOneOfItsNodes
  <2>2. KnownStep(rm, C)
    BY DEF RmStep, KnownStep, KnownLoc
  <2>3. KnownStep(cp, C)
    <3> HIDE DEF changed
    <3>1. KnownLoc(IpfsPath(changed, <<>>), C)
      BY <2>1 DEF IpfsPath, KnownLoc
    <3>2. KnownLoc(s.loc, C)
      BY DEF KnownLoc
    <3>3. cp.op = "cp" /\ cp.from = IpfsPath(changed, <<>>) /\ cp.loc = s.loc /\ cp.opts = s.opts
      BY DEF CpStep
    <3> HIDE DEF cp, C
    <3> QED
      BY <3>1, <3>2, <3>3 DEF KnownStep
  <2>4. Safe(B, Expands(<<rm, cp>>, NodesOf(changed)))
    <3>1. KnownSteps(<<rm, cp>>, C)
      <4> HIDE DEF rm, cp, C
      <4> QED
        BY <2>2, <2>3, TwoKnown
    <3> HIDE DEF rm, cp, changed
    <3> QED
      BY <2>1, <3>1, ExpandsSafe
  <2>5. ChmodEffect(tree, s) = Expands(<<rm, cp>>, NodesOf(changed))
    BY <1>3 DEF ChmodEffect
  <2> QED
    BY <2>4, <2>5
<1>4. CASE ~s.opts.recursive
  <2> DEFINE changed == [node EXCEPT !.meta = s.meta]
             effect == LinkEffect(tree, LinkStep(s.loc, changed, FALSE, s.opts))
  <2>1. "links" \in DOMAIN changed /\ Children(changed) \subseteq B
    <3> HIDE DEF node
    <3> QED
      BY <1>2, MetaLinks DEF Closed
  <2>2. Safe(B, [effect EXCEPT !.put = @ \cup {changed}])
    <3> HIDE DEF changed
    <3> QED
      BY <2>1, LinkNewSafe
  <2>3. ChmodEffect(tree, s) = [effect EXCEPT !.put = @ \cup {changed}]
    BY <1>4 DEF ChmodEffect
  <2> QED
    BY <2>2, <2>3
<1> QED
  BY <1>3, <1>4

(* Whatever a step does, what it stores has below it only what is there,   *)
(* and the root it makes is among it.                                     *)
LEMMA EffectSafe ==
  ASSUME NEW B, Closed(B), NEW tree \in B, NEW s, KnownStep(s, B),
         s.op \in {"mkdir", "rm", "link", "cp", "touch", "chmod", "ensureDir", "stat"}
  PROVE  Safe(B, Effect(tree, s))
<1>1. KnownLoc(s.loc, B) /\ (s.op # "stat" => s.opts.flush = TRUE)
  BY DEF KnownStep
<1>2. CASE s.op = "mkdir"
  BY <1>1, <1>2, MkdirSafe DEF Effect
<1>3. CASE s.op = "rm"
  BY <1>1, <1>3, RmSafe DEF Effect
<1>4. CASE s.op = "link"
  BY <1>1, <1>4, LinkSafe DEF Effect, KnownStep
<1>5. CASE s.op = "cp"
  BY <1>1, <1>5, CpSafe DEF Effect, KnownStep
<1>6. CASE s.op = "touch"
  BY <1>1, <1>6, TouchSafe DEF Effect
<1>7. CASE s.op = "chmod"
  BY <1>1, <1>7, ChmodSafe DEF Effect
<1>8. CASE s.op = "ensureDir"
  BY <1>1, <1>8, EnsureDirSafe DEF Effect
<1>9. CASE s.op = "stat"
  BY <1>9, StatSafe DEF Effect
<1> QED
  BY <1>2, <1>3, <1>4, <1>5, <1>6, <1>7, <1>8, <1>9

-----------------------------------------------------------------------------
(*************************************************************************)
(* The blockstore holds the tree.  It is closed under links, the root is   *)
(* in it, and so is all that a call has still to link or to put.          *)
(*************************************************************************)

KnownCall(c) ==
  /\ KnownSteps(steps[c], blocks)
  /\ at[c] \in {"check", "put"} => Effect(base[c], Head(steps[c])).root \in blocks

Intact ==
  /\ Closed(blocks) /\ root \in blocks /\ Imported \subseteq blocks
  /\ \A c \in Calls : KnownCall(c)

LEMMA NoneKnown ==
  ASSUME NEW B
  PROVE  KnownSteps(<<>>, B)
  BY DEF KnownSteps

LEMMA KnownStepsStay ==
  ASSUME NEW B, NEW C, B \subseteq C, NEW list, KnownSteps(list, B)
  PROVE  KnownSteps(list, C)
  BY KnownStepStays DEF KnownSteps

LEMMA KnownHeadTail ==
  ASSUME NEW B, NEW list, IsSteps(list), list # <<>>, KnownSteps(list, B)
  PROVE  KnownStep(Head(list), B) /\ KnownSteps(Tail(list), B)
<1>1. PICK S : list \in Seq(S)
  BY DEF IsSteps
<1>2. /\ Len(list) \in Nat \ {0} /\ Head(list) = list[1] /\ Len(Tail(list)) = Len(list) - 1
      /\ \A k \in 1 .. Len(Tail(list)) : Tail(list)[k] = list[k + 1]
  BY <1>1
<1>3. \A k \in 1 .. Len(Tail(list)) : k + 1 \in 1 .. Len(list)
  BY <1>2
<1>4. 1 \in 1 .. Len(list)
  BY <1>2
<1> QED
  BY <1>2, <1>3, <1>4 DEF KnownSteps

LEMMA KnownConcat ==
  ASSUME NEW B, NEW s, IsSteps(s), KnownSteps(s, B), NEW t, IsSteps(t), KnownSteps(t, B)
  PROVE  KnownSteps(s \o t, B)
<1>1. PICK S : s \in Seq(S)
  BY DEF IsSteps
<1>2. PICK T : t \in Seq(T)
  BY DEF IsSteps
<1>3. s \in Seq(S \cup T) /\ t \in Seq(S \cup T)
  BY <1>1, <1>2, SeqMonotonic
<1>4. /\ Len(s \o t) = Len(s) + Len(t) /\ Len(s) \in Nat /\ Len(t) \in Nat
      /\ \A k \in 1 .. Len(s) + Len(t) :
           (s \o t)[k] = IF k <= Len(s) THEN s[k] ELSE t[k - Len(s)]
  BY <1>3, ConcatProperties
<1>5. \A k \in 1 .. Len(s) + Len(t) : KnownStep((s \o t)[k], B)
  <2> SUFFICES ASSUME NEW k \in 1 .. Len(s) + Len(t) PROVE KnownStep((s \o t)[k], B)
    OBVIOUS
  <2>1. CASE k <= Len(s)
    <3>1. k \in 1 .. Len(s) /\ (s \o t)[k] = s[k]
      BY <1>4, <2>1
    <3> QED
      BY <3>1 DEF KnownSteps
  <2>2. CASE ~(k <= Len(s))
    <3>1. k - Len(s) \in 1 .. Len(t) /\ (s \o t)[k] = t[k - Len(s)]
      BY <1>4, <2>2
    <3> QED
      BY <3>1 DEF KnownSteps
  <2> QED
    BY <2>1, <2>2
<1> QED
  BY <1>4, <1>5 DEF KnownSteps

LEMMA RequestsAreKnown ==
  ASSUME AllFlush, NEW r \in Requests, r.op \notin {"stat", "write"}
  PROVE  KnownSteps(StepsOf(r), Imported)
<1> USE DEF KnownStep
<1>1. /\ r.op \in {"flush", "mkdir", "rm", "cp", "mv", "touch", "chmod"}
      /\ KnownLoc(r.loc, Imported) /\ r.opts.flush = TRUE
      /\ r.op \in {"cp", "mv"} => KnownLoc(r.from, Imported)
      /\ [r.opts EXCEPT !.recursive = TRUE].flush = TRUE
  BY MfsAssumption DEF AllFlush
<1>2. CASE r.op = "mv"
  <2> DEFINE copy == CpStep(r.from, r.loc, r.opts)
             remove == RmStep(r.from, [r.opts EXCEPT !.recursive = TRUE])
  <2>1. KnownStep(copy, Imported)
    BY <1>1, <1>2 DEF CpStep
  <2>2. KnownStep(remove, Imported)
    <3> DEFINE opts == [r.opts EXCEPT !.recursive = TRUE]
    <3>1. opts.flush = TRUE
      BY <1>1
    <3> HIDE DEF opts
    <3>2. KnownStep(RmStep(r.from, opts), Imported)
      BY <1>1, <1>2, <3>1 DEF RmStep
    <3> QED
      BY <3>2 DEF opts
  <2>3. StepsOf(r) = <<copy, remove>>
    BY <1>2 DEF StepsOf
  <2> HIDE DEF copy, remove
  <2> QED
    BY <2>1, <2>2, <2>3, TwoKnown
<1>3. CASE r.op # "mv"
  <2>1. \E s : KnownStep(s, Imported) /\ StepsOf(r) = <<s>>
    <3>1. CASE r.op = "mkdir"
      <4>1. KnownStep(MkdirStep(r.loc, r.opts), Imported)
        BY <1>1 DEF MkdirStep
      <4> QED
        BY <3>1, <4>1 DEF StepsOf
    <3>2. CASE r.op = "rm"
      <4>1. KnownStep(RmStep(r.loc, r.opts), Imported)
        BY <1>1 DEF RmStep
      <4> QED
        BY <3>2, <4>1 DEF StepsOf
    <3>3. CASE r.op = "cp"
      <4>1. KnownStep(CpStep(r.from, r.loc, r.opts), Imported)
        BY <1>1, <3>3 DEF CpStep
      <4> QED
        BY <3>3, <4>1 DEF StepsOf
    <3>4. CASE r.op = "touch"
      <4>1. KnownStep(TouchStep(r.loc, r.meta, r.opts), Imported)
        BY <1>1 DEF TouchStep
      <4> QED
        BY <3>4, <4>1 DEF StepsOf
    <3>5. CASE r.op = "chmod"
      <4>1. KnownStep(ChmodStep(r.loc, r.meta, r.opts), Imported)
        BY <1>1 DEF ChmodStep
      <4> QED
        BY <3>5, <4>1 DEF StepsOf
    <3>6. CASE r.op = "flush"
      <4>1. KnownStep(StatStep(r.loc), Imported)
        BY <1>1 DEF StatStep
      <4> QED
        BY <3>6, <4>1 DEF StepsOf
    <3> QED
      BY <1>1, <1>3, <3>1, <3>2, <3>3, <3>4, <3>5, <3>6
  <2> QED
    BY <2>1, OneKnown
<1> QED
  BY <1>2, <1>3

LEMMA InitIntact ==
  ASSUME WholeTrees, Init
  PROVE  Intact
<1>1. /\ root = InitialRoot
      /\ blocks = NodesOf(InitialRoot) \cup UNION {NodesOf(n) : n \in Imported}
      /\ at = [c \in Calls |-> "idle"] /\ steps = [c \in Calls |-> <<>>]
  BY DEF Init
<1>2. Closed(blocks)
  <2>1. ASSUME NEW m \in blocks
        PROVE  "links" \in DOMAIN m /\ Children(m) \subseteq blocks
    <3>1. PICK n \in {InitialRoot} \cup Imported : m \in NodesOf(n)
      BY <1>1
    <3>2. "links" \in DOMAIN m /\ Children(m) \subseteq NodesOf(n)
      BY <3>1 DEF WholeTrees, Closed
    <3>3. NodesOf(n) \subseteq blocks
      BY <1>1
    <3> QED
      BY <3>2, <3>3
  <2> QED
    BY <2>1 DEF Closed
<1>3. root \in blocks /\ Imported \subseteq blocks
  BY <1>1, NodeIsOneOfItsNodes
<1>4. \A c \in Calls : KnownCall(c)
  BY <1>1, NoneKnown DEF KnownCall
<1> QED
  BY <1>2, <1>3, <1>4 DEF Intact

LEMMA IntactFrame ==
  ASSUME Intact, NEW c \in Calls, Undisturbing(c), KnownCall(c)',
         blocks \subseteq blocks', Closed(blocks'), root' \in blocks'
  PROVE  Intact'
<1>1. ASSUME NEW d \in Calls \ {c} PROVE KnownCall(d)'
  <2>1. steps'[d] = steps[d] /\ at'[d] = at[d] /\ base'[d] = base[d]
    BY DEF Undisturbing
  <2>2. KnownSteps(steps[d], blocks')
    BY KnownStepsStay DEF Intact, KnownCall
  <2>3. at[d] \in {"check", "put"} => Effect(base[d], Head(steps[d])).root \in blocks'
    BY DEF Intact, KnownCall
  <2> QED
    BY <2>1, <2>2, <2>3 DEF KnownCall
<1> QED
  BY <1>1 DEF Intact

LEMMA EndsIntact ==
  ASSUME IInv, NEW c \in Calls, NEW result, Ends(c, result)
  PROVE  KnownCall(c)'
<1>1. steps'[c] = <<>> /\ at'[c] = "idle"
  BY DEF Ends, IInv, Types
<1> QED
  BY <1>1, NoneKnown DEF KnownCall

LEMMA StepDoneIntact ==
  ASSUME IInv, Intact, NEW c \in Calls, Inside(c), StepDone(c), blocks \subseteq blocks'
  PROVE  KnownCall(c)'
<1>1. CASE Len(steps[c]) = 1
  BY <1>1, EndsIntact DEF StepDone
<1>2. CASE Len(steps[c]) # 1
  <2>1. steps'[c] = Tail(steps[c]) /\ at'[c] = "load"
    BY <1>2 DEF StepDone, IInv, Types
  <2>2. IsSteps(steps[c]) /\ steps[c] # <<>> /\ KnownSteps(steps[c], blocks)
    BY DEF IInv, CallInv, Inside, Intact, KnownCall
  <2>3. KnownSteps(Tail(steps[c]), blocks')
    BY <2>2, KnownHeadTail, KnownStepsStay
  <2> QED
    BY <2>1, <2>3 DEF KnownCall
<1> QED
  BY <1>1, <1>2

LEMMA BeginIntact ==
  ASSUME AllFlush, IInv, Intact, NEW c \in Calls, NEW r \in Requests, Begin(c, r)
  PROVE  Intact'
<1>1. UNCHANGED <<root, blocks>> /\ Undisturbing(c)
  BY BeginKeeps DEF Begin
<1>2. KnownCall(c)'
  <2>1. at'[c] \in {"read", "wait"}
    BY DEF Begin, IInv, Types
  <2>2. CASE UNCHANGED steps
    <3>1. KnownSteps(steps[c], blocks)
      BY DEF Intact, KnownCall
    <3> QED
      BY <1>1, <2>1, <2>2, <3>1 DEF KnownCall
  <2>3. CASE r.op \notin {"stat", "write"} /\ steps' = [steps EXCEPT ![c] = StepsOf(r)]
    <3>1. steps'[c] = StepsOf(r)
      BY <2>3 DEF IInv, Types
    <3>2. KnownSteps(StepsOf(r), blocks)
      BY <2>3, RequestsAreKnown, KnownStepsStay DEF Intact
    <3> QED
      BY <1>1, <2>1, <3>1, <3>2 DEF KnownCall
  <2> QED
    BY <2>2, <2>3 DEF Begin
<1> QED
  BY <1>1, <1>2, IntactFrame DEF Intact

LEMMA ReadIntact ==
  ASSUME IInv, Intact, NEW c \in Calls, Stat(c) \/ ReadDestination(c) \/ LoadAborted(c) \/ Check(c)
                                        \/ Enter(c)
  PROVE  Intact'
<1>1. UNCHANGED <<root, blocks>> /\ Undisturbing(c)
  <2>1. UNCHANGED <<root, blocks>>
    BY DEF Stat, ReadDestination, LoadAborted, Check, Enter
  <2> QED
    BY <2>1, StepKeeps DEF Advance
<1>2. KnownCall(c)'
  <2>1. CASE \E result : Ends(c, result)
    BY <2>1, EndsIntact
  <2>2. CASE UNCHANGED <<steps, blocks>> /\ at'[c] \in {"import", "load"}
    <3>1. KnownSteps(steps[c], blocks)
      BY DEF Intact, KnownCall
    <3> QED
      BY <2>2, <3>1 DEF KnownCall
  <2>3. CASE UNCHANGED <<steps, base, blocks>> /\ at[c] = "check" /\ at'[c] = "put"
    <3>1. KnownSteps(steps[c], blocks) /\ Effect(base[c], Head(steps[c])).root \in blocks
      BY <2>3 DEF Intact, KnownCall
    <3> QED
      BY <2>3, <3>1 DEF KnownCall
  <2>4. CASE Stat(c) \/ LoadAborted(c)
    BY <2>1, <2>4 DEF Stat, LoadAborted
  <2>5. CASE ReadDestination(c)
    <3>1. Ends(c, "failed") \/ (UNCHANGED <<steps, blocks>> /\ at'[c] = "import")
      BY <2>5 DEF ReadDestination, IInv, Types
    <3> QED
      BY <2>1, <2>2, <3>1
  <2>6. CASE Check(c)
    <3>1. Ends(c, "failed") \/ (UNCHANGED <<steps, base, blocks>> /\ at[c] = "check" /\ at'[c] = "put")
      BY <2>6 DEF Check, IInv, Types
    <3> QED
      BY <2>1, <2>3, <3>1
  <2>7. CASE Enter(c)
    BY <2>2, <2>7 DEF Enter, IInv, Types
  <2> QED
    BY <2>4, <2>5, <2>6, <2>7
<1> QED
  BY <1>1, <1>2, IntactFrame DEF Intact

LEMMA ImportIntact ==
  ASSUME AllFlush, IInv, Intact, NEW c \in Calls, Import(c)
  PROVE  Intact'
<1> DEFINE r == request[c]
           file == Written(base[c], r)
           ensured == EnsureDirStep(Directory(r.loc), r.opts)
           linked == LinkStep(r.loc, file, TRUE, r.opts)
<1>1. /\ blocks' = blocks \cup {file} /\ steps'[c] = <<ensured, linked>>
      /\ at'[c] = "wait" /\ UNCHANGED root
  BY DEF Import, IInv, Types
<1>2. Undisturbing(c)
  BY ImportKeeps
<1>3. r \in Requests /\ KnownLoc(r.loc, Imported) /\ r.opts.flush = TRUE
  BY DEF Import, IInv, CallInv, AllFlush
<1>4. KnownLoc(r.loc, blocks')
  <2>1. Imported \subseteq blocks'
    BY <1>1 DEF Intact
  <2> QED
    BY <1>3, <2>1 DEF KnownLoc
<1>5. KnownStep(ensured, blocks')
  <2>1. KnownLoc(Directory(r.loc), blocks')
    BY <1>4, DirectoryKnown
  <2>2. ensured.op = "ensureDir" /\ ensured.loc = Directory(r.loc) /\ ensured.opts = r.opts
    BY DEF EnsureDirStep
  <2> HIDE DEF ensured
  <2> QED
    BY <1>3, <2>1, <2>2 DEF KnownStep
<1>6. KnownStep(linked, blocks')
  <2>1. linked.op = "link" /\ linked.loc = r.loc /\ linked.opts = r.opts /\ linked.node = file
    BY DEF LinkStep
  <2> HIDE DEF linked, file
  <2> QED
    BY <1>1, <1>3, <1>4, <2>1 DEF KnownStep
<1>7. Closed(blocks')
  <2>1. "links" \in DOMAIN file /\ Children(file) = {}
    BY Leaves DEF Written
  <2> HIDE DEF file
  <2> QED
    BY <1>1, <2>1 DEF Closed, Intact
<1>8. KnownCall(c)'
  <2> HIDE DEF ensured, linked
  <2>1. KnownSteps(<<ensured, linked>>, blocks')
    BY <1>5, <1>6, TwoKnown
  <2> QED
    BY <1>1, <2>1 DEF KnownCall
<1> HIDE DEF file
<1> QED
  BY <1>1, <1>2, <1>7, <1>8, IntactFrame DEF Intact

LEMMA LoadIntact ==
  ASSUME IInv, Intact, NEW c \in Calls, Load(c)
  PROVE  Intact'
<1> DEFINE effect == Effect(root, Head(steps[c]))
<1>1. blocks' = blocks \cup effect.put /\ UNCHANGED root /\ at[c] = "load" /\ Inside(c)
  BY DEF Load, LoadFrom, Inside
<1>2. Undisturbing(c)
  BY LoadKeeps
<1>3. IsSteps(steps[c]) /\ steps[c] # <<>> /\ KnownSteps(steps[c], blocks)
  BY <1>1 DEF IInv, CallInv, Intact, KnownCall
<1>4. KnownStep(Head(steps[c]), blocks) /\ KnownSteps(Tail(steps[c]), blocks)
  BY <1>3, KnownHeadTail
<1>5. Safe(blocks, effect)
  <2>1. Head(steps[c]).op \in StepOps
    BY <1>3, RestOfSteps
  <2> QED
    BY <1>4, <2>1, EffectSafe DEF Intact, StepOps
<1>6. Closed(blocks') /\ blocks \subseteq blocks'
  BY <1>1, <1>5 DEF Safe, Grows
<1>7. KnownCall(c)'
  <2>1. CASE Ends(c, "failed")
    BY <2>1, EndsIntact
  <2>2. CASE StepDone(c)
    BY <1>1, <1>6, <2>2, StepDoneIntact
  <2>3. CASE effect.kind = "expand" /\ UNCHANGED at
             /\ steps' = [steps EXCEPT ![c] = effect.steps \o Tail(@)]
    <3>1. steps'[c] = effect.steps \o Tail(steps[c])
      BY <2>3 DEF IInv, Types
    <3>2. IsSteps(effect.steps) /\ IsSteps(Tail(steps[c]))
      BY <1>3, <2>3, RestOfSteps, ExpansionIsSteps
    <3>3. KnownSteps(effect.steps, blocks') /\ KnownSteps(Tail(steps[c]), blocks')
      BY <1>1, <1>4, <1>5, <1>6, <2>3, KnownStepsStay DEF Safe
    <3> HIDE DEF effect
    <3>4. KnownSteps(effect.steps \o Tail(steps[c]), blocks')
      BY <3>2, <3>3, KnownConcat
    <3> QED
      BY <1>1, <2>3, <3>1, <3>4 DEF KnownCall
  <2>4. CASE effect.kind = "commit" /\ base' = [base EXCEPT ![c] = root] /\ UNCHANGED steps
    <3>1. base'[c] = root
      BY <2>4 DEF IInv, Types
    <3>2. effect.root \in blocks'
      BY <1>1, <1>5, <2>4 DEF Safe
    <3>3. KnownSteps(steps[c], blocks')
      BY <1>3, <1>6, KnownStepsStay
    <3> QED
      BY <2>4, <3>1, <3>2, <3>3 DEF KnownCall
  <2> QED
    BY <2>1, <2>2, <2>3, <2>4 DEF Load, LoadFrom
<1> HIDE DEF effect
<1> QED
  BY <1>1, <1>2, <1>6, <1>7, IntactFrame DEF Intact

LEMMA PutIntact ==
  ASSUME IInv, Intact, NEW c \in Calls, Put(c)
  PROVE  Intact'
<1>1. Undisturbing(c) /\ UNCHANGED blocks /\ Inside(c)
  BY PutKeeps DEF Put, Inside
<1>2. root' \in blocks
  BY DEF Put, Intact, KnownCall
<1>3. KnownCall(c)'
  BY <1>1, StepDoneIntact DEF Put
<1> QED
  BY <1>1, <1>2, <1>3, IntactFrame DEF Intact

LEMMA TimeoutIntact ==
  ASSUME IInv, Intact, NEW c \in Calls, Timeout(c) \/ NestedTimeout(c)
  PROVE  Intact'
<1>1. Undisturbing(c) /\ UNCHANGED <<root, blocks, at, base>>
  BY TimeoutKeeps DEF Timeout, NestedTimeout
<1>2. KnownCall(c)'
  <2>1. CASE Timeout(c)
    <3>1. UNCHANGED steps
      BY <2>1 DEF Timeout
    <3> QED
      BY <1>1, <3>1 DEF Intact, KnownCall
  <2>2. CASE NestedTimeout(c)
    <3> DEFINE s == Head(steps[c])
    <3>1. steps'[c] = <<s>> /\ IsSteps(steps[c]) /\ steps[c] # <<>>
      BY <2>2 DEF NestedTimeout, IInv, Types, CallInv, Inside
    <3>2. KnownStep(s, blocks)
      BY <3>1, KnownHeadTail DEF Intact, KnownCall
    <3>3. at[c] \in {"check", "put"} => Effect(base[c], s).root \in blocks
      BY DEF Intact, KnownCall
    <3> HIDE DEF s
    <3>4. KnownSteps(<<s>>, blocks) /\ Head(<<s>>) = s
      BY <3>2, OneKnown
    <3> QED
      BY <1>1, <3>1, <3>3, <3>4 DEF KnownCall
  <2> QED
    BY <2>1, <2>2
<1> QED
  BY <1>1, <1>2, IntactFrame DEF Intact

LEMMA CrashIntact ==
  ASSUME Intact, Crash
  PROVE  Intact'
<1>1. /\ at' = [c \in Calls |-> "idle"] /\ steps' = [c \in Calls |-> <<>>]
      /\ UNCHANGED <<root, blocks>>
  BY DEF Crash
<1>2. \A c \in Calls : KnownCall(c)'
  BY <1>1, NoneKnown DEF KnownCall
<1> QED
  BY <1>1, <1>2 DEF Intact

LEMMA StepIntact ==
  ASSUME AllFlush, IInv, Intact, [Next]_vars
  PROVE  Intact'
<1>1. ASSUME NEW c \in Calls, Advance(c) PROVE Intact'
  BY <1>1, ReadIntact, ImportIntact, LoadIntact, PutIntact DEF Advance
<1>2. CASE UNCHANGED vars
  BY <1>2 DEF vars, callVars, Intact, KnownCall
<1> QED
  BY <1>1, <1>2, BeginIntact, TimeoutIntact, CrashIntact DEF Next

(* The tree never dangles: everything below the root of the datastore is   *)
(* in the blockstore, at each moment a crash or a reader without the lock  *)
(* may see.  Every operation stores its blocks before it puts the root.   *)
(* As all calls flush, nothing is missing at all (leftOut plays no part).  *)
THEOREM TreeNeverDangles ==
  ASSUME AllFlush, WholeTrees
  PROVE  Spec => []RootIntact /\ [](NodesOf(root) \subseteq blocks)
<1>1. Init => Intact
  BY InitIntact
<1>2. IInv /\ Intact /\ [Next]_vars => Intact'
  BY StepIntact
<1>3. Intact => NodesOf(root) \subseteq blocks
  BY ClosedTree DEF Intact
<1>4. NodesOf(root) \subseteq blocks => RootIntact
  BY DEF RootIntact
<1> QED
  BY <1>1, <1>2, <1>3, <1>4, AlwaysIInv, PTL DEF Spec

-----------------------------------------------------------------------------
(*************************************************************************)
(* Changes are confined to the paths of the call that makes them.        *)
(*************************************************************************)

SameButLinks(x, y) == [x EXCEPT !.links = NoEntries] = [y EXCEPT !.links = NoEntries]

(* Two paths that are the same up to a length. *)
Agree(p, q, m) == m <= Len(p) /\ m <= Len(q) /\ \A i \in 1 .. m : p[i] = q[i]

LEMMA PrefixAgrees ==
  ASSUME NEW p \in Seq(Names), NEW q \in Seq(Names)
  PROVE  IsPrefix(p, q) <=> Agree(p, q, Len(p))
<1>1. CASE Len(p) <= Len(q)
  <2>1. /\ SubSeq(p, 1, Len(p)) = [i \in 1 .. Len(p) |-> p[i]]
        /\ SubSeq(q, 1, Len(p)) = [i \in 1 .. Len(p) |-> q[i]]
    BY <1>1
  <2> QED
    BY <1>1, <2>1 DEF IsPrefix, Agree
<1>2. CASE ~(Len(p) <= Len(q))
  BY <1>2 DEF IsPrefix, Agree
<1> QED
  BY <1>1, <1>2

(* Two paths of which neither leads to the other part somewhere.          *)
LEMMA PathsPart ==
  ASSUME NEW p \in Seq(Names), NEW q \in Seq(Names), ~IsPrefix(p, q), ~IsPrefix(q, p)
  PROVE  \E m \in Nat : /\ m < Len(p) /\ m < Len(q)
                        /\ Agree(p, q, m) /\ p[m + 1] # q[m + 1]
<1> DEFINE D == {i \in Nat : i > 0 /\ i <= Len(p) /\ i <= Len(q) /\ p[i] # q[i]}
<1>1. D # {}
  <2> SUFFICES ASSUME D = {} PROVE FALSE
    OBVIOUS
  <2>1. \A i \in Nat : i > 0 /\ i <= Len(p) /\ i <= Len(q) => p[i] = q[i]
    OBVIOUS
  <2>2. Agree(p, q, Len(p)) \/ Agree(q, p, Len(q))
    BY <2>1 DEF Agree
  <2> QED
    BY <2>2, PrefixAgrees
<1>2. PICK i \in D : \A j \in D : i <= j
  <2>1. D \subseteq Nat
    OBVIOUS
  <2> HIDE DEF D
  <2> QED
    BY <1>1, <2>1, LeastOf
<1>3. i - 1 \in Nat /\ i - 1 < Len(p) /\ i - 1 < Len(q) /\ i - 1 + 1 = i
  BY <1>2
<1>4. Agree(p, q, i - 1)
  <2>1. \A j \in 1 .. i - 1 : j \in Nat /\ j > 0 /\ j <= Len(p) /\ j <= Len(q) /\ j < i
    BY <1>2
  <2>2. \A j \in 1 .. i - 1 : p[j] = q[j]
    BY <1>2, <2>1
  <2> QED
    BY <1>3, <2>2 DEF Agree
<1> QED
  BY <1>2, <1>3, <1>4

(* Along paths that agree the trails do.                                  *)
LEMMA TrailsAgree ==
  ASSUME NEW bottom, NEW p \in Seq(Names), NEW q \in Seq(Names), NEW m \in Nat, Agree(p, q, m)
  PROVE  \A n \in 0 .. m : ToTrail(bottom, p)[n] = ToTrail(bottom, q)[n]
<1> DEFINE t == ToTrail(bottom, p)
           u == ToTrail(bottom, q)
           T == {n \in 0 .. m : t[n] = u[n]}
<1>1. 0 \in T
  BY TrailDef
<1>2. ASSUME NEW n \in 0 .. m - 1, n \in T PROVE n + 1 \in T
  <2>1. /\ n + 1 \in 1 .. Len(p) /\ n + 1 \in 1 .. Len(q) /\ n + 1 \in 0 .. m
        /\ n + 1 - 1 = n /\ p[n + 1] = q[n + 1]
    BY DEF Agree
  <2>2. t[n + 1] = Child(t[n], p[n + 1]) /\ u[n + 1] = Child(u[n], q[n + 1])
    BY <2>1, TrailDef
  <2> QED
    BY <1>2, <2>1, <2>2
<1>3. 0 .. m \subseteq T
  <2> HIDE DEF T
  <2> QED
    BY <1>1, <1>2, UpTo
<1> QED
  BY <1>3

(* Two trails of a path that meet go on together.                         *)
LEMMA TrailsMeet ==
  ASSUME NEW x, NEW y, NEW q \in Seq(Names), NEW m \in 0 .. Len(q),
         ToTrail(x, q)[m] = ToTrail(y, q)[m]
  PROVE  At(x, q) = At(y, q)
<1> DEFINE t == ToTrail(x, q)
           u == ToTrail(y, q)
           N == Len(q)
           T == {n \in 0 .. N - m : t[m + n] = u[m + n]}
<1>1. 0 \in T
  <2>1. m + 0 = m /\ 0 \in 0 .. N - m
    OBVIOUS
  <2> QED
    BY <2>1
<1>2. ASSUME NEW n \in 0 .. N - m - 1, n \in T PROVE n + 1 \in T
  <2>1. /\ m + (n + 1) \in 1 .. N /\ m + (n + 1) - 1 = m + n /\ n + 1 \in 0 .. N - m
    OBVIOUS
  <2>2. /\ t[m + (n + 1)] = Child(t[m + n], q[m + (n + 1)])
        /\ u[m + (n + 1)] = Child(u[m + n], q[m + (n + 1)])
    BY <2>1, TrailDef
  <2> QED
    BY <1>2, <2>1, <2>2
<1>3. N - m \in T
  <2>1. N - m \in Nat /\ N - m \in 0 .. N - m
    OBVIOUS
  <2>2. 0 .. N - m \subseteq T
    <3> DEFINE K == N - m
    <3>1. K \in Nat /\ \A n \in 0 .. K - 1 : n \in T => n + 1 \in T
      BY <1>2, <2>1
    <3> HIDE DEF K, T
    <3>2. 0 .. K \subseteq T
      BY <1>1, <3>1, UpTo
    <3> QED
      BY <3>2 DEF K
  <2> HIDE DEF T
  <2> QED
    BY <2>1, <2>2
<1>4. t[N] = u[N]
  <2>1. m + (N - m) = N
    OBVIOUS
  <2> QED
    BY <1>3, <2>1
<1> QED
  BY <1>4 DEF At

(* Nothing is below nothing.                                              *)
LEMMA TrailEnds ==
  ASSUME NEW x, NEW q \in Seq(Names), NEW m \in 0 .. Len(q), ToTrail(x, q)[m] = NoNode
  PROVE  At(x, q) = NoNode
<1> DEFINE u == ToTrail(NoNode, q)
           T == {n \in 0 .. Len(q) : u[n] = NoNode}
<1>1. 0 \in T
  BY TrailDef
<1>2. ASSUME NEW n \in 0 .. Len(q) - 1, n \in T PROVE n + 1 \in T
  <2>1. n + 1 \in 1 .. Len(q) /\ n + 1 \in 0 .. Len(q) /\ n + 1 - 1 = n
    OBVIOUS
  <2>2. u[n + 1] = Child(u[n], q[n + 1])
    BY <2>1, TrailDef
  <2>3. Child(NoNode, q[n + 1]) = NoNode
    BY DEF Child, NoNode, NewNode, NoEntries
  <2> QED
    BY <1>2, <2>1, <2>2, <2>3
<1>3. 0 .. Len(q) \subseteq T
  <2>1. Len(q) \in Nat
    OBVIOUS
  <2> HIDE DEF T
  <2> QED
    BY <1>1, <1>2, <2>1, UpTo
<1>4. u[m] = NoNode /\ u[Len(q)] = NoNode
  <2>1. m \in 0 .. Len(q) /\ Len(q) \in 0 .. Len(q)
    OBVIOUS
  <2> QED
    BY <1>3, <2>1
<1>5. At(x, q) = At(NoNode, q)
  BY <1>4, TrailsMeet
<1> QED
  BY <1>4, <1>5 DEF At

LEMMA AtPrefix ==
  ASSUME NEW x, NEW p \in Seq(Names), NEW q \in Seq(Names), Agree(p, q, Len(p))
  PROVE  At(x, p) = ToTrail(x, q)[Len(p)]
<1>1. Len(p) \in Nat /\ Len(p) \in 0 .. Len(p)
  OBVIOUS
<1> QED
  BY <1>1, TrailsAgree DEF At

LEMMA ChildOfAdded ==
  ASSUME NEW parent, "links" \in DOMAIN parent, NEW name, NEW node
  PROVE  LET new == AddLink(parent, name, node) IN
         /\ Child(new, name) = node
         /\ \A other : other # name => Child(new, other) = Child(parent, other)
         /\ SameButLinks(new, parent) /\ "links" \in DOMAIN new
  BY DEF AddLink, Child, SameButLinks

LEMMA ChildOfRemoved ==
  ASSUME NEW parent, "links" \in DOMAIN parent, NEW name
  PROVE  LET new == RemoveLink(parent, name) IN
         /\ \A other : other # name => Child(new, other) = Child(parent, other)
         /\ SameButLinks(new, parent)
  BY DEF RemoveLink, Child, SameButLinks

(* A rebuilt tree, seen along the path that was rebuilt.                  *)
LEMMA RebuiltTrail ==
  ASSUME NEW B, Closed(B), NEW old \in B, NEW dir \in Seq(Names), NEW updated,
         NEW q \in Seq(Names), NEW m \in Nat, Agree(q, dir, m)
  PROVE  LET rebuilt == UpdateTree(ToTrail(old, dir), dir, updated)
         IN  \A n \in 0 .. m : ToTrail(rebuilt[0], q)[n] = rebuilt[n]
<1> DEFINE trail == ToTrail(old, dir)
           rebuilt == UpdateTree(trail, dir, updated)
           t == ToTrail(rebuilt[0], q)
           T == {n \in 0 .. m : t[n] = rebuilt[n]}
<1>1. 0 \in T
  BY TrailDef
<1>2. ASSUME NEW n \in 0 .. m - 1, n \in T PROVE n + 1 \in T
  <2>1. /\ n + 1 \in 1 .. Len(q) /\ n \in 0 .. Len(dir) - 1 /\ n \in 0 .. Len(dir) /\ n + 1 \in 0 .. m
        /\ n + 1 - 1 = n /\ q[n + 1] = dir[n + 1]
    BY DEF Agree
  <2>2. t[n + 1] = Child(t[n], q[n + 1])
    BY <2>1, TrailDef
  <2>3. rebuilt[n] = AddLink(trail[n], dir[n + 1], rebuilt[n + 1])
    BY <2>1, UpdateTreeDef
  <2>4. "links" \in DOMAIN trail[n]
    BY <2>1, TrailStays, Leaves DEF Closed
  <2> HIDE DEF trail, rebuilt, t
  <2>5. Child(rebuilt[n], dir[n + 1]) = rebuilt[n + 1]
    BY <2>3, <2>4, ChildOfAdded
  <2> QED
    BY <1>2, <2>1, <2>2, <2>5
<1>3. 0 .. m \subseteq T
  <2> HIDE DEF T
  <2> QED
    BY <1>1, <1>2, UpTo
<1> QED
  BY <1>3

(* ... along a path that leaves it: nothing has changed there.            *)
LEMMA RebuiltBeside ==
  ASSUME NEW B, Closed(B), NEW old \in B, NEW dir \in Seq(Names), NEW updated,
         NEW q \in Seq(Names), NEW m \in Nat, Agree(q, dir, m), m < Len(q),
         \/ m < Len(dir) /\ q[m + 1] # dir[m + 1]
         \/ m = Len(dir) /\ Child(updated, q[m + 1]) = Child(At(old, dir), q[m + 1])
  PROVE  At(UpdateTree(ToTrail(old, dir), dir, updated)[0], q) = At(old, q)
<1> DEFINE trail == ToTrail(old, dir)
           rebuilt == UpdateTree(trail, dir, updated)
           t == ToTrail(rebuilt[0], q)
           u == ToTrail(old, q)
<1>1. /\ m \in 0 .. m /\ m + 1 \in 1 .. Len(q) /\ m + 1 \in 0 .. Len(q) /\ m + 1 - 1 = m
      /\ m \in 0 .. Len(dir)
  BY DEF Agree
<1>2. t[m] = rebuilt[m]
  BY <1>1, RebuiltTrail
<1>3. u[m] = trail[m]
  BY <1>1, TrailsAgree
<1>4. t[m + 1] = Child(t[m], q[m + 1]) /\ u[m + 1] = Child(u[m], q[m + 1])
  BY <1>1, TrailDef
<1>5. CASE m < Len(dir) /\ q[m + 1] # dir[m + 1]
  <2>1. m \in 0 .. Len(dir) - 1
    BY <1>5
  <2>2. rebuilt[m] = AddLink(trail[m], dir[m + 1], rebuilt[m + 1])
    BY <2>1, UpdateTreeDef
  <2>3. "links" \in DOMAIN trail[m]
    BY <1>1, TrailStays, Leaves DEF Closed
  <2>4. t[m + 1] = u[m + 1]
    <3> HIDE DEF t, u, rebuilt, trail
    <3>1. Child(rebuilt[m], q[m + 1]) = Child(trail[m], q[m + 1])
      BY <1>5, <2>2, <2>3, ChildOfAdded
    <3> QED
      BY <1>2, <1>3, <1>4, <3>1
  <2> QED
    BY <1>1, <2>4, TrailsMeet
<1>6. CASE m = Len(dir) /\ Child(updated, q[m + 1]) = Child(At(old, dir), q[m + 1])
  <2>1. rebuilt[m] = updated /\ trail[m] = At(old, dir)
    BY <1>6, UpdateTreeDef DEF At
  <2>2. t[m + 1] = u[m + 1]
    <3> HIDE DEF t, u, rebuilt, trail
    <3> QED
      BY <1>2, <1>3, <1>4, <1>6, <2>1
  <2> QED
    BY <1>1, <2>2, TrailsMeet
<1> QED
  BY <1>5, <1>6

(* ... and at a directory that was rebuilt: its entries may have.         *)
LEMMA RebuiltAbove ==
  ASSUME NEW B, Closed(B), NEW old \in B, NEW dir \in Seq(Names), NEW updated,
         SameButLinks(updated, At(old, dir)),
         NEW q \in Seq(Names), Agree(q, dir, Len(q))
  PROVE  SameButLinks(At(UpdateTree(ToTrail(old, dir), dir, updated)[0], q), At(old, q))
<1> DEFINE trail == ToTrail(old, dir)
           rebuilt == UpdateTree(trail, dir, updated)
           N == Len(q)
<1>1. N \in Nat /\ N \in 0 .. N /\ N <= Len(dir) /\ N \in 0 .. Len(dir)
  BY DEF Agree
<1>2. At(rebuilt[0], q) = rebuilt[N]
  BY <1>1, RebuiltTrail DEF At
<1>3. At(old, q) = trail[N]
  BY <1>1, TrailsAgree DEF At
<1>4. SameButLinks(rebuilt[N], trail[N])
  <2>1. CASE N = Len(dir)
    <3>1. rebuilt[N] = updated /\ trail[N] = At(old, dir)
      BY <2>1, UpdateTreeDef DEF At
    <3> HIDE DEF rebuilt, trail
    <3> QED
      BY <3>1
  <2>2. CASE N # Len(dir)
    <3>1. N \in 0 .. Len(dir) - 1
      BY <1>1, <2>2
    <3>2. rebuilt[N] = AddLink(trail[N], dir[N + 1], rebuilt[N + 1])
      BY <3>1, UpdateTreeDef
    <3>3. "links" \in DOMAIN trail[N]
      BY <1>1, TrailStays, Leaves DEF Closed
    <3> HIDE DEF rebuilt, trail, N
    <3> QED
      BY <3>2, <3>3, ChildOfAdded
  <2> QED
    BY <2>1, <2>2
<1> HIDE DEF rebuilt, trail, N
<1> QED
  BY <1>2, <1>3, <1>4 DEF rebuilt, trail

(* Confined, for paths of any length. *)
Within(old, new, path) ==
  \A q \in Seq(Names) :
    /\ Beside(q, path) => At(new, q) = At(old, q)
    /\ IsStrictPrefix(q, path) /\ Exists(At(old, q)) => SameButLinks(At(new, q), At(old, q))

LEMMA FrontAgrees ==
  ASSUME NEW p \in Seq(Names), p # <<>>
  PROVE  /\ Front(p) \in Seq(Names) /\ Len(Front(p)) \in Nat /\ Len(p) = Len(Front(p)) + 1
         /\ \A i \in 1 .. Len(Front(p)) : Front(p)[i] = p[i]
         /\ Last(p) = p[Len(Front(p)) + 1]
<1>1. Len(p) \in Nat \ {0}
  BY EmptySeq
<1>2. Front(p) = SubSeq(p, 1, Len(p) - 1) /\ Len(p) - 1 \in Nat
  BY <1>1 DEF Front
<1>3. Front(p) \in Seq(Names) /\ Len(Front(p)) = Len(p) - 1
      /\ \A i \in 1 .. Len(p) - 1 : Front(p)[i] = p[i]
  <2>1. \A n \in Nat : n <= Len(p) =>
          /\ SubSeq(p, 1, n) \in Seq(Names) /\ Len(SubSeq(p, 1, n)) = n
          /\ \A i \in 1 .. n : SubSeq(p, 1, n)[i] = p[i]
    BY <1>1
  <2>2. Len(p) - 1 <= Len(p)
    BY <1>1
  <2> HIDE DEF Front
  <2> QED
    BY <1>2, <2>1, <2>2, Zenon
<1>4. Len(p) - 1 + 1 = Len(p)
  BY <1>1
<1> QED
  BY <1>2, <1>3, <1>4 DEF Last

(* A directory of which one entry has changed.                            *)
OneEntryOf(new, old, name) ==
  /\ SameButLinks(new, old)
  /\ \A other : other # name => Child(new, other) = Child(old, other)

(* Setting or removing one entry of the directory at the front of a path.  *)
LEMMA EntryConfined ==
  ASSUME NEW B, Closed(B), NEW old \in B, NEW p \in Seq(Names), p # <<>>, NEW updated,
         OneEntryOf(updated, At(old, Front(p)), Last(p))
  PROVE  Within(old, UpdateTree(ToTrail(old, Front(p)), Front(p), updated)[0], p)
<1> DEFINE dir == Front(p)
           new == UpdateTree(ToTrail(old, dir), dir, updated)[0]
<1>1. /\ dir \in Seq(Names) /\ Len(dir) \in Nat /\ Len(p) = Len(dir) + 1
      /\ \A i \in 1 .. Len(dir) : dir[i] = p[i]
      /\ Last(p) = p[Len(dir) + 1]
  BY FrontAgrees
<1>2. ASSUME NEW q \in Seq(Names), Beside(q, p) PROVE At(new, q) = At(old, q)
  <2>1. PICK m \in Nat : m < Len(q) /\ m < Len(p) /\ Agree(q, p, m) /\ q[m + 1] # p[m + 1]
    BY <1>2, PathsPart DEF Beside
  <2>2. Agree(q, dir, m)
    <3>1. m <= Len(q) /\ m <= Len(dir)
      BY <1>1, <2>1
    <3>2. \A i \in 1 .. m : i \in 1 .. Len(dir)
      BY <3>1
    <3> HIDE DEF dir
    <3> QED
      BY <1>1, <2>1, <3>1, <3>2 DEF Agree
  <2>3. CASE m < Len(dir)
    <3>1. m + 1 \in 1 .. Len(dir)
      BY <1>1, <2>3
    <3>2. q[m + 1] # dir[m + 1]
      <4> HIDE DEF dir
      <4> QED
        BY <1>1, <2>1, <3>1
    <3> HIDE DEF dir
    <3> QED
      BY <1>1, <2>1, <2>2, <2>3, <3>2, RebuiltBeside DEF dir
  <2>4. CASE ~(m < Len(dir))
    <3>1. m = Len(dir)
      BY <1>1, <2>1, <2>4
    <3>2. Child(updated, q[m + 1]) = Child(At(old, dir), q[m + 1])
      BY <1>1, <2>1, <3>1 DEF OneEntryOf
    <3> HIDE DEF dir
    <3> QED
      BY <1>1, <2>1, <2>2, <3>1, <3>2, RebuiltBeside DEF dir
  <2> QED
    BY <2>3, <2>4
<1>3. ASSUME NEW q \in Seq(Names), IsStrictPrefix(q, p)
      PROVE  SameButLinks(At(new, q), At(old, q))
  <2>1. Agree(q, p, Len(q)) /\ q # p
    BY <1>3, PrefixAgrees DEF IsStrictPrefix
  <2>2. Len(q) # Len(p)
    <3> SUFFICES ASSUME Len(q) = Len(p) PROVE q = p
      BY <2>1
    <3>1. \A i \in 1 .. Len(p) : q[i] = p[i]
      BY <2>1 DEF Agree
    <3> QED
      BY <3>1, SeqEqual
  <2>3. Len(q) \in Nat /\ Len(q) <= Len(dir)
    BY <1>1, <2>1, <2>2 DEF Agree
  <2>4. Agree(q, dir, Len(q))
    <3>1. \A i \in 1 .. Len(q) : i \in 1 .. Len(dir)
      BY <1>1, <2>3
    <3> HIDE DEF dir
    <3> QED
      BY <1>1, <2>1, <2>3, <3>1 DEF Agree
  <2> QED
    BY <1>1, <2>4, RebuiltAbove DEF OneEntryOf
<1> HIDE DEF new
<1>4. Within(old, new, p)
  BY <1>2, <1>3 DEF Within
<1> QED
  BY <1>4 DEF new

LEMMA LinkConfined ==
  ASSUME NEW B, Closed(B), NEW tree \in B, NEW s,
         s.loc.cid = NoNode, s.loc.path \in Seq(Names), LinkEffect(tree, s).kind = "commit"
  PROVE  /\ Within(tree, LinkEffect(tree, s).root, s.loc.path)
         /\ At(LinkEffect(tree, s).root, s.loc.path) = s.node
<1> DEFINE p == s.loc.path
           dir == Front(p)
           parent == At(tree, dir)
           updated == AddLink(parent, Last(p), s.node)
           new == UpdateTree(ToTrail(tree, dir), dir, updated)[0]
<1>1. p \in Seq(Names) /\ p # <<>> /\ LinkEffect(tree, s).root = new
  <2>1. Base(tree, s.loc) = tree
    BY DEF Base, Exists
  <2>2. Fails.kind # "commit"
    BY DEF Fails, NoEffect
  <2>3. \A put, flush : Commits(tree, dir, updated, put, flush).root = new
    BY DEF Commits, NoEffect
  <2>4. p # <<>> /\ \E put, flush : LinkEffect(tree, s) = Commits(tree, dir, updated, put, flush)
    BY <2>1, <2>2 DEF LinkEffect
  <2> QED
    BY <2>3, <2>4
<1>2. /\ dir \in Seq(Names) /\ Len(dir) \in Nat /\ Len(p) = Len(dir) + 1
      /\ \A i \in 1 .. Len(dir) : dir[i] = p[i]
      /\ Last(p) = p[Len(dir) + 1]
  BY <1>1, FrontAgrees
<1>3. "links" \in DOMAIN parent
  BY <1>2, AtStays, Leaves DEF Closed
<1>4. OneEntryOf(updated, parent, Last(p)) /\ Child(updated, Last(p)) = s.node
  <2> HIDE DEF parent, p
  <2> QED
    BY <1>3, ChildOfAdded DEF OneEntryOf
<1>5. Within(tree, new, p)
  <2> HIDE DEF updated, p
  <2> QED
    BY <1>1, <1>4, EntryConfined
<1>6. At(new, p) = s.node
  <2> DEFINE n == Len(dir)
  <2>1. Agree(p, dir, n) /\ n \in 0 .. n /\ n + 1 \in 1 .. Len(p) /\ n + 1 - 1 = n /\ Len(p) = n + 1
    <3> HIDE DEF dir, p
    <3> QED
      BY <1>2 DEF Agree
  <2>2. ToTrail(new, p)[n] = UpdateTree(ToTrail(tree, dir), dir, updated)[n]
    <3> HIDE DEF updated, p, dir
    <3>1. n \in Nat
      BY <1>2
    <3> QED
      BY <1>1, <1>2, <2>1, <3>1, RebuiltTrail
  <2>3. UpdateTree(ToTrail(tree, dir), dir, updated)[n] = updated
    BY <1>2, UpdateTreeDef
  <2>4. ToTrail(new, p)[n + 1] = Child(ToTrail(new, p)[n], p[n + 1])
    <3> HIDE DEF new, p
    <3>1. Len(p) \in Nat
      BY <1>2
    <3> QED
      BY <2>1, <3>1, TrailDef
  <2> HIDE DEF new, p, updated, dir
  <2> QED
    BY <1>2, <1>4, <2>1, <2>2, <2>3, <2>4 DEF At
<1> QED
  BY <1>1, <1>5, <1>6

LEMMA RmConfined ==
  ASSUME NEW B, Closed(B), NEW tree \in B, NEW s,
         s.loc.cid = NoNode, s.loc.path \in Seq(Names), RmEffect(tree, s).kind = "commit"
  PROVE  Within(tree, RmEffect(tree, s).root, s.loc.path)
<1> DEFINE p == s.loc.path
           dir == Front(p)
           parent == At(tree, dir)
           updated == RemoveLink(parent, Last(p))
           new == UpdateTree(ToTrail(tree, dir), dir, updated)[0]
<1>1. p \in Seq(Names) /\ p # <<>> /\ RmEffect(tree, s).root = new
  <2>1. Base(tree, s.loc) = tree
    BY DEF Base, Exists
  <2>2. Fails.kind # "commit"
    BY DEF Fails, NoEffect
  <2>3. \A put, flush : Commits(tree, dir, updated, put, flush).root = new
    BY DEF Commits, NoEffect
  <2>4. p # <<>> /\ \E put, flush : RmEffect(tree, s) = Commits(tree, dir, updated, put, flush)
    BY <2>1, <2>2 DEF RmEffect
  <2> QED
    BY <2>3, <2>4
<1>2. "links" \in DOMAIN parent
  BY <1>1, FrontAgrees, AtStays, Leaves DEF Closed
<1>3. OneEntryOf(updated, parent, Last(p))
  <2> HIDE DEF parent, p
  <2> QED
    BY <1>2, ChildOfRemoved DEF OneEntryOf
<1>4. Within(tree, new, p)
  <2> HIDE DEF updated, p
  <2> QED
    BY <1>1, <1>3, EntryConfined
<1> QED
  BY <1>1, <1>4

LEMMA PrefixIsPath ==
  ASSUME NEW p \in Seq(Names), NEW n \in 0 .. Len(p)
  PROVE  /\ Prefix(p, n) \in Seq(Names) /\ Len(Prefix(p, n)) = n
         /\ \A i \in 1 .. n : Prefix(p, n)[i] = p[i]
  BY DEF Prefix

(* In a chain of new directories there is nothing beside the chain.       *)
LEMMA NothingBesideChain ==
  ASSUME NEW x, NEW q \in Seq(Names), NEW below \in Seq(Names), NEW f \in Nat,
         NEW k \in 0 .. Len(below), f + k < Len(q),
         ToTrail(x, q)[f] = UpdateTree([n \in 0 .. Len(below) |-> EmptyDir], below, EmptyDir)[0],
         \A j \in 1 .. k : q[f + j] = below[j],
         k < Len(below) => q[f + k + 1] # below[k + 1]
  PROVE  At(x, q) = NoNode
<1> DEFINE empties == [n \in 0 .. Len(below) |-> EmptyDir]
           chain == UpdateTree(empties, below, EmptyDir)
           t == ToTrail(x, q)
           T == {j \in 0 .. k : t[f + j] = chain[j]}
<1>1. ASSUME NEW j \in 0 .. Len(below) - 1
      PROVE  /\ Child(chain[j], below[j + 1]) = chain[j + 1]
             /\ \A other : other # below[j + 1] => Child(chain[j], other) = NoNode
  <2>1. empties[j] = EmptyDir
    OBVIOUS
  <2>2. chain[j] = AddLink(EmptyDir, below[j + 1], chain[j + 1])
    BY <2>1, UpdateTreeDef
  <2>3. \A other : Child(EmptyDir, other) = NoNode
    BY DEF Child, EmptyDir, NewNode, NoEntries
  <2> HIDE DEF chain
  <2> QED
    BY <2>2, <2>3, Leaves, ChildOfAdded
<1>2. chain[Len(below)] = EmptyDir
  BY UpdateTreeDef
<1>3. 0 \in T
  BY f + 0 = f
<1>4. ASSUME NEW j \in 0 .. k - 1, j \in T PROVE j + 1 \in T
  <2>1. /\ f + (j + 1) \in 1 .. Len(q) /\ f + (j + 1) - 1 = f + j /\ j + 1 \in 1 .. k
        /\ j \in 0 .. Len(below) - 1 /\ j + 1 \in 0 .. k
    OBVIOUS
  <2>2. t[f + (j + 1)] = Child(t[f + j], q[f + (j + 1)])
    <3>1. Len(q) \in Nat
      OBVIOUS
    <3>2. \A n \in 1 .. Len(q) : t[n] = Child(t[n - 1], q[n])
      BY <3>1, TrailDef
    <3> HIDE DEF t
    <3> QED
      BY <2>1, <3>2
  <2>3. q[f + (j + 1)] = below[j + 1]
    BY <2>1
  <2> HIDE DEF t, chain
  <2> QED
    BY <1>1, <1>4, <2>1, <2>2, <2>3
<1>5. t[f + k] = chain[k]
  <2>1. 0 .. k \subseteq T /\ k \in 0 .. k
    <3>1. k \in Nat
      OBVIOUS
    <3>2. \A j \in 0 .. k - 1 : j \in T => j + 1 \in T
      <4> HIDE DEF T
      <4> QED
        BY <1>4
    <3>3. k \in 0 .. k
      BY <3>1
    <3> HIDE DEF T
    <3> QED
      BY <1>3, <3>1, <3>2, <3>3, UpTo
  <2> QED
    BY <2>1
<1>6. t[f + k + 1] = Child(chain[k], q[f + k + 1]) /\ f + k + 1 \in 0 .. Len(q)
  <2>1. f + k + 1 \in 1 .. Len(q) /\ f + k + 1 - 1 = f + k /\ f + k + 1 \in 0 .. Len(q)
    OBVIOUS
  <2> QED
    BY <1>5, <2>1, TrailDef
<1>7. Child(chain[k], q[f + k + 1]) = NoNode
  <2>1. CASE k < Len(below)
    <3>1. k \in 0 .. Len(below) - 1
      BY <2>1
    <3> HIDE DEF chain
    <3> QED
      BY <1>1, <2>1, <3>1
  <2>2. CASE ~(k < Len(below))
    <3>1. k = Len(below)
      BY <2>2
    <3>2. Child(EmptyDir, q[f + k + 1]) = NoNode
      BY SMTT(60) DEF Child, EmptyDir, NewNode, NoEntries
    <3> HIDE DEF chain
    <3> QED
      BY <1>2, <3>1, <3>2
  <2> QED
    BY <2>1, <2>2
<1> QED
  BY <1>6, <1>7, TrailEnds

(* mkdir: only what is on the path and was not there has changed, and the  *)
(* entries of what is on the path and was there.                          *)
Only(old, new, path) ==
  \A q \in Seq(Names) :
    /\ ~IsPrefix(q, path) => At(new, q) = At(old, q)
    /\ IsPrefix(q, path) /\ Exists(At(old, q)) => SameButLinks(At(new, q), At(old, q))

LEMMA MkdirConfined ==
  ASSUME NEW B, Closed(B), NEW tree \in B, NEW s,
         s.loc.path \in Seq(Names), MkdirEffect(tree, s).kind = "commit"
  PROVE  Only(tree, MkdirEffect(tree, s).root, s.loc.path)
<1> DEFINE path == s.loc.path
           missing == {n \in 1 .. Len(path) : ~Exists(At(tree, Prefix(path, n)))}
           first == Min(missing)
           over == Prefix(path, first - 1)
           below == SubSeq(path, first + 1, Len(path))
           empties == [n \in 0 .. Len(below) |-> EmptyDir]
           chain == UpdateTree(empties, below, EmptyDir)
           parent == At(tree, over)
           updated == AddLink(parent, path[first], chain[0])
           new == UpdateTree(ToTrail(tree, over), over, updated)[0]
<1>1. missing # {} /\ MkdirEffect(tree, s).root = new
  <2> DEFINE firstVersion == AddLink(parent, path[first], EmptyDir)
             stored == {chain[n] : n \in 0 .. Len(below)} \cup {firstVersion, updated}
             effect == Commits(tree, over, updated, IF s.opts.flush THEN stored ELSE {}, s.opts.flush)
             read == [effect EXCEPT !.reads = (@ \ {updated}) \cup {firstVersion, EmptyDir}]
  <2>1. Fails.kind # "commit" /\ Skips.kind # "commit"
    BY SMTT(60) DEF Fails, Skips, NoEffect
  <2>2. effect.root = new /\ {"root", "reads"} \subseteq DOMAIN effect
    BY DEF Commits, NoEffect
  <2>3. read.root = new
    <3> HIDE DEF effect, new
    <3> QED
      BY <2>2
  <2>4. missing # {} /\ MkdirEffect(tree, s) = read
    BY <2>1 DEF MkdirEffect
  <2> QED
    BY <2>3, <2>4
<1>2. path \in Seq(Names) /\ Len(path) \in Nat
  OBVIOUS
<1>3. first \in 1 .. Len(path) /\ ~Exists(At(tree, Prefix(path, first)))
  <2>1. missing \subseteq Nat
    BY <1>2
  <2>2. \E n \in missing : \A m \in missing : n <= m
    <3> HIDE DEF missing
    <3> QED
      BY <1>1, <2>1, LeastOf
  <2>3. first \in missing
    <3> HIDE DEF missing
    <3> QED
      BY <2>2 DEF Min
  <2> QED
    BY <2>3
<1> HIDE DEF path, missing, first
<1>4. first \in Nat /\ first - 1 \in Nat /\ first - 1 \in 0 .. Len(path) /\ first \in 0 .. Len(path)
      /\ first - 1 + 1 = first
  BY <1>2, <1>3
<1>5. /\ over \in Seq(Names) /\ Len(over) = first - 1
      /\ \A i \in 1 .. first - 1 : over[i] = path[i]
  BY <1>2, <1>4, PrefixIsPath
<1>6. /\ below \in Seq(Names) /\ Len(below) = Len(path) - first
      /\ \A j \in 1 .. Len(path) - first : below[j] = path[first + j]
  BY <1>2, <1>3
<1> HIDE DEF over, below
<1>7. "links" \in DOMAIN parent
  BY <1>4, <1>5, AtStays, Leaves DEF Closed
<1>8. OneEntryOf(updated, parent, path[first]) /\ Child(updated, path[first]) = chain[0]
  <2> HIDE DEF parent, chain
  <2> QED
    BY <1>7, ChildOfAdded DEF OneEntryOf
<1> HIDE DEF updated
<1>9. ASSUME NEW q \in Seq(Names), NEW m \in Nat, Agree(q, path, m), m <= first - 1
      PROVE  Agree(q, over, m)
  <2>1. m <= Len(q) /\ m <= Len(over)
    BY <1>5, <1>9 DEF Agree
  <2>2. \A i \in 1 .. m : i \in 1 .. first - 1
    BY <1>4, <1>9
  <2> QED
    BY <1>5, <1>9, <2>1, <2>2 DEF Agree
<1>10. ASSUME NEW q \in Seq(Names), first <= Len(q), Agree(q, path, first)
       PROVE  ToTrail(tree, q)[first] = NoNode
  <2> DEFINE p == Prefix(path, first)
  <2>1. p \in Seq(Names) /\ Len(p) = first /\ \A i \in 1 .. first : p[i] = path[i]
    BY <1>2, <1>4, PrefixIsPath
  <2> HIDE DEF p
  <2>2. Agree(p, q, Len(p))
    BY <1>4, <1>10, <2>1 DEF Agree
  <2>3. At(tree, p) = ToTrail(tree, q)[first]
    BY <2>1, <2>2, AtPrefix
  <2> QED
    BY <1>3, <2>3 DEF p, Exists
<1>11. ASSUME NEW q \in Seq(Names), ~IsPrefix(q, path)
       PROVE  At(new, q) = At(tree, q)
  <2>1. PICK m \in Nat : /\ m < Len(q) /\ m <= Len(path) /\ Agree(q, path, m)
                         /\ m < Len(path) => q[m + 1] # path[m + 1]
    <3>1. CASE IsPrefix(path, q)
      <4>1. Agree(path, q, Len(path))
        BY <1>2, <3>1, PrefixAgrees
      <4>2. Agree(q, path, Len(path)) /\ Len(path) <= Len(q)
        BY <1>2, <4>1 DEF Agree
      <4>3. Len(path) # Len(q)
        BY <1>2, <1>11, <4>2, PrefixAgrees
      <4>4. Len(path) < Len(q)
        BY <1>2, <4>2, <4>3
      <4> QED
        BY <1>2, <4>2, <4>4
    <3>2. CASE ~IsPrefix(path, q)
      <4>1. PICK m \in Nat : m < Len(q) /\ m < Len(path) /\ Agree(q, path, m) /\ q[m + 1] # path[m + 1]
        BY <1>2, <1>11, <3>2, PathsPart
      <4> QED
        BY <1>2, <4>1
    <3> QED
      BY <3>1, <3>2
  <2>2. CASE m < first - 1
    <3>1. Agree(q, over, m)
      BY <1>4, <1>9, <2>1, <2>2
    <3>2. m < Len(path) /\ m < Len(over) /\ m + 1 \in 1 .. first - 1
      BY <1>2, <1>4, <1>5, <2>2
    <3>3. q[m + 1] # over[m + 1]
      BY <1>5, <2>1, <3>2
    <3> QED
      BY <1>5, <2>1, <3>1, <3>2, <3>3, RebuiltBeside
  <2>3. CASE m = first - 1
    <3>1. Agree(q, over, m)
      BY <1>4, <1>9, <2>1, <2>3
    <3>2. m < Len(path) /\ m = Len(over) /\ m + 1 = first
      BY <1>2, <1>3, <1>4, <1>5, <2>3
    <3>3. Child(updated, q[m + 1]) = Child(At(tree, over), q[m + 1])
      BY <1>8, <2>1, <3>2 DEF OneEntryOf
    <3> QED
      BY <1>5, <2>1, <3>1, <3>2, <3>3, RebuiltBeside
  <2>4. CASE m >= first
    <3>1. /\ first <= Len(q) /\ Agree(q, path, first) /\ first \in 0 .. Len(q) /\ first \in 1 .. Len(q)
          /\ q[first] = path[first]
      <4>1. first <= Len(q) /\ first <= Len(path) /\ first \in 1 .. m
        BY <1>3, <1>4, <2>1, <2>4
      <4>2. \A i \in 1 .. first : i \in 1 .. m
        BY <1>4, <2>4
      <4>3. first \in 0 .. Len(q) /\ first \in 1 .. Len(q)
        BY <1>3, <4>1
      <4> QED
        BY <2>1, <4>1, <4>2, <4>3 DEF Agree
    <3>2. At(tree, q) = NoNode
      BY <1>10, <3>1, TrailEnds
    <3>3. ToTrail(new, q)[first] = chain[0]
      <4>1. Agree(q, path, first - 1)
        <5>1. first - 1 <= Len(q) /\ first - 1 <= Len(path) /\ \A i \in 1 .. first - 1 : i \in 1 .. first
          BY <1>2, <1>4, <3>1
        <5> QED
          BY <3>1, <5>1 DEF Agree
      <4>2. Agree(q, over, first - 1)
        BY <1>4, <1>9, <4>1
      <4>3. ToTrail(new, q)[first - 1] = UpdateTree(ToTrail(tree, over), over, updated)[first - 1]
        <5>1. first - 1 \in 0 .. first - 1
          BY <1>4
        <5> QED
          BY <1>4, <1>5, <4>2, <5>1, RebuiltTrail
      <4>4. UpdateTree(ToTrail(tree, over), over, updated)[first - 1] = updated
        BY <1>4, <1>5, UpdateTreeDef
      <4>5. ToTrail(new, q)[first] = Child(ToTrail(new, q)[first - 1], q[first])
        <5> HIDE DEF new
        <5>1. Len(q) \in Nat
          OBVIOUS
        <5> QED
          BY <3>1, <5>1, TrailDef
      <4> HIDE DEF new, chain
      <4> QED
        BY <1>8, <3>1, <4>3, <4>4, <4>5
    <3>4. At(new, q) = NoNode
      <4> DEFINE k == m - first
      <4>1. k \in 0 .. Len(below) /\ first + k = m /\ (k < Len(below) <=> m < Len(path))
        BY <1>2, <1>4, <1>6, <2>1, <2>4, SMTT(60)
      <4>2. ASSUME NEW j \in 1 .. k PROVE q[first + j] = below[j]
        <5>1. first + j \in 1 .. m /\ j \in 1 .. Len(path) - first
          BY <1>2, <1>4, <2>1, <2>4
        <5> QED
          BY <1>6, <2>1, <5>1 DEF Agree
      <4>3. ASSUME k < Len(below) PROVE q[first + k + 1] # below[k + 1]
        <5>1. m < Len(path) /\ first + (k + 1) = m + 1 /\ first + k + 1 = m + 1
              /\ k + 1 \in 1 .. Len(path) - first
          BY <1>2, <1>4, <1>6, <2>1, <2>4, <4>1, <4>3
        <5> QED
          BY <1>6, <2>1, <5>1
      <4> HIDE DEF k, new
      <4> QED
        BY <1>4, <1>6, <2>1, <3>3, <4>1, <4>2, <4>3, NothingBesideChain
    <3> QED
      BY <3>2, <3>4
  <2> QED
    BY <1>4, <2>2, <2>3, <2>4
<1>12. ASSUME NEW q \in Seq(Names), IsPrefix(q, path), Exists(At(tree, q))
       PROVE  SameButLinks(At(new, q), At(tree, q))
  <2>1. Agree(q, path, Len(q)) /\ Len(q) \in Nat
    BY <1>2, <1>12, PrefixAgrees
  <2>2. Len(q) <= first - 1
    <3> SUFFICES ASSUME ~(Len(q) <= first - 1) PROVE FALSE
      OBVIOUS
    <3>1. first <= Len(q) /\ first \in 0 .. Len(q) /\ \A i \in 1 .. first : i \in 1 .. Len(q)
      BY <1>4, <2>1
    <3>2. Agree(q, path, first)
      BY <1>2, <1>3, <2>1, <3>1 DEF Agree
    <3>3. At(tree, q) = NoNode
      BY <1>10, <3>1, <3>2, TrailEnds
    <3> QED
      BY <1>12, <3>3 DEF Exists
  <2>3. Agree(q, over, Len(q))
    BY <1>9, <2>1, <2>2
  <2> QED
    BY <1>5, <1>8, <2>3, RebuiltAbove DEF OneEntryOf
<1> HIDE DEF new
<1>13. Only(tree, new, path)
  BY <1>11, <1>12 DEF Only
<1> QED
  BY <1>1, <1>13 DEF path

LEMMA PrefixTransitive ==
  ASSUME NEW p \in Seq(Names), NEW q \in Seq(Names), NEW r \in Seq(Names),
         IsPrefix(p, q), IsPrefix(q, r)
  PROVE  IsPrefix(p, r)
<1>1. Agree(p, q, Len(p)) /\ Agree(q, r, Len(q)) /\ Len(p) \in Nat /\ Len(q) \in Nat /\ Len(r) \in Nat
  BY PrefixAgrees
<1>2. Len(p) <= Len(q) /\ Len(q) <= Len(r) /\ \A i \in 1 .. Len(p) : i \in 1 .. Len(q)
  BY <1>1 DEF Agree
<1>3. Agree(p, r, Len(p))
  BY <1>1, <1>2 DEF Agree
<1> QED
  BY <1>3, PrefixAgrees

(* Two prefixes of one path: one is a prefix of the other.                *)
LEMMA PrefixesMeet ==
  ASSUME NEW p \in Seq(Names), NEW q \in Seq(Names), NEW r \in Seq(Names),
         IsPrefix(p, r), IsPrefix(q, r)
  PROVE  IsPrefix(p, q) \/ IsPrefix(q, p)
<1>1. Agree(p, r, Len(p)) /\ Agree(q, r, Len(q)) /\ Len(p) \in Nat /\ Len(q) \in Nat
  BY PrefixAgrees
<1>2. CASE Len(p) <= Len(q)
  <2>1. \A i \in 1 .. Len(p) : i \in 1 .. Len(q)
    BY <1>1, <1>2
  <2>2. Agree(p, q, Len(p))
    BY <1>1, <1>2, <2>1 DEF Agree
  <2> QED
    BY <2>2, PrefixAgrees
<1>3. CASE Len(q) <= Len(p)
  <2>1. \A i \in 1 .. Len(q) : i \in 1 .. Len(p)
    BY <1>1, <1>3
  <2>2. Agree(q, p, Len(q))
    BY <1>1, <1>3, <2>1 DEF Agree
  <2> QED
    BY <2>2, PrefixAgrees
<1> QED
  BY <1>1, <1>2, <1>3

LEMMA SamePrefix ==
  ASSUME NEW p \in Seq(Names), NEW q \in Seq(Names), IsPrefix(p, q), IsPrefix(q, p)
  PROVE  p = q
<1>1. Agree(p, q, Len(p)) /\ Agree(q, p, Len(q)) /\ Len(p) \in Nat /\ Len(q) \in Nat
  BY PrefixAgrees
<1>2. Len(p) = Len(q) /\ \A i \in 1 .. Len(p) : p[i] = q[i]
  BY <1>1 DEF Agree
<1> QED
  BY <1>2, SeqEqual

LEMMA WithinAbove ==
  ASSUME NEW old, NEW new, NEW p \in Seq(Names), NEW above \in Seq(Names),
         IsPrefix(above, p), Within(old, new, p)
  PROVE  Within(old, new, above)
<1>1. ASSUME NEW q \in Seq(Names), Beside(q, above) PROVE Beside(q, p)
  BY <1>1, PrefixTransitive, PrefixesMeet DEF Beside
<1>2. ASSUME NEW q \in Seq(Names), IsStrictPrefix(q, above) PROVE IsStrictPrefix(q, p)
  BY <1>2, PrefixTransitive, SamePrefix DEF IsStrictPrefix
<1> QED
  BY <1>1, <1>2 DEF Within

LEMMA OnlyAbove ==
  ASSUME NEW old, NEW new, NEW p \in Seq(Names), NEW below \in Seq(Names),
         IsPrefix(p, below), Only(old, new, p)
  PROVE  Within(old, new, below)
<1>1. ASSUME NEW q \in Seq(Names), Beside(q, below) PROVE At(new, q) = At(old, q)
  BY <1>1, PrefixTransitive DEF Beside, Only
<1>2. ASSUME NEW q \in Seq(Names), Exists(At(old, q))
      PROVE  SameButLinks(At(new, q), At(old, q))
  BY <1>2 DEF Only, SameButLinks
<1> QED
  BY <1>1, <1>2 DEF Within

(* The paths that a step works under are those of the request.            *)
About(s, r) ==
  /\ s.loc.cid = NoNode
  /\ s.op \in {"mkdir", "ensureDir"} => IsPrefix(s.loc.path, r.loc.path)
  /\ s.op = "rm" => s.loc.path \in TargetsOf(r)
  /\ s.op \in {"link", "cp", "touch", "chmod"} => s.loc.path = r.loc.path

LEMMA IntoIsBelow ==
  ASSUME NEW loc, loc.path \in Seq(Names), NEW name \in Names, "path" \in DOMAIN loc
  PROVE  LET into == [loc EXCEPT !.path = Append(@, name)]
         IN  /\ into.path \in Seq(Names) /\ IsPrefix(loc.path, into.path)
             /\ into.path # <<>> /\ Front(into.path) = loc.path
             /\ loc.cid = NoNode => into.cid = NoNode
<1> DEFINE path == loc.path
           longer == Append(path, name)
           into == [loc EXCEPT !.path = Append(@, name)]
<1>1. into.path = longer /\ (loc.cid = NoNode => into.cid = NoNode)
  OBVIOUS
<1> HIDE DEF path, into
<1>2. path \in Seq(Names)
  BY DEF path
<1>3. longer \in Seq(Names) /\ Len(longer) = Len(path) + 1 /\ longer # <<>> /\ Len(path) \in Nat
      /\ \A i \in 1 .. Len(path) : longer[i] = path[i]
  BY <1>2
<1>4. Agree(path, longer, Len(path))
  BY <1>3 DEF Agree
<1>5. IsPrefix(path, longer)
  BY <1>2, <1>3, <1>4, PrefixAgrees
<1>6. Front(longer) = path
  <2>1. Front(longer) \in Seq(Names) /\ Len(longer) = Len(Front(longer)) + 1 /\ Len(Front(longer)) \in Nat
        /\ \A i \in 1 .. Len(Front(longer)) : Front(longer)[i] = longer[i]
    <3> HIDE DEF longer
    <3> QED
      BY <1>3, FrontAgrees
  <2>2. Len(Front(longer)) = Len(path)
    BY <1>3, <2>1
  <2> HIDE DEF longer
  <2>3. \A i \in 1 .. Len(path) : Front(longer)[i] = path[i]
    BY <1>3, <2>1, <2>2
  <2> QED
    BY <1>2, <2>1, <2>2, <2>3, SeqEqual
<1> HIDE DEF longer
<1> QED
  BY <1>1, <1>3, <1>5, <1>6 DEF path, into

(* What a link under a location or under a name in it makes of the tree.   *)
LEMMA LinkWithin ==
  ASSUME NEW B, Closed(B), NEW tree \in B, NEW loc, loc.cid = NoNode, loc.path \in Seq(Names),
         NEW node, NEW checkType, NEW opts,
         LinkEffect(tree, LinkStep(loc, node, checkType, opts)).kind = "commit"
  PROVE  /\ Within(tree, LinkEffect(tree, LinkStep(loc, node, checkType, opts)).root, loc.path)
         /\ At(LinkEffect(tree, LinkStep(loc, node, checkType, opts)).root, loc.path) = node
<1> DEFINE l == LinkStep(loc, node, checkType, opts)
<1>1. l.loc = loc /\ l.node = node
  BY DEF LinkStep
<1> HIDE DEF l
<1>2. /\ Within(tree, LinkEffect(tree, l).root, loc.path)
      /\ At(LinkEffect(tree, l).root, loc.path) = node
  BY <1>1, LinkConfined DEF l
<1> QED
  BY <1>2 DEF l

LEMMA CpConfined ==
  ASSUME NEW B, Closed(B), NEW tree \in B, NEW s, KnownLoc(s.loc, B), KnownLoc(s.from, B),
         s.loc.cid = NoNode, CpEffect(tree, s).kind = "commit"
  PROVE  Within(tree, CpEffect(tree, s).root, s.loc.path)
<1> DEFINE source == Resolve(tree, s.from)
           into == [s.loc EXCEPT !.path = Append(@, NameOf(s.from))]
           link(loc) == LinkStep(loc, source, FALSE, s.opts)
<1>1. Fails.kind # "commit" /\ \A list, put : Expands(list, put).kind # "commit"
  BY DEF Fails, Expands, NoEffect
<1>2. CpEffect(tree, s) \in {LinkEffect(tree, link(into)), LinkEffect(tree, link(s.loc))}
  <2> DEFINE expanded == Expands(<<MkdirStep(Directory(s.loc), s.opts), link(s.loc)>>, {})
  <2>1. CpEffect(tree, s) \in {Fails, LinkEffect(tree, link(into)), LinkEffect(tree, link(s.loc)),
                              expanded}
    BY DEF CpEffect
  <2>2. expanded.kind # "commit"
    BY <1>1
  <2> HIDE DEF expanded, link, into
  <2> QED
    BY <1>1, <2>1, <2>2
<1>3. s.loc.path \in Seq(Names) /\ NameOf(s.from) \in Names /\ "path" \in DOMAIN s.loc
  <2>1. NameOf(s.from) \in Names
    BY MfsTreeAssumption DEF NameOf, Last, KnownLoc
  <2>2. "path" \in DOMAIN [cid |-> s.loc.cid, path |-> s.loc.path]
    OBVIOUS
  <2> QED
    BY <2>1, <2>2 DEF KnownLoc
<1>4. /\ into.path \in Seq(Names) /\ IsPrefix(s.loc.path, into.path) /\ into.cid = NoNode
  BY <1>3, IntoIsBelow
<1>5. CASE CpEffect(tree, s) = LinkEffect(tree, link(into))
  <2> HIDE DEF into, source
  <2>1. Within(tree, LinkEffect(tree, link(into)).root, into.path)
    BY <1>4, <1>5, LinkWithin
  <2> QED
    BY <1>3, <1>4, <1>5, <2>1, WithinAbove
<1>6. CASE CpEffect(tree, s) = LinkEffect(tree, link(s.loc))
  <2>1. LinkEffect(tree, LinkStep(s.loc, source, FALSE, s.opts)).kind = "commit"
    BY <1>6
  <2> HIDE DEF source
  <2>2. Within(tree, LinkEffect(tree, LinkStep(s.loc, source, FALSE, s.opts)).root, s.loc.path)
    BY <1>3, <2>1, LinkWithin
  <2> QED
    BY <1>6, <2>2
<1> QED
  BY <1>2, <1>5, <1>6

LEMMA TouchConfined ==
  ASSUME NEW B, Closed(B), NEW tree \in B, NEW s,
         s.loc.cid = NoNode, s.loc.path \in Seq(Names), TouchEffect(tree, s).kind = "commit"
  PROVE  Within(tree, TouchEffect(tree, s).root, s.loc.path)
<1> DEFINE node == Resolve(tree, s.loc)
           touched == IF Exists(node) THEN [node EXCEPT !.meta = s.meta] ELSE File(<<>>, s.meta)
           effect == LinkEffect(tree, LinkStep(s.loc, touched, FALSE, s.opts))
<1>1. {"put", "root", "kind"} \subseteq DOMAIN effect
  BY DEF LinkEffect, Commits, Fails, NoEffect
<1>2. TouchEffect(tree, s) \in {effect, [effect EXCEPT !.put = @ \cup {touched}]}
  BY DEF TouchEffect
<1> HIDE DEF effect, touched
<1>3. TouchEffect(tree, s).kind = effect.kind /\ TouchEffect(tree, s).root = effect.root
  BY <1>1, <1>2
<1>5. effect.kind = "commit"
  BY <1>3
<1>6. Within(tree, effect.root, s.loc.path)
  BY <1>5, LinkWithin DEF effect
<1> QED
  BY <1>3, <1>6

LEMMA ChmodConfined ==
  ASSUME NEW B, Closed(B), NEW tree \in B, NEW s,
         s.loc.cid = NoNode, s.loc.path \in Seq(Names), ChmodEffect(tree, s).kind = "commit"
  PROVE  Within(tree, ChmodEffect(tree, s).root, s.loc.path)
<1> DEFINE node == Resolve(tree, s.loc)
           changed == [node EXCEPT !.meta = s.meta]
           effect == LinkEffect(tree, LinkStep(s.loc, changed, FALSE, s.opts))
<1>1. {"put", "root", "kind"} \subseteq DOMAIN effect
  BY DEF LinkEffect, Commits, Fails, NoEffect
<1>2. Fails.kind # "commit" /\ \A list, put : Expands(list, put).kind # "commit"
  BY DEF Fails, Expands, NoEffect
<1>3. ChmodEffect(tree, s) \in {effect, [effect EXCEPT !.put = @ \cup {changed}]}
  BY <1>2 DEF ChmodEffect
<1> HIDE DEF effect, changed
<1>4. ChmodEffect(tree, s).kind = effect.kind /\ ChmodEffect(tree, s).root = effect.root
  BY <1>1, <1>3
<1>5. effect.kind = "commit"
  BY <1>4
<1>6. Within(tree, effect.root, s.loc.path)
  BY <1>5, LinkWithin DEF effect
<1> QED
  BY <1>4, <1>6

(* What a step that is about a request does to the tree stays within one   *)
(* of the paths of the request.                                           *)
LEMMA EffectConfined ==
  ASSUME NEW B, Closed(B), NEW tree \in B, NEW s, KnownStep(s, B), s.op \in StepOps,
         NEW r, r.loc.path \in Seq(Names), About(s, r), Effect(tree, s).kind = "commit"
  PROVE  \E path \in TargetsOf(r) : Within(tree, Effect(tree, s).root, path)
<1>1. KnownLoc(s.loc, B) /\ s.loc.cid = NoNode /\ s.loc.path \in Seq(Names) /\ r.loc.path \in TargetsOf(r)
  BY DEF KnownStep, KnownLoc, About, TargetsOf
<1>2. CASE s.op = "mkdir"
  <2>1. Only(tree, Effect(tree, s).root, s.loc.path)
    BY <1>1, <1>2, MkdirConfined DEF Effect
  <2>2. IsPrefix(s.loc.path, r.loc.path)
    BY <1>2 DEF About
  <2> QED
    BY <1>1, <2>1, <2>2, OnlyAbove
<1>3. CASE s.op = "rm"
  BY <1>1, <1>3, RmConfined DEF Effect, About
<1>4. CASE s.op = "link"
  BY <1>1, <1>4, LinkConfined DEF Effect, About
<1>5. CASE s.op = "cp"
  BY <1>1, <1>5, CpConfined DEF Effect, About, KnownStep
<1>6. CASE s.op = "touch"
  BY <1>1, <1>6, TouchConfined DEF Effect, About
<1>7. CASE s.op = "chmod"
  BY <1>1, <1>7, ChmodConfined DEF Effect, About
<1>8. CASE s.op \in {"ensureDir", "stat"}
  <2>1. Fails.kind # "commit" /\ Skips.kind # "commit"
        /\ \A list, put : Expands(list, put).kind # "commit"
        /\ \A reads : [Skips EXCEPT !.reads = reads].kind # "commit"
    BY DEF Fails, Skips, Expands, NoEffect
  <2> QED
    BY <1>8, <2>1 DEF Effect, EnsureDirEffect, StatEffect
<1> QED
  BY <1>2, <1>3, <1>4, <1>5, <1>6, <1>7, <1>8 DEF StepOps

AboutAll(list, r) == \A s \in Range(list) : About(s, r)

Directed == \A c \in Calls : AboutAll(steps[c], request[c])

LEMMA NoneAbout ==
  ASSUME NEW r
  PROVE  AboutAll(<<>>, r)
  BY DEF AboutAll, Range

LEMMA OneAbout ==
  ASSUME NEW r, NEW s, About(s, r)
  PROVE  AboutAll(<<s>>, r)
  BY DEF AboutAll, Range

LEMMA TwoAbout ==
  ASSUME NEW r, NEW s, NEW t, About(s, r), About(t, r)
  PROVE  AboutAll(<<s, t>>, r)
<1> DEFINE list == <<s, t>>
<1>1. \A k \in DOMAIN list : list[k] \in {s, t}
  OBVIOUS
<1> HIDE DEF list
<1>2. AboutAll(list, r)
  BY <1>1 DEF AboutAll, Range
<1> QED
  BY <1>2 DEF list

LEMMA RangeOfRest ==
  ASSUME NEW list, IsSteps(list), list # <<>>
  PROVE  Head(list) \in Range(list) /\ Range(Tail(list)) \subseteq Range(list)
<1>1. PICK S : list \in Seq(S)
  BY DEF IsSteps
<1>2. /\ Len(list) \in Nat \ {0} /\ DOMAIN list = 1 .. Len(list) /\ Head(list) = list[1]
      /\ Len(Tail(list)) = Len(list) - 1 /\ DOMAIN Tail(list) = 1 .. Len(Tail(list))
      /\ \A k \in 1 .. Len(Tail(list)) : Tail(list)[k] = list[k + 1]
  BY <1>1
<1>3. 1 \in DOMAIN list /\ \A k \in DOMAIN Tail(list) : k + 1 \in DOMAIN list
  BY <1>2
<1> QED
  BY <1>2, <1>3 DEF Range

LEMMA RangeOfConcat ==
  ASSUME NEW s, IsSteps(s), NEW t, IsSteps(t)
  PROVE  Range(s \o t) \subseteq Range(s) \cup Range(t)
<1>1. PICK S : s \in Seq(S)
  BY DEF IsSteps
<1>2. PICK T : t \in Seq(T)
  BY DEF IsSteps
<1>3. s \in Seq(S \cup T) /\ t \in Seq(S \cup T)
  BY <1>1, <1>2, SeqMonotonic
<1>4. /\ Len(s) \in Nat /\ Len(t) \in Nat
      /\ DOMAIN s = 1 .. Len(s) /\ DOMAIN t = 1 .. Len(t) /\ DOMAIN (s \o t) = 1 .. Len(s) + Len(t)
      /\ \A k \in 1 .. Len(s) + Len(t) : (s \o t)[k] = IF k <= Len(s) THEN s[k] ELSE t[k - Len(s)]
  BY <1>3, ConcatProperties
<1>5. \A k \in DOMAIN (s \o t) :
        \/ k \in DOMAIN s /\ (s \o t)[k] = s[k]
        \/ k - Len(s) \in DOMAIN t /\ (s \o t)[k] = t[k - Len(s)]
  BY <1>4
<1> QED
  BY <1>5 DEF Range

LEMMA AboutFewer ==
  ASSUME NEW s, NEW t, NEW r, Range(t) \subseteq Range(s), AboutAll(s, r)
  PROVE  AboutAll(t, r)
  BY DEF AboutAll

LEMMA FrontIsAbove ==
  ASSUME NEW p \in Seq(Names)
  PROVE  IsPrefix(Front(p), p) /\ IsPrefix(p, p)
<1>1. IsPrefix(p, p)
  BY PrefixAgrees DEF Agree
<1>2. CASE p = <<>>
  <2>1. Front(p) = p
    BY <1>2 DEF Front
  <2> QED
    BY <1>1, <2>1
<1>3. CASE p # <<>>
  <2>1. /\ Front(p) \in Seq(Names) /\ Len(Front(p)) \in Nat /\ Len(p) = Len(Front(p)) + 1
        /\ \A i \in 1 .. Len(Front(p)) : Front(p)[i] = p[i]
    BY <1>3, FrontAgrees
  <2>2. Agree(Front(p), p, Len(Front(p)))
    <3>1. Len(Front(p)) <= Len(p)
      BY <2>1
    <3> QED
      BY <2>1, <3>1 DEF Agree
  <2> QED
    BY <1>1, <2>1, <2>2, PrefixAgrees
<1> QED
  BY <1>2, <1>3

LEMMA DirectoryOf ==
  ASSUME NEW loc, NEW B, KnownLoc(loc, B)
  PROVE  Directory(loc).cid = loc.cid /\ Directory(loc).path = Front(loc.path)
<1> DEFINE cid == loc.cid
           path == loc.path
           front == Front(path)
<1>1. loc = [cid |-> cid, path |-> path]
  BY DEF KnownLoc
<1>2. Directory(loc) = [[cid |-> cid, path |-> path] EXCEPT !.path = front]
  BY <1>1 DEF Directory
<1> HIDE DEF cid, path, front
<1>3. Directory(loc).cid = cid /\ Directory(loc).path = front
  BY <1>2
<1> QED
  BY <1>3 DEF cid, path, front

LEMMA RequestsAreDirected ==
  ASSUME AllFlush, InTheMfs, NEW r \in Requests, r.op \notin {"stat", "write"}
  PROVE  AboutAll(StepsOf(r), r)
<1>1. /\ r.op \in {"flush", "mkdir", "rm", "cp", "mv", "touch", "chmod"}
      /\ r.loc.cid = NoNode /\ r.loc.path \in TargetsOf(r) /\ IsPrefix(r.loc.path, r.loc.path)
      /\ r.op = "mv" => r.from.cid = NoNode /\ r.from.path \in TargetsOf(r)
  BY MfsAssumption, FrontIsAbove DEF AllFlush, InTheMfs, KnownLoc, TargetsOf
<1>2. CASE r.op = "mv"
  <2> DEFINE opts == [r.opts EXCEPT !.recursive = TRUE]
  <2> HIDE DEF opts
  <2>1. About(CpStep(r.from, r.loc, r.opts), r) /\ About(RmStep(r.from, opts), r)
    BY <1>1, <1>2 DEF About, CpStep, RmStep
  <2>2. StepsOf(r) = <<CpStep(r.from, r.loc, r.opts), RmStep(r.from, opts)>>
    BY <1>2 DEF StepsOf, opts
  <2> QED
    BY <2>1, <2>2, TwoAbout
<1>3. CASE r.op # "mv"
  <2>1. \E s : About(s, r) /\ StepsOf(r) = <<s>>
    <3>1. CASE r.op = "mkdir"
      BY <1>1, <3>1 DEF StepsOf, About, MkdirStep
    <3>2. CASE r.op = "rm"
      BY <1>1, <3>2 DEF StepsOf, About, RmStep
    <3>3. CASE r.op = "cp"
      BY <1>1, <3>3 DEF StepsOf, About, CpStep
    <3>4. CASE r.op = "touch"
      BY <1>1, <3>4 DEF StepsOf, About, TouchStep
    <3>5. CASE r.op = "chmod"
      BY <1>1, <3>5 DEF StepsOf, About, ChmodStep
    <3>6. CASE r.op = "flush"
      BY <1>1, <3>6 DEF StepsOf, About, StatStep
    <3> QED
      BY <1>1, <1>3, <3>1, <3>2, <3>3, <3>4, <3>5, <3>6
  <2> QED
    BY <2>1, OneAbout
<1> QED
  BY <1>2, <1>3

LEMMA ExpansionIsDirected ==
  ASSUME NEW B, NEW tree, NEW s, KnownStep(s, B), s.op \in StepOps, NEW r, About(s, r),
         r.loc.path \in Seq(Names), Effect(tree, s).kind = "expand"
  PROVE  AboutAll(Effect(tree, s).steps, r)
<1>1. \A list, put : Expands(list, put).steps = list
  BY DEF Expands, NoEffect
<1>2. Fails.kind # "expand" /\ Skips.kind # "expand" /\ \A n : LinkEffect(tree, n).kind # "expand"
  BY LinkKind DEF Fails, Skips, NoEffect
<1>3. s.loc.path \in Seq(Names) /\ Directory(s.loc).cid = s.loc.cid
      /\ Directory(s.loc).path = Front(s.loc.path)
  BY DirectoryOf DEF KnownStep, KnownLoc
<1>4. CASE s.op = "cp"
  <2> DEFINE source == Resolve(tree, s.from)
             made == MkdirStep(Directory(s.loc), s.opts)
             linked == LinkStep(s.loc, source, FALSE, s.opts)
  <2>1. CpEffect(tree, s) = Expands(<<made, linked>>, {})
    <3> DEFINE into == [s.loc EXCEPT !.path = Append(@, NameOf(s.from))]
               expanded == Expands(<<made, linked>>, {})
    <3>1. CpEffect(tree, s) \in {Fails, LinkEffect(tree, LinkStep(into, source, FALSE, s.opts)),
                                LinkEffect(tree, linked), expanded}
      BY DEF CpEffect
    <3> HIDE DEF into, expanded, linked, source
    <3> QED
      BY <1>2, <1>4, <3>1 DEF Effect, expanded
  <2>2. About(made, r)
    BY <1>3, <1>4, FrontIsAbove DEF About, MkdirStep
  <2>3. About(linked, r)
    BY <1>4 DEF About, LinkStep
  <2> HIDE DEF made, linked
  <2> QED
    BY <1>1, <1>4, <2>1, <2>2, <2>3, TwoAbout DEF Effect
<1>5. CASE s.op = "chmod"
  <2> DEFINE changed == WithMeta(Resolve(tree, s.loc), s.meta)
             rm == RmStep(s.loc, s.opts)
             cp == CpStep(IpfsPath(changed, <<>>), s.loc, s.opts)
             put == NodesOf(changed)
  <2>1. ChmodEffect(tree, s) = Expands(<<rm, cp>>, put)
    <3> DEFINE e == LinkEffect(tree, LinkStep(s.loc, [Resolve(tree, s.loc) EXCEPT !.meta = s.meta],
                                              FALSE, s.opts))
               once == IF s.opts.flush
                         THEN [e EXCEPT !.put = @ \cup {[Resolve(tree, s.loc) EXCEPT !.meta = s.meta]}]
                         ELSE e
    <3>1. once.kind # "expand"
      <4>1. e.kind # "expand"
        BY <1>2
      <4>2. "kind" \in DOMAIN e
        BY DEF LinkEffect, Commits, Fails, NoEffect
      <4> HIDE DEF e
      <4> QED
        BY <4>1, <4>2
    <3>2. ChmodEffect(tree, s) \in {Fails, Expands(<<rm, cp>>, put), once}
      BY DEF ChmodEffect
    <3> HIDE DEF once, rm, cp, put
    <3> QED
      BY <1>2, <1>5, <3>1, <3>2 DEF Effect
  <2>2. About(rm, r)
    BY <1>5 DEF About, RmStep, TargetsOf
  <2>3. About(cp, r)
    BY <1>5 DEF About, CpStep
  <2> HIDE DEF rm, cp, put
  <2> QED
    BY <1>1, <1>5, <2>1, <2>2, <2>3, TwoAbout DEF Effect
<1>6. CASE s.op = "ensureDir"
  <2> DEFINE made == MkdirStep(s.loc, s.opts)
  <2>1. EnsureDirEffect(tree, s) = Expands(<<made>>, {})
    BY <1>2, <1>6 DEF Effect, EnsureDirEffect
  <2>2. About(made, r)
    BY <1>6 DEF About, MkdirStep
  <2> HIDE DEF made
  <2> QED
    BY <1>1, <1>6, <2>1, <2>2, OneAbout DEF Effect
<1>7. CASE s.op \notin {"cp", "chmod", "ensureDir"}
  BY <1>7, <1>2, NoExpansion DEF Effect, StepOps
<1> QED
  BY <1>4, <1>5, <1>6, <1>7

(* The steps that a call has left become fewer, except where it begins,    *)
(* where a write has its file, and where a step expands.                  *)
LEMMA StepsAreLeft ==
  ASSUME IInv, NEW c \in Calls, Advance(c) \/ Timeout(c) \/ NestedTimeout(c)
  PROVE  /\ request' = request
         /\ \/ Range(steps'[c]) \subseteq Range(steps[c])
            \/ Import(c)
            \/ Load(c) /\ Effect(root, Head(steps[c])).kind = "expand"
                       /\ steps' = [steps EXCEPT ![c] = Effect(root, Head(steps[c])).steps \o Tail(@)]
<1>1. ASSUME NEW result, Ends(c, result)
      PROVE  request' = request /\ Range(steps'[c]) \subseteq Range(steps[c])
  <2>1. request' = request /\ steps'[c] = <<>>
    BY <1>1 DEF Ends, IInv, Types
  <2> QED
    BY <2>1 DEF Range
<1>2. ASSUME Inside(c), StepDone(c)
      PROVE  request' = request /\ Range(steps'[c]) \subseteq Range(steps[c])
  <2>1. CASE Len(steps[c]) = 1
    BY <1>1, <1>2, <2>1 DEF StepDone
  <2>2. CASE Len(steps[c]) # 1
    <3>1. request' = request /\ steps'[c] = Tail(steps[c]) /\ IsSteps(steps[c]) /\ steps[c] # <<>>
      BY <1>2, <2>2 DEF StepDone, IInv, Types, CallInv, Inside
    <3> QED
      BY <3>1, RangeOfRest
  <2> QED
    BY <2>1, <2>2
<1>3. CASE Stat(c)
  BY <1>1, <1>3 DEF Stat
<1>4. CASE ReadDestination(c)
  BY <1>1, <1>4 DEF ReadDestination
<1>5. CASE Import(c)
  BY <1>5 DEF Import
<1>6. CASE Enter(c)
  BY <1>6 DEF Enter
<1>7. CASE LoadAborted(c)
  BY <1>1, <1>7 DEF LoadAborted
<1>8. CASE Load(c)
  <2>1. Inside(c)
    BY <1>8 DEF Load, LoadFrom, Inside
  <2> QED
    BY <1>1, <1>2, <1>8, <2>1 DEF Load, LoadFrom
<1>9. CASE Check(c)
  BY <1>1, <1>9 DEF Check
<1>10. CASE Put(c)
  <2>1. Inside(c)
    BY <1>10 DEF Put, Inside
  <2> QED
    BY <1>2, <1>10, <2>1 DEF Put
<1>11. CASE Timeout(c)
  BY <1>11 DEF Timeout
<1>12. CASE NestedTimeout(c)
  <2> DEFINE list == <<Head(steps[c])>>
  <2>1. request' = request /\ steps'[c] = list /\ IsSteps(steps[c]) /\ steps[c] # <<>>
    BY <1>12 DEF NestedTimeout, IInv, Types, CallInv, Inside
  <2>2. Range(list) = {Head(steps[c])}
    BY DEF Range
  <2> HIDE DEF list
  <2> QED
    BY <2>1, <2>2, RangeOfRest
<1> QED
  BY <1>3, <1>4, <1>5, <1>6, <1>7, <1>8, <1>9, <1>10, <1>11, <1>12 DEF Advance

LEMMA DirectedFrame ==
  ASSUME Directed, NEW c \in Calls, Undisturbing(c), AboutAll(steps'[c], request'[c])
  PROVE  Directed'
<1>1. ASSUME NEW d \in Calls \ {c} PROVE AboutAll(steps'[d], request'[d])
  BY DEF Undisturbing, Directed
<1> QED
  BY <1>1 DEF Directed

LEMMA StepDirected ==
  ASSUME AllFlush, InTheMfs, IInv, Intact, Directed, [Next]_vars
  PROVE  Directed'
<1>1. ASSUME NEW c \in Calls, NEW r \in Requests, Begin(c, r) PROVE Directed'
  <2>1. Undisturbing(c) /\ steps[c] = <<>>
    BY <1>1, BeginKeeps DEF Begin, IInv, CallInv
  <2>2. request'[c] = r
    BY <1>1 DEF Begin, IInv, Types
  <2>3. \/ steps'[c] = <<>>
        \/ r.op \notin {"stat", "write"} /\ steps'[c] = StepsOf(r)
    BY <1>1, <2>1 DEF Begin, IInv, Types
  <2> QED
    BY <2>1, <2>2, <2>3, NoneAbout, RequestsAreDirected, DirectedFrame
<1>2. ASSUME NEW c \in Calls, Import(c) PROVE Directed'
  <2> DEFINE r == request[c]
             file == Written(base[c], r)
             ensured == EnsureDirStep(Directory(r.loc), r.opts)
             linked == LinkStep(r.loc, file, TRUE, r.opts)
  <2>1. Undisturbing(c) /\ request' = request /\ steps'[c] = <<ensured, linked>>
    BY <1>2, ImportKeeps DEF Import, IInv, Types
  <2>2. r \in Requests
    BY <1>2 DEF Import, IInv, CallInv
  <2>3. /\ Directory(r.loc).cid = NoNode /\ Directory(r.loc).path = Front(r.loc.path)
        /\ r.loc.cid = NoNode /\ r.loc.path \in Seq(Names)
    BY <2>2, DirectoryOf DEF AllFlush, InTheMfs, KnownLoc
  <2>4. About(ensured, r)
    BY <2>3, FrontIsAbove DEF About, EnsureDirStep
  <2>5. About(linked, r)
    BY <2>3 DEF About, LinkStep
  <2> HIDE DEF ensured, linked
  <2> QED
    BY <2>1, <2>4, <2>5, TwoAbout, DirectedFrame
<1>3. ASSUME NEW c \in Calls, Advance(c) \/ Timeout(c) \/ NestedTimeout(c), ~Import(c) PROVE Directed'
  <2> DEFINE s == Head(steps[c])
             effect == Effect(root, s)
  <2>1. Undisturbing(c)
    BY <1>3, StepKeeps, TimeoutKeeps DEF Advance
  <2>2. CASE Range(steps'[c]) \subseteq Range(steps[c])
    <3>1. request' = request
      BY <1>3, StepsAreLeft
    <3> QED
      BY <2>1, <2>2, <3>1, AboutFewer, DirectedFrame DEF Directed
  <2>3. CASE Load(c) /\ effect.kind = "expand" /\ steps' = [steps EXCEPT ![c] = effect.steps \o Tail(@)]
    <3>1. /\ request' = request /\ steps'[c] = effect.steps \o Tail(steps[c])
      BY <1>3, <2>3, StepsAreLeft DEF IInv, Types
    <3>2. /\ IsSteps(steps[c]) /\ steps[c] # <<>> /\ KnownSteps(steps[c], blocks)
          /\ request[c] \in Requests
      BY <2>3 DEF Load, LoadFrom, IInv, CallInv, Intact, KnownCall
    <3>3. s.op \in StepOps /\ IsSteps(Tail(steps[c])) /\ KnownStep(s, blocks) /\ IsSteps(effect.steps)
      BY <2>3, <3>2, RestOfSteps, KnownHeadTail, ExpansionIsSteps
    <3>4. About(s, request[c]) /\ AboutAll(Tail(steps[c]), request[c])
      BY <3>2, RangeOfRest DEF Directed, AboutAll
    <3>5. AboutAll(effect.steps, request[c])
      <4>1. request[c].loc.path \in Seq(Names)
        BY <3>2 DEF AllFlush, KnownLoc
      <4> QED
        BY <2>3, <3>3, <3>4, <4>1, ExpansionIsDirected
    <3> HIDE DEF effect
    <3>6. AboutAll(effect.steps \o Tail(steps[c]), request[c])
      BY <3>3, <3>4, <3>5, RangeOfConcat DEF AboutAll
    <3> QED
      BY <2>1, <3>1, <3>6, DirectedFrame
  <2> QED
    BY <1>3, <2>2, <2>3, StepsAreLeft
<1>4. CASE Crash
  <2>1. \A c \in Calls : steps'[c] = <<>>
    BY <1>4 DEF Crash
  <2> QED
    BY <2>1, NoneAbout DEF Directed
<1>5. CASE UNCHANGED vars
  BY <1>5 DEF vars, callVars, Directed
<1> QED
  BY <1>1, <1>2, <1>3, <1>4, <1>5 DEF Next

LEMMA PutIsConfined ==
  ASSUME AllFlush, InTheMfs, IInv, Lined, Intact, Directed, [Next]_vars, root' # root
  PROVE  \E c \in Calls :
           /\ at[c] = "put" /\ at'[c] # "put"
           /\ stray' \/ \E path \in TargetsOf(request[c]) : Confined(root, root', path)
<1>1. PICK c \in Calls : Put(c)
  BY DEF Next, Advance, Begin, Stat, ReadDestination, Import, Enter, LoadAborted, Load, LoadFrom,
         Check, Timeout, NestedTimeout, Crash, vars, callVars
<1> DEFINE s == Head(steps[c])
           r == request[c]
<1>2. at[c] = "put" /\ Inside(c)
  BY <1>1 DEF Put, Inside
<1>3. at'[c] # "put"
  BY <1>1 DEF Put, StepDone, Ends, IInv, Types
<1> SUFFICES ASSUME ~stray' PROVE \E path \in TargetsOf(r) : Confined(root, root', path)
  BY <1>2, <1>3
<1>4. root' = Effect(root, s).root /\ Effect(root, s).kind = "commit"
  BY <1>1, PutsTheNext
<1>5. IsSteps(steps[c]) /\ steps[c] # <<>> /\ KnownSteps(steps[c], blocks) /\ r \in Requests
  BY <1>2 DEF Inside, IInv, CallInv, Intact, KnownCall
<1>6. s.op \in StepOps /\ KnownStep(s, blocks) /\ About(s, r)
  BY <1>5, RestOfSteps, KnownHeadTail, RangeOfRest DEF Directed, AboutAll
<1>7. r.loc.path \in Seq(Names) /\ Closed(blocks) /\ root \in blocks
  BY <1>5 DEF AllFlush, KnownLoc, Intact
<1>8. PICK path \in TargetsOf(r) : Within(root, root', path)
  BY <1>4, <1>6, <1>7, EffectConfined
<1>9. Confined(root, root', path)
  <2>1. Paths \subseteq Seq(Names)
    BY MfsTreeAssumption DEF Paths
  <2> QED
    BY <1>8, <2>1 DEF Confined, Within, SameButLinks
<1> QED
  BY <1>8, <1>9, SMTT(60)

(* Every change of the tree is confined to a path of the call it belongs   *)
(* to: nothing beside that path changes, above it only entries do, unless  *)
(* a call that has timed out puts a root without the lock.                *)
THEOREM ChangesStayOnTheirPath ==
  ASSUME AllFlush, WholeTrees, InTheMfs
  PROVE  Spec => ChangesAreConfined
<1>1. Init => Intact /\ Directed
  <2>1. Init => Directed
    BY NoneAbout DEF Init, Directed
  <2> QED
    BY <2>1, InitIntact
<1>2. IInv /\ Intact /\ Directed /\ [Next]_vars => (Intact /\ Directed)'
  BY StepIntact, StepDirected
<1>3. IInv /\ Lined /\ [Next]_vars => Lined'
  BY StepLined
<1>4. ASSUME IInv, Lined, Intact, Directed, [Next]_vars
      PROVE  [root' # root =>
                \E c \in Calls :
                  /\ at[c] = "put" /\ at'[c] # "put"
                  /\ stray' \/ \E path \in TargetsOf(request[c]) : Confined(root, root', path)]_vars
  BY <1>4, PutIsConfined
<1> QED
  BY <1>1, <1>2, <1>3, <1>4, LinedInit, AlwaysIInv, PTL DEF Spec, ChangesAreConfined

-----------------------------------------------------------------------------
(*************************************************************************)
(* mv keeps its source.                                                  *)
(*************************************************************************)

(* What is found along a path that is not too long is a node of the tree.  *)
LEMMA FoundIsNode ==
  ASSUME NEW x, NEW q \in Seq(Names), Len(q) <= MaxDepth, Exists(At(x, q))
  PROVE  At(x, q) \in NodesOf(x)
<1> DEFINE t == ToTrail(x, q)
           down == NodesDownTo(x)
           T == {n \in 0 .. Len(q) : t[n] \in down[n] \cup {NoNode}}
<1>1. Len(q) \in Nat /\ Len(q) \in 0 .. MaxDepth
  BY MfsTreeAssumption
<1>2. 0 \in T
  BY <1>1, TrailDef, NodesDownToDef
<1>3. ASSUME NEW n \in 0 .. Len(q) - 1, n \in T PROVE n + 1 \in T
  <2>1. n + 1 \in 1 .. Len(q) /\ n + 1 \in 0 .. Len(q) /\ n + 1 - 1 = n /\ n + 1 \in 1 .. MaxDepth
    BY <1>1, MfsTreeAssumption
  <2>2. t[n + 1] = Child(t[n], q[n + 1])
    <3>1. \A m \in 1 .. Len(q) : t[m] = Child(t[m - 1], q[m])
      BY <1>1, TrailDef
    <3> HIDE DEF t
    <3> QED
      BY <2>1, <3>1
  <2>3. down[n + 1] = down[n] \cup UNION {Children(y) : y \in down[n]}
    <3>1. \A d \in 1 .. MaxDepth : down[d] = down[d - 1] \cup UNION {Children(y) : y \in down[d - 1]}
      BY NodesDownToDef
    <3> HIDE DEF down
    <3> QED
      BY <2>1, <3>1
  <2>4. t[n] \in down[n] \/ t[n] = NoNode
    BY <1>3
  <2>5. \A y : Child(y, q[n + 1]) \in Children(y) \cup {NoNode}
    BY DEF Child, Children
  <2> HIDE DEF t, down
  <2>6. CASE t[n] \in down[n]
    <3>1. Children(t[n]) \subseteq down[n + 1]
      BY <2>3, <2>6
    <3>2. t[n + 1] \in down[n + 1] \cup {NoNode}
      BY <2>2, <2>5, <3>1
    <3> QED
      BY <2>1, <3>2
  <2>7. CASE t[n] = NoNode
    <3>1. t[n + 1] = NoNode
      BY <2>2, <2>5, <2>7, Leaves
    <3> QED
      BY <2>1, <3>1
  <2> QED
    BY <2>4, <2>6, <2>7
<1>4. t[Len(q)] \in down[Len(q)]
  <2>1. Len(q) \in 0 .. Len(q) /\ t[Len(q)] # NoNode
    BY <1>1 DEF At, Exists
  <2>2. 0 .. Len(q) \subseteq T
    <3> HIDE DEF T
    <3> QED
      BY <1>1, <1>2, <1>3, UpTo
  <2> QED
    BY <2>1, <2>2
<1> QED
  BY <1>1, <1>4, DownToIsNodes DEF At

-----------------------------------------------------------------------------
(* mv, of a request r whose copy is beside its source.                    *)
MvInMfs(r) ==
  /\ r.from = MfsPath(r.from.path) /\ r.from.path \in Seq(Names)
  /\ r.loc = MfsPath(r.loc.path) /\ r.loc.path \in Seq(Names)
  /\ CopiesBeside(r)

MadeBy(r) == MkdirStep(Directory(r.loc), r.opts)
LinkedBy(r, node) == LinkStep(r.loc, node, FALSE, r.opts)
RemovedBy(r) == RmStep(r.from, [r.opts EXCEPT !.recursive = TRUE])

IntoPath(r) == Append(r.loc.path, NameOf(r.from))

(* The copy has been made: what is at the source is elsewhere as well.     *)
Kept(r, tree) ==
  \E copy \in {r.loc.path, IntoPath(r)} :
    Beside(r.from.path, copy) /\ At(tree, copy) = At(tree, r.from.path)

LEMMA IntoPathIsBelow ==
  ASSUME NEW r, MvInMfs(r)
  PROVE  /\ IntoPath(r) \in Seq(Names) /\ IsPrefix(r.loc.path, IntoPath(r))
         /\ Len(IntoPath(r)) = Len(r.loc.path) + 1
         /\ Beside(r.from.path, IntoPath(r)) /\ ~IsPrefix(r.from.path, r.loc.path)
         /\ [r.loc EXCEPT !.path = Append(@, NameOf(r.from))] = MfsPath(IntoPath(r))
<1>1. NameOf(r.from) \in Names
  BY MfsTreeAssumption DEF NameOf, Last, MvInMfs
<1>2. "path" \in DOMAIN MfsPath(r.loc.path)
  BY DEF MfsPath
<1>3. IntoPath(r) \in Seq(Names) /\ IsPrefix(r.loc.path, IntoPath(r))
  <2> DEFINE into == [r.loc EXCEPT !.path = Append(@, NameOf(r.from))]
  <2>1. into.path = IntoPath(r)
    BY <1>2 DEF MvInMfs, IntoPath
  <2> QED
    BY <1>1, <1>2, <2>1, IntoIsBelow, ZenonT(60) DEF MvInMfs
<1>4. Len(IntoPath(r)) = Len(r.loc.path) + 1
  BY <1>1 DEF IntoPath, MvInMfs
<1>5. Beside(r.from.path, IntoPath(r)) /\ ~IsPrefix(r.from.path, r.loc.path)
  BY <1>3, PrefixTransitive DEF MvInMfs, CopiesBeside, IntoPath, Beside
<1>6. [r.loc EXCEPT !.path = Append(@, NameOf(r.from))] = MfsPath(IntoPath(r))
  <2> DEFINE path == r.loc.path
             longer == IntoPath(r)
  <2>1. [r.loc EXCEPT !.path = Append(@, NameOf(r.from))] = [MfsPath(path) EXCEPT !.path = longer]
    BY DEF MvInMfs, IntoPath, MfsPath
  <2> HIDE DEF path, longer
  <2>2. [MfsPath(path) EXCEPT !.path = longer] = MfsPath(longer)
    BY DEF MfsPath
  <2> QED
    BY <2>1, <2>2 DEF longer
<1> QED
  BY <1>3, <1>4, <1>5, <1>6

LEMMA InMfsResolves ==
  ASSUME NEW tree, NEW path
  PROVE  Resolve(tree, MfsPath(path)) = At(tree, path)
  BY DEF Resolve, Base, MfsPath, Exists

(* A link beside the source is a copy that keeps it.                      *)
LEMMA LinkKeeps ==
  ASSUME NEW B, Closed(B), NEW tree \in B, NEW r, MvInMfs(r), NEW node,
         node = At(tree, r.from.path), NEW copy \in {r.loc.path, IntoPath(r)},
         Beside(r.from.path, copy),
         LinkEffect(tree, LinkStep(MfsPath(copy), node, FALSE, r.opts)).kind = "commit"
  PROVE  Kept(r, LinkEffect(tree, LinkStep(MfsPath(copy), node, FALSE, r.opts)).root)
<1> DEFINE l == LinkStep(MfsPath(copy), node, FALSE, r.opts)
           new == LinkEffect(tree, l).root
<1>1. l.loc.cid = NoNode /\ l.loc.path = copy /\ l.node = node
  BY DEF LinkStep, MfsPath
<1>2. copy \in Seq(Names)
  BY IntoPathIsBelow DEF MvInMfs
<1>3. LinkEffect(tree, l).kind = "commit"
  OBVIOUS
<1> HIDE DEF l
<1>4. Within(tree, new, copy) /\ At(new, copy) = node
  <2>1. l.loc.path \in Seq(Names) /\ l.loc.cid = NoNode
    BY <1>1, <1>2
  <2>2. Within(tree, new, l.loc.path) /\ At(new, l.loc.path) = l.node
    BY <1>3, <2>1, LinkConfined
  <2> HIDE DEF new
  <2> QED
    BY <1>1, <2>2
<1>5. At(new, r.from.path) = node
  BY <1>4 DEF Within, MvInMfs
<1> HIDE DEF new
<1>6. Kept(r, new)
  BY <1>4, <1>5 DEF Kept
<1> QED
  BY <1>6 DEF new, l

LEMMA CpCopies ==
  ASSUME NEW B, Closed(B), NEW tree \in B, NEW r, MvInMfs(r)
  PROVE  LET effect == CpEffect(tree, CpStep(r.from, r.loc, r.opts))
             node == At(tree, r.from.path)
         IN  /\ effect.kind \in {"fail", "commit", "expand"}
             /\ effect.kind = "commit" => Kept(r, effect.root)
             /\ effect.kind = "expand" => /\ Beside(r.from.path, r.loc.path)
                                          /\ effect.steps = <<MadeBy(r), LinkedBy(r, node)>>
<1> DEFINE s == CpStep(r.from, r.loc, r.opts)
           node == At(tree, r.from.path)
           target == At(tree, r.loc.path)
           inside == LinkEffect(tree, LinkStep(MfsPath(IntoPath(r)), node, FALSE, r.opts))
           there == LinkEffect(tree, LinkedBy(r, node))
           made == Expands(<<MadeBy(r), LinkedBy(r, node)>>, {})
           effect == CpEffect(tree, s)
<1>1. s.from = r.from /\ s.loc = r.loc /\ s.opts = r.opts
  BY DEF CpStep
<1>2. Resolve(tree, r.from) = node /\ Resolve(tree, r.loc) = target
  BY InMfsResolves DEF MvInMfs
<1>3. \/ effect = Fails
      \/ Exists(node) /\ effect = inside
      \/ Exists(node) /\ ~Exists(target) /\ effect \in {there, made}
  <2>1. ~Exists(target) => ~IsDirectory(target)
    BY DEF Exists, IsDirectory, NoNode, NewNode
  <2>2. [s.loc EXCEPT !.path = Append(@, NameOf(s.from))] = MfsPath(IntoPath(r))
    BY <1>1, IntoPathIsBelow
  <2> HIDE DEF s, node, target
  <2> QED
    BY <1>1, <1>2, <2>1, <2>2 DEF CpEffect, LinkedBy, MadeBy
<1>4. ASSUME Exists(node), ~Exists(target) PROVE Beside(r.from.path, r.loc.path)
  <2> SUFFICES ASSUME IsPrefix(r.loc.path, r.from.path) PROVE FALSE
    BY IntoPathIsBelow DEF Beside
  <2> DEFINE q == r.from.path
             p == r.loc.path
  <2>1. q \in Seq(Names) /\ p \in Seq(Names) /\ Len(p) \in Nat
    BY DEF MvInMfs
  <2> HIDE DEF q, p
  <2>2. Agree(p, q, Len(p))
    BY <2>1, PrefixAgrees DEF p, q
  <2>3. ToTrail(tree, q)[Len(p)] = NoNode
    BY <1>4, <2>1, <2>2, AtPrefix DEF Exists, p
  <2>4. Len(p) \in 0 .. Len(q)
    BY <2>1, <2>2 DEF Agree
  <2>5. At(tree, q) = NoNode
    BY <2>1, <2>3, <2>4, TrailEnds
  <2> QED
    BY <1>4, <2>5 DEF q, Exists
<1>5. CASE effect = Fails
  <2>1. Fails.kind = "fail"
    BY DEF Fails, NoEffect
  <2> HIDE DEF effect
  <2>2. effect.kind = "fail"
    BY <1>5, <2>1
  <2> QED
    BY <2>2 DEF effect
<1>6. CASE Exists(node) /\ effect = inside
  <2>1. inside.kind \in {"commit", "fail"}
    BY LinkKind
  <2>2. inside.kind = "commit" => Kept(r, inside.root)
    BY IntoPathIsBelow, LinkKeeps
  <2> HIDE DEF effect, inside
  <2>3. /\ effect.kind \in {"commit", "fail"}
        /\ effect.kind = "commit" => Kept(r, effect.root)
    BY <1>6, <2>1, <2>2
  <2> QED
    BY <2>3 DEF effect
<1>7. CASE Exists(node) /\ ~Exists(target) /\ effect = there
  <2>1. there.kind \in {"commit", "fail"}
    BY LinkKind
  <2>2. there.kind = "commit" => Kept(r, there.root)
    <3>1. r.loc = MfsPath(r.loc.path) /\ Beside(r.from.path, r.loc.path)
      BY <1>4, <1>7 DEF MvInMfs
    <3>2. there.kind = "commit" => Kept(r, LinkEffect(tree, LinkStep(MfsPath(r.loc.path), node, FALSE, r.opts)).root)
      BY <3>1, LinkKeeps DEF LinkedBy
    <3> QED
      BY <3>1, <3>2 DEF LinkedBy
  <2> HIDE DEF effect, there
  <2>3. /\ effect.kind \in {"commit", "fail"}
        /\ effect.kind = "commit" => Kept(r, effect.root)
    BY <1>7, <2>1, <2>2
  <2> QED
    BY <2>3 DEF effect
<1>8. CASE Exists(node) /\ ~Exists(target) /\ effect = made
  <2>1. made.kind = "expand" /\ made.steps = <<MadeBy(r), LinkedBy(r, node)>>
    BY DEF Expands, NoEffect
  <2>2. Beside(r.from.path, r.loc.path)
    BY <1>4, <1>8
  <2> HIDE DEF effect, made
  <2>3. /\ effect.kind = "expand" /\ effect.steps = <<MadeBy(r), LinkedBy(r, node)>>
    BY <1>8, <2>1
  <2> QED
    BY <2>2, <2>3 DEF effect
<1> QED
  BY <1>3, <1>5, <1>6, <1>7, <1>8

LEMMA MkdirKeeps ==
  ASSUME NEW B, Closed(B), NEW tree \in B, NEW r, MvInMfs(r), Beside(r.from.path, r.loc.path),
         MkdirEffect(tree, MadeBy(r)).kind = "commit"
  PROVE  At(MkdirEffect(tree, MadeBy(r)).root, r.from.path) = At(tree, r.from.path)
<1> DEFINE s == MadeBy(r)
<1>1. s.loc.path = Front(r.loc.path)
  <2>1. r.loc \in {MfsPath(r.loc.path)}
    BY DEF MvInMfs
  <2> DEFINE path == r.loc.path
             front == Front(path)
  <2>2. Directory(r.loc) = [MfsPath(path) EXCEPT !.path = front]
    BY <2>1 DEF Directory, MfsPath
  <2>3. [MfsPath(path) EXCEPT !.path = front].path = front
    BY DEF MfsPath
  <2> QED
    BY <2>2, <2>3 DEF MadeBy, MkdirStep
<1>2. Front(r.loc.path) \in Seq(Names) /\ IsPrefix(Front(r.loc.path), r.loc.path)
  BY FrontIsAbove, FrontIsPath DEF MvInMfs
<1>3. ~IsPrefix(r.from.path, Front(r.loc.path))
  BY <1>2, PrefixTransitive DEF MvInMfs, Beside
<1> HIDE DEF s
<1>4. Only(tree, MkdirEffect(tree, s).root, Front(r.loc.path))
  BY <1>1, <1>2, MkdirConfined DEF s
<1> QED
  BY <1>3, <1>4 DEF Only, MvInMfs, s

LEMMA RmLeavesCopy ==
  ASSUME NEW B, Closed(B), NEW tree \in B, NEW r, MvInMfs(r), Len(r.loc.path) < MaxDepth,
         Kept(r, tree), RmEffect(tree, RemovedBy(r)).kind = "commit"
  PROVE  At(tree, r.from.path) \in NodesOf(RmEffect(tree, RemovedBy(r)).root)
<1> DEFINE s == RemovedBy(r)
           new == RmEffect(tree, s).root
<1>1. s.loc = r.from
  BY DEF RemovedBy, RmStep
<1>2. s.loc.cid = NoNode /\ s.loc.path = r.from.path
  BY <1>1 DEF MvInMfs, MfsPath
<1>3. Exists(At(tree, r.from.path))
  <2>1. Resolve(tree, s.loc) = At(tree, r.from.path)
    BY <1>1, InMfsResolves DEF MvInMfs
  <2>2. Fails.kind # "commit"
    BY DEF Fails, NoEffect
  <2> HIDE DEF s
  <2> QED
    BY <2>1, <2>2 DEF RmEffect, s
<1> HIDE DEF s
<1>4. Within(tree, new, r.from.path)
  BY <1>2, RmConfined DEF MvInMfs, s
<1>5. PICK copy \in {r.loc.path, IntoPath(r)} :
        Beside(r.from.path, copy) /\ At(tree, copy) = At(tree, r.from.path)
  BY DEF Kept
<1>6. copy \in Seq(Names) /\ Len(copy) <= MaxDepth
  <2>1. Len(r.loc.path) \in Nat /\ Len(IntoPath(r)) = Len(r.loc.path) + 1
    BY IntoPathIsBelow DEF MvInMfs
  <2> QED
    BY <2>1, IntoPathIsBelow, MfsTreeAssumption DEF MvInMfs
<1>7. At(new, copy) = At(tree, r.from.path)
  BY <1>4, <1>5, <1>6 DEF Within, Beside
<1> HIDE DEF new
<1>8. At(tree, r.from.path) \in NodesOf(new)
  BY <1>3, <1>6, <1>7, FoundIsNode
<1> QED
  BY <1>8 DEF new, s

CopiedBy(r) == CpStep(r.from, r.loc, r.opts)

(* Where a mv is, by the steps it has left.  What it has still to link is  *)
(* what the tree has at its source, and when only the removal is left the  *)
(* copy is there.                                                         *)
MvAt(r, list, tree) ==
  \/ list = <<CopiedBy(r), RemovedBy(r)>>
  \/ /\ Beside(r.from.path, r.loc.path)
     /\ \E node \in {At(tree, r.from.path)} :
          \/ list = <<MadeBy(r), LinkedBy(r, node), RemovedBy(r)>>
          \/ list = <<LinkedBy(r, node), RemovedBy(r)>>
  \/ list = <<RemovedBy(r)>> /\ Kept(r, tree)

LEMMA ListsOfThree ==
  ASSUME NEW x, NEW y, NEW z
  PROVE  /\ Head(<<x>>) = x /\ Len(<<x>>) = 1
         /\ Head(<<x, y>>) = x /\ Tail(<<x, y>>) = <<y>> /\ Len(<<x, y>>) = 2
         /\ Head(<<x, y, z>>) = x /\ Tail(<<x, y, z>>) = <<y, z>> /\ Len(<<x, y, z>>) = 3
         /\ <<x, y>> \o <<z>> = <<x, y, z>>
<1>1. Head(<<x>>) = x /\ Len(<<x>>) = 1
  OBVIOUS
<1>2. Head(<<x, y>>) = x /\ Tail(<<x, y>>) = <<y>> /\ Len(<<x, y>>) = 2
  OBVIOUS
<1>3. Head(<<x, y, z>>) = x /\ Tail(<<x, y, z>>) = <<y, z>> /\ Len(<<x, y, z>>) = 3
  OBVIOUS
<1>4. <<x, y>> \o <<z>> = <<x, y, z>>
  <2> DEFINE s == <<x, y>>
             t == <<z>>
             u == <<x, y, z>>
             S == {x, y, z}
  <2>1. /\ s \in Seq(S) /\ Len(s) = 2 /\ s[1] = x /\ s[2] = y
        /\ t \in Seq(S) /\ Len(t) = 1 /\ t[1] = z
        /\ u \in Seq(S) /\ Len(u) = 3 /\ u[1] = x /\ u[2] = y /\ u[3] = z
    OBVIOUS
  <2> HIDE DEF s, t, u, S
  <2>2. /\ s \o t \in Seq(S) /\ Len(s \o t) = 3
        /\ \A i \in 1 .. 3 : (s \o t)[i] = IF i <= 2 THEN s[i] ELSE t[i - 2]
    <3>1. s \in Seq(S) /\ t \in Seq(S)
      BY <2>1
    <3>2. /\ s \o t \in Seq(S)
          /\ Len(s \o t) = Len(s) + Len(t)
          /\ \A i \in 1 .. Len(s) + Len(t) :
               (s \o t)[i] = IF i <= Len(s) THEN s[i] ELSE t[i - Len(s)]
      BY <3>1, ConcatProperties, Zenon
    <3> QED
      BY <2>1, <3>2
  <2>3. \A i \in 1 .. 3 : (s \o t)[i] = u[i]
    BY <2>1, <2>2
  <2>4. s \o t = u
    BY <2>1, <2>2, <2>3, SeqEqual
  <2> QED
    BY <2>4 DEF s, t, u
<1> QED
  BY <1>1, <1>2, <1>3, <1>4

(* What the next step of a mv makes of it.                                *)
LEMMA MvGoesOn ==
  ASSUME NEW B, Closed(B), NEW tree \in B, NEW r, MvInMfs(r), NEW list, MvAt(r, list, tree)
  PROVE  LET effect == Effect(tree, Head(list))
         IN  /\ effect.kind = "skip" => Len(list) = 1 \/ MvAt(r, Tail(list), tree)
             /\ effect.kind = "expand" => MvAt(r, effect.steps \o Tail(list), tree)
             /\ effect.kind = "commit" => Len(list) = 1 \/ MvAt(r, Tail(list), effect.root)
             /\ Head(list).op = "rm" => list = <<RemovedBy(r)>> /\ Kept(r, tree)
<1> DEFINE effect == Effect(tree, Head(list))
           node == At(tree, r.from.path)
<1>1. /\ CopiedBy(r).op = "cp" /\ MadeBy(r).op = "mkdir" /\ \A n : LinkedBy(r, n).op = "link"
      /\ RemovedBy(r).op = "rm"
  BY DEF CopiedBy, CpStep, MadeBy, MkdirStep, LinkedBy, LinkStep, RemovedBy, RmStep
<1>2. CASE list = <<CopiedBy(r), RemovedBy(r)>>
  <2>1. Head(list) = CopiedBy(r) /\ Tail(list) = <<RemovedBy(r)>>
    BY <1>2, ListsOfThree
  <2>2. effect = CpEffect(tree, CpStep(r.from, r.loc, r.opts))
    BY <1>1, <2>1 DEF Effect, CopiedBy
  <2>3. /\ effect.kind \in {"fail", "commit", "expand"}
        /\ effect.kind = "commit" => Kept(r, effect.root)
        /\ effect.kind = "expand" => /\ Beside(r.from.path, r.loc.path)
                                     /\ effect.steps = <<MadeBy(r), LinkedBy(r, node)>>
    BY <2>2, CpCopies
  <2> HIDE DEF effect
  <2>4. ASSUME effect.kind = "expand"
        PROVE  effect.steps \o Tail(list) = <<MadeBy(r), LinkedBy(r, node), RemovedBy(r)>>
    <3> DEFINE x == MadeBy(r)
               y == LinkedBy(r, node)
               z == RemovedBy(r)
    <3>1. effect.steps = <<x, y>> /\ Tail(list) = <<z>>
      BY <2>1, <2>3, <2>4
    <3> HIDE DEF x, y, z
    <3>2. <<x, y>> \o <<z>> = <<x, y, z>>
      BY ListsOfThree
    <3>3. effect.steps \o Tail(list) = <<x, y, z>>
      BY <3>1, <3>2
    <3> QED
      BY <3>3 DEF x, y, z
  <2> QED
    BY <1>1, <2>1, <2>3, <2>4 DEF MvAt, effect
<1>3. CASE /\ Beside(r.from.path, r.loc.path)
           /\ list = <<MadeBy(r), LinkedBy(r, node), RemovedBy(r)>>
  <2>1. Head(list) = MadeBy(r) /\ Tail(list) = <<LinkedBy(r, node), RemovedBy(r)>>
    BY <1>3, ListsOfThree
  <2>2. effect = MkdirEffect(tree, MadeBy(r))
    BY <1>1, <2>1 DEF Effect
  <2>3. effect.kind # "expand"
    BY <2>2, NoExpansion
  <2>4. effect.kind = "commit" => At(effect.root, r.from.path) = node
    BY <1>3, <2>2, MkdirKeeps
  <2> HIDE DEF effect, node
  <2>5. effect.kind = "commit" => MvAt(r, Tail(list), effect.root)
    BY <1>3, <2>1, <2>4 DEF MvAt
  <2>6. MvAt(r, Tail(list), tree)
    BY <1>3, <2>1 DEF MvAt, node
  <2> QED
    BY <1>1, <2>1, <2>3, <2>5, <2>6 DEF effect
<1>4. CASE /\ Beside(r.from.path, r.loc.path) /\ list = <<LinkedBy(r, node), RemovedBy(r)>>
  <2>1. Head(list) = LinkedBy(r, node) /\ Tail(list) = <<RemovedBy(r)>>
    BY <1>4, ListsOfThree
  <2>2. effect = LinkEffect(tree, LinkedBy(r, node))
    BY <1>1, <2>1 DEF Effect
  <2>3. effect.kind \in {"commit", "fail"}
    BY <2>2, LinkKind
  <2>4. r.loc = MfsPath(r.loc.path)
    BY DEF MvInMfs
  <2>5. effect = LinkEffect(tree, LinkStep(MfsPath(r.loc.path), node, FALSE, r.opts))
    BY <2>2, <2>4 DEF LinkedBy
  <2>6. effect.kind = "commit" => Kept(r, effect.root)
    BY <1>4, <2>5, LinkKeeps
  <2> HIDE DEF effect, node
  <2> QED
    BY <1>1, <2>1, <2>3, <2>6 DEF MvAt, effect
<1>5. CASE list = <<RemovedBy(r)>> /\ Kept(r, tree)
  <2>1. Head(list) = RemovedBy(r) /\ Len(list) = 1
    BY <1>5, ListsOfThree
  <2>2. effect.kind # "expand"
    BY <1>1, <2>1, NoExpansion DEF Effect
  <2> QED
    BY <1>5, <2>1, <2>2
<1> QED
  BY <1>2, <1>3, <1>4, <1>5 DEF MvAt

-----------------------------------------------------------------------------
MvCall(c) ==
  request[c].op = "mv" /\ CopiesBeside(request[c]) =>
    /\ at[c] # "import"
    /\ at[c] = "wait" => steps[c] = <<CopiedBy(request[c]), RemovedBy(request[c])>>
    /\ Inside(c) /\ ~Aborted(c) /\ ~stray => MvAt(request[c], steps[c], root)

Sourced == \A c \in Calls : MvCall(c)

LEMMA MvRequests ==
  ASSUME AllFlush, InTheMfs, NEW r \in Requests, r.op = "mv", CopiesBeside(r)
  PROVE  MvInMfs(r)
<1>1. r.from = MfsPath(r.from.path) /\ r.from.path \in Seq(Names)
  <2>1. KnownLoc(r.from, Imported) /\ r.from.cid = NoNode
    BY DEF AllFlush, InTheMfs
  <2> QED
    BY <2>1 DEF KnownLoc, MfsPath
<1>2. r.loc = MfsPath(r.loc.path) /\ r.loc.path \in Seq(Names)
  <2>1. KnownLoc(r.loc, Imported) /\ r.loc.cid = NoNode
    BY DEF AllFlush, InTheMfs
  <2> QED
    BY <2>1 DEF KnownLoc, MfsPath
<1> QED
  BY <1>1, <1>2 DEF MvInMfs

(* The steps of the others: while a call holds the lock, none of them puts *)
(* a root that is no stray.                                               *)
LEMMA OthersKeepSource ==
  ASSUME IInv, Sourced, NEW c \in Calls, Undisturbing(c), NEW d \in Calls \ {c}
  PROVE  MvCall(d)'
<1>1. /\ at'[d] = at[d] /\ request'[d] = request[d] /\ steps'[d] = steps[d]
      /\ outcome'[d] = outcome[d]
  BY DEF Undisturbing
<1>2. (Inside(d)' <=> Inside(d)) /\ (Aborted(d)' <=> Aborted(d))
  BY <1>1 DEF Inside, Aborted
<1>3. CASE root' = root /\ stray' = stray
  BY <1>1, <1>2, <1>3 DEF Sourced, MvCall
<1>4. CASE stray' = (stray \/ ~Held(queue, c))
  <2>1. Inside(d) /\ ~Aborted(d) => WriteHeld(queue, d)
    BY DEF IInv, CallInv
  <2>2. ASSUME Inside(d), ~Aborted(d) PROVE stray'
    <3>1. WriteHeld(queue, d)
      BY <2>1, <2>2
    <3>2. ~Held(queue, c)
      BY <3>1 DEF WriteHeld, WriteBatch, Held
    <3> QED
      BY <1>4, <3>2
  <2>3. ~(Inside(d)' /\ ~Aborted(d)' /\ ~stray')
    BY <1>2, <2>2
  <2>4. MvCall(d)
    BY DEF Sourced
  <2> QED
    BY <1>1, <2>3, <2>4 DEF MvCall
<1> QED
  BY <1>3, <1>4 DEF Undisturbing

(* The steps of a mv itself.                                              *)
LEMMA StaysSourced ==
  ASSUME NEW c \in Calls, request'[c] = request[c], root' = root, stray' = stray, MvCall(c),
         Aborted(c) => Aborted(c)',
         \/ at'[c] \in {"idle", "read"}
         \/ at'[c] = at[c] /\ steps'[c] = steps[c]
         \/ at[c] \in {"wait", "load", "check"} /\ at'[c] \in {"load", "check", "put"}
              /\ steps'[c] = steps[c]
  PROVE  MvCall(c)'
<1> SUFFICES ASSUME request[c].op = "mv", CopiesBeside(request[c]) PROVE MvCall(c)'
  BY DEF MvCall
<1>1. CASE at'[c] \in {"idle", "read"}
  BY <1>1 DEF MvCall, Inside
<1>2. CASE at'[c] = at[c] /\ steps'[c] = steps[c]
  BY <1>2 DEF MvCall, Inside
<1>3. CASE at[c] \in {"wait", "load", "check"} /\ at'[c] \in {"load", "check", "put"} /\ steps'[c] = steps[c]
  <2>1. ~Aborted(c)' /\ ~stray' => MvAt(request[c], steps[c], root)
    BY <1>3 DEF MvCall, Inside, MvAt
  <2> QED
    BY <1>3, <2>1 DEF MvCall, Inside
<1> QED
  BY <1>1, <1>2, <1>3

LEMMA MvMovesOn ==
  ASSUME AllFlush, InTheMfs, IInv, Intact, Sourced, NEW c \in Calls, Inside(c),
         ~Aborted(c), ~stray, request[c].op = "mv", CopiesBeside(request[c])
  PROVE  LET r == request[c]
             effect == Effect(root, Head(steps[c]))
         IN  /\ MvInMfs(r)
             /\ effect.kind = "skip" => Len(steps[c]) = 1 \/ MvAt(r, Tail(steps[c]), root)
             /\ effect.kind = "expand" => MvAt(r, effect.steps \o Tail(steps[c]), root)
             /\ effect.kind = "commit" => Len(steps[c]) = 1 \/ MvAt(r, Tail(steps[c]), effect.root)
             /\ Head(steps[c]).op = "rm" => steps[c] = <<RemovedBy(r)>> /\ Kept(r, root)
<1>1. MvInMfs(request[c])
  BY MvRequests DEF IInv, CallInv, Inside
<1>2. MvAt(request[c], steps[c], root)
  BY DEF Sourced, MvCall
<1>3. Closed(blocks) /\ root \in blocks
  BY DEF Intact
<1> QED
  BY <1>1, <1>2, <1>3, MvGoesOn

LEMMA StepDoneSourced ==
  ASSUME IInv, NEW c \in Calls, Inside(c), StepDone(c),
         request[c].op = "mv" /\ CopiesBeside(request[c]) /\ ~Aborted(c) /\ ~stray' =>
           Len(steps[c]) = 1 \/ MvAt(request[c], Tail(steps[c]), root')
  PROVE  MvCall(c)'
<1>1. CASE Len(steps[c]) = 1
  <2>1. at'[c] = "idle"
    BY <1>1 DEF StepDone, Ends, IInv, Types
  <2> QED
    BY <2>1 DEF MvCall, Inside
<1>2. CASE Len(steps[c]) # 1
  <2>1. at'[c] = "load" /\ steps'[c] = Tail(steps[c]) /\ UNCHANGED <<request, outcome>>
    BY <1>2 DEF StepDone, IInv, Types
  <2> QED
    BY <1>2, <2>1 DEF MvCall, Inside, Aborted
<1> QED
  BY <1>1, <1>2

LEMMA StepSourced ==
  ASSUME AllFlush, InTheMfs, IInv, Lined, Intact, Sourced, [Next]_vars
  PROVE  Sourced'
<1>1. ASSUME NEW c \in Calls, NEW result, Ends(c, result)
      PROVE  at'[c] = "idle" /\ request'[c] = request[c] /\ (Aborted(c) => Aborted(c)')
  BY <1>1 DEF Ends, IInv, Types, Aborted
<1>2. ASSUME NEW c \in Calls, Undisturbing(c), MvCall(c)'
      PROVE  Sourced'
  BY <1>2, OthersKeepSource DEF Sourced
<1>3. ASSUME NEW c \in Calls, NEW r \in Requests, Begin(c, r) PROVE Sourced'
  <2>1. Undisturbing(c) /\ request'[c] = r
    BY <1>3, BeginKeeps DEF Begin, IInv, Types
  <2>2. \/ at'[c] = "read"
        \/ at'[c] = "wait" /\ steps'[c] = StepsOf(r)
    BY <1>3 DEF Begin, IInv, Types
  <2>3. r.op = "mv" => StepsOf(r) = <<CopiedBy(r), RemovedBy(r)>>
    BY DEF StepsOf, CopiedBy, RemovedBy
  <2>4. MvCall(c)'
    BY <2>1, <2>2, <2>3 DEF MvCall, Inside
  <2> QED
    BY <1>2, <2>1, <2>4
<1>4. ASSUME NEW c \in Calls, Stat(c) \/ ReadDestination(c) \/ Enter(c) \/ LoadAborted(c) \/ Check(c)
      PROVE  Sourced'
  <2>1. Undisturbing(c) /\ root' = root /\ stray' = stray
    BY <1>4, StepKeeps DEF Advance, Stat, ReadDestination, Enter, LoadAborted, Check
  <2>2. request'[c] = request[c] /\ (Aborted(c) => Aborted(c)')
    BY <1>1, <1>4 DEF Stat, ReadDestination, Enter, LoadAborted, Check, Aborted
  <2>4. CASE Stat(c) \/ LoadAborted(c)
    <3>1. at'[c] = "idle"
      BY <1>1, <2>4 DEF Stat, LoadAborted
    <3>2. MvCall(c)'
      BY <2>1, <2>2, <3>1, StaysSourced DEF Sourced
    <3> QED
      BY <1>2, <2>1, <3>2
  <2>5. CASE ReadDestination(c)
    <3>1. request[c].op # "mv"
      BY <2>5 DEF ReadDestination
    <3>2. MvCall(c)'
      BY <2>2, <3>1 DEF MvCall
    <3> QED
      BY <1>2, <2>1, <3>2
  <2>6. CASE Enter(c)
    <3>1. at[c] = "wait" /\ at'[c] = "load" /\ steps'[c] = steps[c]
      BY <2>6 DEF Enter, IInv, Types
    <3>2. MvCall(c)'
      BY <2>1, <2>2, <3>1, StaysSourced DEF Sourced
    <3> QED
      BY <1>2, <2>1, <3>2
  <2>7. CASE Check(c)
    <3>1. \/ at'[c] = "idle"
          \/ at[c] = "check" /\ at'[c] = "put" /\ steps'[c] = steps[c]
      BY <1>1, <2>7 DEF Check, IInv, Types
    <3>2. MvCall(c)'
      BY <2>1, <2>2, <3>1, StaysSourced DEF Sourced
    <3> QED
      BY <1>2, <2>1, <3>2
  <2> QED
    BY <1>4, <2>4, <2>5, <2>6, <2>7
<1>5. ASSUME NEW c \in Calls, Import(c) PROVE Sourced'
  <2>1. Undisturbing(c) /\ request' = request /\ at[c] = "import"
    BY <1>5, ImportKeeps DEF Import
  <2>2. ~(request[c].op = "mv" /\ CopiesBeside(request[c]))
    BY <2>1 DEF Sourced, MvCall
  <2>3. MvCall(c)'
    BY <2>1, <2>2 DEF MvCall
  <2> QED
    BY <1>2, <2>1, <2>3
<1>6. ASSUME NEW c \in Calls, Load(c) PROVE Sourced'
  <2> DEFINE effect == Effect(root, Head(steps[c]))
             r == request[c]
  <2>1. /\ Undisturbing(c) /\ root' = root /\ stray' = stray
        /\ Inside(c) /\ ~Aborted(c) /\ at[c] = "load"
    BY <1>6, LoadKeeps DEF Load, LoadFrom, Inside
  <2>2. CASE Ends(c, "failed")
    <3>1. at'[c] = "idle" /\ request'[c] = r
      BY <1>1, <2>2
    <3> QED
      BY <1>2, <2>1, <3>1, StaysSourced DEF Sourced
  <2>3. CASE effect.kind = "skip" /\ StepDone(c)
    <3>1. MvCall(c)'
      BY <2>1, <2>3, MvMovesOn, StepDoneSourced
    <3> QED
      BY <1>2, <2>1, <3>1
  <2>4. CASE /\ effect.kind = "expand" /\ UNCHANGED <<at, request>>
             /\ steps' = [steps EXCEPT ![c] = effect.steps \o Tail(@)]
    <3>1. steps'[c] = effect.steps \o Tail(steps[c])
      BY <2>4 DEF IInv, Types
    <3>2. r.op = "mv" /\ CopiesBeside(r) /\ ~stray => MvAt(r, effect.steps \o Tail(steps[c]), root)
      BY <2>1, <2>4, MvMovesOn
    <3> HIDE DEF effect
    <3>3. MvCall(c)'
      BY <2>1, <2>4, <3>1, <3>2 DEF MvCall, Inside
    <3> QED
      BY <1>2, <2>1, <3>3
  <2>5. CASE UNCHANGED <<steps, request>> /\ at' = [at EXCEPT ![c] = "check"]
    <3>1. at'[c] = "check" /\ steps'[c] = steps[c] /\ request'[c] = r
      BY <2>5 DEF IInv, Types
    <3> QED
      BY <1>2, <2>1, <3>1, StaysSourced DEF Sourced
  <2> QED
    BY <1>6, <2>2, <2>3, <2>4, <2>5 DEF Load, LoadFrom
<1>7. ASSUME NEW c \in Calls, Put(c) PROVE Sourced'
  <2> DEFINE effect == Effect(root, Head(steps[c]))
  <2>1. Undisturbing(c) /\ Inside(c)
    BY <1>7, PutKeeps DEF Put, Inside
  <2>2. ~stray' => root' = effect.root /\ effect.kind = "commit" /\ ~stray
    BY <1>7, PutsTheNext
  <2>3. StepDone(c)
    BY <1>7 DEF Put
  <2>4. MvCall(c)'
    BY <2>1, <2>2, <2>3, MvMovesOn, StepDoneSourced
  <2> QED
    BY <1>2, <2>1, <2>4
<1>8. ASSUME NEW c \in Calls, Timeout(c) \/ NestedTimeout(c) PROVE Sourced'
  <2>1. Undisturbing(c) /\ UNCHANGED <<at, request>>
    BY <1>8, TimeoutKeeps DEF Timeout, NestedTimeout
  <2>2. CASE Timeout(c)
    <3>1. Aborted(c)' /\ UNCHANGED steps
      BY <2>2 DEF Timeout, Aborted, IInv, Types
    <3>2. MvCall(c)'
      BY <2>1, <3>1 DEF Sourced, MvCall
    <3> QED
      BY <1>2, <2>1, <3>2
  <2>3. CASE NestedTimeout(c)
    <3>1. MvCall(c)'
      BY <2>1, <2>3 DEF NestedTimeout, MvCall
    <3> QED
      BY <1>2, <2>1, <3>1
  <2> QED
    BY <1>8, <2>2, <2>3
<1>9. CASE Crash
  <2>1. \A c \in Calls : at'[c] = "idle"
    BY <1>9 DEF Crash
  <2> QED
    BY <2>1 DEF Sourced, MvCall, Inside
<1>10. CASE UNCHANGED vars
  BY <1>10 DEF vars, callVars, Sourced, MvCall, Inside, Aborted
<1> QED
  BY <1>3, <1>4, <1>5, <1>6, <1>7, <1>8, <1>9, <1>10 DEF Next, Advance

LEMMA SourceIsKept ==
  ASSUME AllFlush, InTheMfs, Shallow, IInv, Lined, Intact, Sourced, [Next]_vars,
         NEW c \in Calls, at[c] = "put", at'[c] # "put", root' # root, ~stray', request[c].op = "mv",
         Head(steps[c]).op = "rm", CopiesBeside(request[c])
  PROVE  Resolve(root, request[c].from) \in NodesOf(root')
<1> DEFINE r == request[c]
<1>1. Put(c)
  <2>1. PICK d \in Calls : Put(d)
    BY DEF Next, Advance, Begin, Stat, ReadDestination, Import, Enter, LoadAborted, Load, LoadFrom,
           Check, Timeout, NestedTimeout, Crash, vars, callVars
  <2>2. c = d
    BY <2>1, PutKeeps DEF Undisturbing
  <2> QED
    BY <2>1, <2>2, SMTT(60)
<1>2. /\ Inside(c) /\ ~Aborted(c) /\ ~stray
      /\ root' = Effect(root, Head(steps[c])).root
      /\ Effect(root, Head(steps[c])).kind = "commit"
  BY <1>1, PutsTheNext
<1>3. MvInMfs(r) /\ steps[c] = <<RemovedBy(r)>> /\ Kept(r, root)
  BY <1>2, MvMovesOn
<1>4. Len(r.loc.path) < MaxDepth /\ Closed(blocks) /\ root \in blocks
  BY <1>2 DEF Inside, IInv, CallInv, Shallow, Intact
<1>5. Head(steps[c]) = RemovedBy(r)
  BY <1>3, ListsOfThree
<1>6. Effect(root, RemovedBy(r)) = RmEffect(root, RemovedBy(r))
  BY <1>5 DEF Effect
<1>7. root' = RmEffect(root, RemovedBy(r)).root /\ RmEffect(root, RemovedBy(r)).kind = "commit"
  BY <1>2, <1>5, <1>6
<1>8. At(root, r.from.path) \in NodesOf(root')
  BY <1>3, <1>4, <1>7, RmLeavesCopy
<1>9. Resolve(root, r.from) = At(root, r.from.path)
  BY <1>3, InMfsResolves DEF MvInMfs
<1> QED
  BY <1>8, <1>9

(* mv loses nothing, whenever the process dies: what it removes from its   *)
(* source is still in the tree (mv.js, cp.js, rm.js), unless a call that   *)
(* has timed out puts a root without the lock.                            *)
THEOREM MvLosesNothing ==
  ASSUME AllFlush, WholeTrees, InTheMfs, Shallow
  PROVE  Spec => MvKeepsItsSource
<1>1. Init => Intact /\ Sourced
  <2>1. Init => Sourced
    BY DEF Init, Sourced, MvCall, NoRequest
  <2> QED
    BY <2>1, InitIntact
<1>2. IInv /\ Lined /\ Intact /\ Sourced /\ [Next]_vars => (Lined /\ Intact /\ Sourced)'
  BY StepIntact, StepSourced, StepLined
<1>3. ASSUME IInv, Lined, Intact, Sourced, [Next]_vars
      PROVE  [\A c \in Calls :
                (/\ at[c] = "put" /\ at'[c] # "put" /\ root' # root /\ ~stray'
                 /\ request[c].op = "mv" /\ Head(steps[c]).op = "rm"
                 /\ CopiesBeside(request[c]))
                  => Resolve(root, request[c].from) \in NodesOf(root')]_vars
  BY <1>3, SourceIsKept
<1> QED
  BY <1>1, <1>2, <1>3, LinedInit, AlwaysIInv, PTL DEF Spec, MvKeepsItsSource
=============================================================================
