---------------------- MODULE TransactionServiceProofs ----------------------
(***************************************************************************)
(* Theorems about the transaction service, for every set of threads,       *)
(* resources and databases.                                                *)
(***************************************************************************)
EXTENDS TransactionService, TLAPS

----------------------------------------------------------------------------
LEMMA AppendFacts ==
    ASSUME NEW S, NEW s \in Seq(S), NEW e \in S
    PROVE  /\ Append(s, e) \in Seq(S)
           /\ Len(Append(s, e)) = Len(s) + 1
           /\ \A i \in 1 .. Len(s) : Append(s, e)[i] = s[i]
           /\ Append(s, e)[Len(s) + 1] = e
           /\ Len(s) \in Nat
  OBVIOUS

\* Initially nothing is open.
LEMMA ServiceStart == Init => ServiceInv
<1> SUFFICES ASSUME Init PROVE ServiceInv
  OBVIOUS
<1> USE DEF Init
<1>1. TypeOK
  BY DEF TypeOK
<1>2. Bound
  BY DEF Bound
<1>3. Clean
  BY DEF Clean
<1>4. NothingBeforeCommit
  BY DEF NothingBeforeCommit
<1> QED
  BY <1>1, <1>2, <1>3, <1>4 DEF ServiceInv

\* createTransaction keeps the invariant: a thread that has none begins blank.
LEMMA ServiceCreate ==
    ASSUME ServiceInv, NEW t \in Thread, NEW x \in Txn, CreateTransaction(t, x)
    PROVE  ServiceInv'
<1> USE ServiceAssumption DEF ServiceInv, CreateTransaction
<1>1. TypeOK'
  BY DEF TypeOK
<1>2. Bound'
  BY DEF TypeOK, Bound
<1>3. Clean'
  <2>1. opened[t] = {} /\ pending[t] = {} /\ wanted[t] = {}
    BY DEF TypeOK, Bound, Clean
  <2>2. Len(resources[x]) = 0
    BY DEF Bound
  <2>3. Used(x)' = {}
    BY <2>2 DEF Used
  <2>4. \A u \in Thread \ {t} : wrapper'[u] = wrapper[u] /\ phase'[u] = phase[u]
    BY DEF TypeOK
  <2>5. wrapper'[t] = x /\ phase'[t] = "working"
    BY DEF TypeOK
  <2>6. \A y : Used(y)' = Used(y)
    BY DEF Used
  <2>7. ASSUME NEW u \in Thread
        PROVE  /\ phase'[u] = "idle" => opened[u] = {}
               /\ phase'[u] # "working" => wanted[u] = {}
               /\ phase'[u] = "working" => opened[u] = Used(wrapper'[u])
               /\ phase'[u] # "idle" => opened[u] \subseteq Used(wrapper'[u])
               /\ \A w \in pending[u] \cup wanted[u] : Owner[w[1]] \in opened[u]
    <3>1. CASE u = t
      BY <2>1, <2>3, <2>5, <2>6, <3>1
    <3>2. CASE u # t
      BY <2>4, <3>2 DEF Clean
    <3> QED
      BY <3>1, <3>2
  <2> QED
    BY <2>6, <2>7 DEF Clean
<1>4. NothingBeforeCommit'
  <2> SUFFICES ASSUME NEW y \in Txn, landed[y] \cap Transactional # {}
               PROVE  \/ outcome'[y] \in {"committed", "crashed"}
                      \/ \E u \in Thread : wrapper'[u] = y /\ phase'[u] = "committing"
    BY DEF NothingBeforeCommit
  <2>1. CASE outcome[y] \in {"committed", "crashed"}
    BY <2>1 DEF TypeOK
  <2>2. ASSUME NEW u \in Thread, wrapper[u] = y, phase[u] = "committing"
        PROVE  wrapper'[u] = y /\ phase'[u] = "committing"
    <3>1. u # t
      BY <2>2 DEF Bound
    <3> QED
      BY <2>2, <3>1 DEF TypeOK
  <2> QED
    BY <2>1, <2>2 DEF NothingBeforeCommit
<1> QED
  BY <1>1, <1>2, <1>3, <1>4

\* getResource: what the thread holds stays what it enlisted.
LEMMA UsedGrows ==
    ASSUME TypeOK, NEW x \in Txn, NEW r \in Resource,
           resources' = [resources EXCEPT ![x] = Append(@, r)]
    PROVE  /\ Used(x)' = Used(x) \cup {r}
           /\ \A y \in Txn \ {x} : Used(y)' = Used(y)
<1> DEFINE s == resources[x]
<1>1. s \in Seq(Resource) /\ resources'[x] = Append(s, r)
  BY DEF TypeOK
<1>2. \A y \in Txn \ {x} : resources'[y] = resources[y]
  BY DEF TypeOK
<1>3. 1 .. Len(Append(s, r)) = (1 .. Len(s)) \cup {Len(s) + 1}
  BY <1>1, AppendFacts
<1>4. Used(x)' = {Append(s, r)[i] : i \in (1 .. Len(s)) \cup {Len(s) + 1}}
  BY <1>1, <1>3 DEF Used
<1>5. Used(x)' = {s[i] : i \in 1 .. Len(s)} \cup {r}
  BY <1>1, <1>4, AppendFacts
<1> QED
  BY <1>2, <1>5 DEF Used

LEMMA ServiceGetResource ==
    ASSUME ServiceInv, NEW t \in Thread, NEW r \in Resource, GetResource(t, r)
    PROVE  ServiceInv'
<1> USE ServiceAssumption DEF ServiceInv, GetResource
<1> DEFINE x == wrapper[t]
<1>1. x \in Txn /\ outcome[x] = "open"
  BY DEF TypeOK, Bound
<1>2. resources[x] \in Seq(Resource) /\ Append(resources[x], r) \in Seq(Resource)
  BY <1>1, AppendFacts DEF TypeOK
<1>3. TypeOK'
  BY <1>1, <1>2 DEF TypeOK
<1>4. Bound'
  BY <1>1 DEF TypeOK, Bound
<1>5. Clean'
  <2>1. Used(x)' = Used(x) \cup {r} /\ \A y \in Txn \ {x} : Used(y)' = Used(y)
    BY <1>1, UsedGrows
  <2>2. \A u \in Thread \ {t} : phase[u] # "idle" => wrapper[u] \in Txn \ {x}
    BY <1>1 DEF TypeOK, Bound
  <2>3. opened'[t] = opened[t] \cup {r} /\ \A u \in Thread \ {t} : opened'[u] = opened[u]
    BY DEF TypeOK
  <2>4. opened[t] = Used(x)
    BY DEF Clean
  <2>5. \A u \in Thread : phase[u] = "idle" => opened'[u] = {}
    BY <2>3 DEF Clean
  <2>6. \A u \in Thread : phase[u] # "idle" =>
            opened'[u] \subseteq Used(wrapper[u])' /\ (phase[u] = "working" => opened'[u] = Used(wrapper[u])')
    <3>1. wrapper' = wrapper
      OBVIOUS
    <3>2. Used(wrapper[t])' = Used(x) \cup {r}
      BY <2>1, <3>1
    <3>3. \A u \in Thread \ {t} : phase[u] # "idle" => Used(wrapper[u])' = Used(wrapper[u])
      BY <2>1, <2>2, <3>1
    <3>4. SUFFICES ASSUME NEW u \in Thread, phase[u] # "idle"
                   PROVE  /\ opened'[u] \subseteq Used(wrapper[u])'
                          /\ phase[u] = "working" => opened'[u] = Used(wrapper[u])'
      OBVIOUS
    <3>5. CASE u = t
      <4>1. Used(wrapper[u])' = Used(wrapper[t])'
        BY <3>5 DEF Used
      <4>2. Used(wrapper[u])' = opened'[u]
        BY <2>3, <2>4, <3>2, <3>5, <4>1
      <4> QED
        BY <4>2
    <3>6. CASE u # t
      BY <2>3, <3>3, <3>4, <3>6 DEF Clean
    <3> QED
      BY <3>5, <3>6
  <2>7. \A u \in Thread : \A w \in pending[u] \cup wanted[u] : Owner[w[1]] \in opened'[u]
    BY <2>3 DEF Clean
  <2> QED
    BY <2>5, <2>6, <2>7 DEF Clean
<1>6. NothingBeforeCommit'
  BY DEF NothingBeforeCommit
<1> QED
  BY <1>3, <1>4, <1>5, <1>6

\* Put: a write is taken to the resource, to the graph, or waits.
LEMMA ServicePut ==
    ASSUME ServiceInv, NEW t \in Thread, NEW w \in Write, Put(t, w)
    PROVE  ServiceInv'
<1> USE ServiceAssumption DEF ServiceInv, Put
<1> DEFINE x == wrapper[t]
<1>1. x \in Txn /\ outcome[x] = "open"
  BY DEF TypeOK, Bound
<1>2. w[1] \notin Graph => w \in Transactional
  BY DEF Write, Transactional
<1>3. w[1] \in Graph => w \notin Transactional
  BY DEF Write, Transactional
<1>4. TypeOK'
  <2>1. asked' \in [Txn -> SUBSET Write] /\ landed' \in [Txn -> SUBSET Write]
    <3>1. asked[x] \cup {w} \in SUBSET Write /\ landed[x] \cup {w} \in SUBSET Write
      BY <1>1 DEF TypeOK
    <3>2. \/ landed' = landed
          \/ landed' = [landed EXCEPT ![x] = landed[x] \cup {w}]
      OBVIOUS
    <3>3. asked' = [asked EXCEPT ![x] = asked[x] \cup {w}]
      OBVIOUS
    <3> HIDE DEF x, Put
    <3>4. CASE landed' = landed
      BY <1>1, <3>1, <3>3, <3>4 DEF TypeOK
    <3>5. CASE landed' = [landed EXCEPT ![x] = landed[x] \cup {w}]
      BY <1>1, <3>1, <3>3, <3>5 DEF TypeOK
    <3> QED
      BY <3>2, <3>4, <3>5
  <2>2. stored' \in [Write -> Txn \cup {NoTxn}]
    BY <1>1 DEF TypeOK
  <2>3. pending' \in [Thread -> SUBSET Transactional] /\ wanted' \in [Thread -> SUBSET Transactional]
    <3>1. CASE w[1] \in Graph
      BY <3>1 DEF TypeOK
    <3>2. CASE w[1] \notin Graph
      <4>1. pending[t] \cup {w} \in SUBSET Transactional /\ {w} \in SUBSET Transactional
        BY <1>2, <3>2 DEF TypeOK
      <4> QED
        BY <3>2, <4>1 DEF TypeOK
    <3> QED
      BY <3>1, <3>2
  <2> QED
    BY <2>1, <2>2, <2>3 DEF TypeOK
<1>5. Bound'
  BY <1>1 DEF TypeOK, Bound
<1>6. Clean'
  <2>1. \A y : Used(y)' = Used(y)
    BY DEF Used
  <2>2. \A u \in Thread : pending'[u] \cup wanted'[u] \subseteq
            IF u = t THEN pending[u] \cup wanted[u] \cup {w} ELSE pending[u] \cup wanted[u]
    BY DEF TypeOK
  <2>3. \A u \in Thread : phase[u] # "working" => wanted'[u] = wanted[u]
    BY DEF TypeOK
  <2> QED
    BY <2>1, <2>2, <2>3 DEF Clean
<1>7. NothingBeforeCommit'
  <2>1. \A y \in Txn : landed'[y] \cap Transactional = landed[y] \cap Transactional
    BY <1>1, <1>3 DEF TypeOK
  <2> QED
    BY <2>1 DEF NothingBeforeCommit
<1> QED
  BY <1>4, <1>5, <1>6, <1>7

LEMMA ServicePutReturns ==
    ASSUME ServiceInv, NEW t \in Thread, NEW w \in Write, PutReturns(t, w)
    PROVE  ServiceInv'
<1> USE ServiceAssumption DEF ServiceInv, PutReturns
<1>1. TypeOK'
  BY DEF TypeOK
<1>2. Bound'
  BY DEF Bound
<1>3. Clean'
  <2>1. \A y : Used(y)' = Used(y)
    BY DEF Used
  <2>2. \A u \in Thread : pending'[u] \cup wanted'[u] \subseteq pending[u] \cup wanted[u]
    BY DEF TypeOK
  <2>3. \A u \in Thread : wanted[u] = {} => wanted'[u] = {}
    BY DEF TypeOK
  <2> QED
    BY <2>1, <2>2, <2>3 DEF Clean
<1>4. NothingBeforeCommit'
  BY DEF NothingBeforeCommit
<1> QED
  BY <1>1, <1>2, <1>3, <1>4

LEMMA ServiceFinish ==
    ASSUME ServiceInv, NEW t \in Thread, Finish(t)
    PROVE  ServiceInv'
<1> USE ServiceAssumption DEF ServiceInv
<1>0. PICK p \in {"committing", "rollingBack"} :
          /\ phase[t] = "working" /\ wanted[t] = {}
          /\ phase' = [phase EXCEPT ![t] = p]
          /\ UNCHANGED <<wrapper, resources, opened, pending, wanted, stored, asked, landed, outcome>>
  BY DEF Finish
<1>1. TypeOK'
  BY <1>0 DEF TypeOK
<1>2. Bound'
  BY <1>0 DEF TypeOK, Bound
<1>3. Clean'
  <2>1. \A y : Used(y)' = Used(y)
    BY <1>0 DEF Used
  <2>2. /\ phase'[t] = p
        /\ \A u \in Thread \ {t} : phase'[u] = phase[u]
    BY <1>0 DEF TypeOK
  <2> QED
    BY <1>0, <2>1, <2>2 DEF Clean
<1>4. NothingBeforeCommit'
  BY <1>0 DEF TypeOK, NothingBeforeCommit
<1> QED
  BY <1>1, <1>2, <1>3, <1>4

\* A database is committed or rolled back: the thread holds less.
LEMMA ServiceDatabase ==
    ASSUME ServiceInv, NEW t \in Thread, NEW r \in Resource, NEW d \in Database,
           CommitDatabase(t, r, d) \/ RollbackDatabase(t, r, d)
    PROVE  ServiceInv'
<1> USE ServiceAssumption DEF ServiceInv
<1>1. /\ phase[t] \in {"committing", "rollingBack"}
      /\ pending' = [pending EXCEPT ![t] = @ \ WritesTo(t, d)]
      /\ UNCHANGED <<wrapper, resources, phase, opened, wanted, asked, outcome>>
  BY DEF CommitDatabase, RollbackDatabase
<1>2. wrapper[t] \in Txn
  BY <1>1 DEF TypeOK, Bound
<1>3. WritesTo(t, d) \subseteq pending[t] /\ pending[t] \subseteq Transactional
  BY DEF TypeOK, WritesTo
<1>4. stored' \in [Write -> Txn \cup {NoTxn}]
  BY <1>2 DEF TypeOK, CommitDatabase, RollbackDatabase
<1>5. \/ landed' = landed
      \/ phase[t] = "committing" /\ landed' = [landed EXCEPT ![wrapper[t]] = @ \cup WritesTo(t, d)]
  BY DEF CommitDatabase, RollbackDatabase
<1>6. landed' \in [Txn -> SUBSET Write]
  <2>1. Transactional \subseteq Write
    BY DEF Write, Transactional
  <2>2. WritesTo(t, d) \subseteq Write
    BY <1>3, <2>1
  <2>3. landed[wrapper[t]] \cup WritesTo(t, d) \in SUBSET Write
    BY <1>2, <2>2 DEF TypeOK
  <2> QED
    BY <1>2, <1>5, <2>3 DEF TypeOK
<1>7. TypeOK'
  BY <1>1, <1>3, <1>4, <1>6 DEF TypeOK
<1>8. Bound'
  BY <1>1 DEF Bound
<1>9. Clean'
  <2>1. \A y : Used(y)' = Used(y)
    BY <1>1 DEF Used
  <2>2. \A u \in Thread : pending'[u] \subseteq pending[u]
    BY <1>1 DEF TypeOK
  <2> QED
    BY <1>1, <2>1, <2>2 DEF Clean
<1>10. NothingBeforeCommit'
  <2>1. \A x \in Txn : x # wrapper[t] \/ phase[t] # "committing" => landed'[x] = landed[x]
    BY <1>2, <1>5 DEF TypeOK
  <2> QED
    BY <1>1, <2>1 DEF NothingBeforeCommit
<1> QED
  BY <1>7, <1>8, <1>9, <1>10

\* A resource with nothing left to end is given up.
LEMMA ServiceResetResource ==
    ASSUME ServiceInv, NEW t \in Thread, NEW r \in Resource, ResetResource(t, r)
    PROVE  ServiceInv'
<1> USE ServiceAssumption DEF ServiceInv, ResetResource
<1>1. TypeOK'
  BY DEF TypeOK
<1>2. Bound'
  BY DEF Bound
<1>3. Clean'
  <2>1. \A y : Used(y)' = Used(y)
    BY DEF Used
  <2>2. \A w \in pending[t] : Owner[w[1]] # r
    <3> SUFFICES ASSUME NEW w \in pending[t], Owner[w[1]] = r PROVE FALSE
      OBVIOUS
    <3>1. PICK d \in Database, k \in Row : w = <<d, k>>
      BY DEF TypeOK, Transactional
    <3> QED
      BY <3>1 DEF Begun
  <2>3. opened'[t] = opened[t] \ {r} /\ \A u \in Thread \ {t} : opened'[u] = opened[u]
    BY DEF TypeOK
  <2>4. wanted[t] = {}
    BY DEF Clean
  <2> QED
    BY <2>1, <2>2, <2>3, <2>4 DEF Clean
<1>4. NothingBeforeCommit'
  BY DEF NothingBeforeCommit
<1> QED
  BY <1>1, <1>2, <1>3, <1>4

\* When the loop is over nothing is held.
LEMMA NothingHeld ==
    ASSUME ServiceInv, NEW t \in Thread, ResetWrapper(t)
    PROVE  opened[t] = {} /\ pending[t] = {} /\ wanted[t] = {}
<1>1. opened[t] \subseteq Used(wrapper[t])
  BY DEF ServiceInv, Clean, ResetWrapper
<1>2. opened[t] = {}
  BY <1>1 DEF Used, ResetWrapper
<1> QED
  BY <1>2 DEF ServiceInv, Clean

LEMMA ServiceResetWrapper ==
    ASSUME ServiceInv, NEW t \in Thread, ResetWrapper(t)
    PROVE  ServiceInv'
<1> USE ServiceAssumption DEF ServiceInv
<1> DEFINE x == wrapper[t]
<1>0. opened[t] = {} /\ pending[t] = {} /\ wanted[t] = {}
  BY NothingHeld
<1>1. PICK o \in {"committed", "rolledBack"} :
          /\ o = IF phase[t] = "committing" THEN "committed" ELSE "rolledBack"
          /\ outcome' = [outcome EXCEPT ![x] = o]
  BY DEF ResetWrapper
<1>2. /\ phase[t] \in {"committing", "rollingBack"}
      /\ wrapper' = [wrapper EXCEPT ![t] = NoTxn]
      /\ phase' = [phase EXCEPT ![t] = "idle"]
      /\ UNCHANGED <<resources, opened, pending, wanted, stored, asked, landed>>
  BY DEF ResetWrapper
<1>3. x \in Txn /\ outcome[x] = "open"
  BY <1>2 DEF TypeOK, Bound
<1>4. TypeOK'
  BY <1>1, <1>2, <1>3 DEF TypeOK
<1>5. Bound'
  BY <1>1, <1>2, <1>3 DEF TypeOK, Bound
<1>6. Clean'
  <2>1. \A y : Used(y)' = Used(y)
    BY <1>2 DEF Used
  <2>2. /\ phase'[t] = "idle"
        /\ \A u \in Thread \ {t} : phase'[u] = phase[u] /\ wrapper'[u] = wrapper[u]
    BY <1>2 DEF TypeOK
  <2> QED
    BY <1>0, <1>2, <2>1, <2>2 DEF Clean
<1>7. NothingBeforeCommit'
  <2> SUFFICES ASSUME NEW y \in Txn, landed[y] \cap Transactional # {}
               PROVE  \/ outcome'[y] \in {"committed", "crashed"}
                      \/ \E u \in Thread : wrapper'[u] = y /\ phase'[u] = "committing"
    BY <1>2 DEF NothingBeforeCommit
  <2>1. CASE y = x
    <3>1. PICK u \in Thread : wrapper[u] = x /\ phase[u] = "committing"
      BY <1>3, <2>1 DEF NothingBeforeCommit
    <3>2. u = t
      BY <1>3, <3>1 DEF Bound
    <3>3. outcome'[x] = "committed"
      BY <1>1, <1>3, <3>1, <3>2 DEF TypeOK
    <3> QED
      BY <2>1, <3>3
  <2>2. CASE y # x
    <3>1. \/ outcome[y] \in {"committed", "crashed"}
          \/ \E u \in Thread : wrapper[u] = y /\ phase[u] = "committing"
      BY DEF NothingBeforeCommit
    <3>2. outcome'[y] = outcome[y]
      BY <1>1, <2>2 DEF TypeOK
    <3>3. ASSUME NEW u \in Thread, wrapper[u] = y
          PROVE  wrapper'[u] = wrapper[u] /\ phase'[u] = phase[u]
      BY <1>2, <2>2, <3>3 DEF TypeOK
    <3> QED
      BY <3>1, <3>2, <3>3
  <2> QED
    BY <2>1, <2>2
<1> QED
  BY <1>4, <1>5, <1>6, <1>7

LEMMA ServiceCrash ==
    ASSUME ServiceInv, Crash
    PROVE  ServiceInv'
<1> USE ServiceAssumption DEF ServiceInv, Crash
<1>1. TypeOK'
  BY DEF TypeOK
<1>2. Bound'
  BY DEF TypeOK, Bound
<1>3. Clean'
  BY DEF Clean
<1>4. NothingBeforeCommit'
  <2> SUFFICES ASSUME NEW y \in Txn, landed[y] \cap Transactional # {}
               PROVE  outcome'[y] \in {"committed", "crashed"}
    BY DEF NothingBeforeCommit
  <2>1. outcome[y] \in {"open", "committed", "crashed"}
    <3>1. ASSUME NEW u \in Thread, wrapper[u] = y PROVE outcome[y] = "open"
      BY <3>1 DEF Bound
    <3> QED
      BY <3>1 DEF NothingBeforeCommit
  <2> QED
    BY <2>1
<1> QED
  BY <1>1, <1>2, <1>3, <1>4

LEMMA ServiceStep == ServiceInv /\ [Next]_vars => ServiceInv'
<1> SUFFICES ASSUME ServiceInv, [Next]_vars PROVE ServiceInv'
  OBVIOUS
<1>1. ASSUME NEW t \in Thread, NEW x \in Txn, CreateTransaction(t, x) PROVE ServiceInv'
  BY <1>1, ServiceCreate
<1>2. ASSUME NEW t \in Thread, NEW r \in Resource, GetResource(t, r) PROVE ServiceInv'
  BY <1>2, ServiceGetResource
<1>3. ASSUME NEW t \in Thread, NEW w \in Write, Put(t, w) PROVE ServiceInv'
  BY <1>3, ServicePut
<1>4. ASSUME NEW t \in Thread, NEW w \in Write, PutReturns(t, w) PROVE ServiceInv'
  BY <1>4, ServicePutReturns
<1>5. ASSUME NEW t \in Thread, Finish(t) PROVE ServiceInv'
  BY <1>5, ServiceFinish
<1>6. ASSUME NEW t \in Thread, Ending(t) PROVE ServiceInv'
  BY <1>6, ServiceDatabase, ServiceResetResource, ServiceResetWrapper DEF Ending
<1>7. CASE Crash
  BY <1>7, ServiceCrash
<1>8. CASE UNCHANGED vars
  BY <1>8 DEF vars, ServiceInv, TypeOK, Bound, Clean, NothingBeforeCommit, Used
<1> QED
  BY <1>1, <1>2, <1>3, <1>4, <1>5, <1>6, <1>7, <1>8 DEF Next

\* Under any contention, any crash and any failed commit: a thread is clean
\* after its transaction and owns what it opens, and nothing of a transaction
\* is in RocksDB before its commit or after its rollback
\* (TransactionServiceModule and the three resource managers).
THEOREM ServiceCorrect == Spec => [](TypeOK /\ ThreadsClean /\ NothingBeforeCommit)
<1>1. ServiceInv => TypeOK /\ ThreadsClean /\ NothingBeforeCommit
  <2> SUFFICES ASSUME ServiceInv PROVE ThreadReusable /\ OneThreadEach
    BY DEF ServiceInv, ThreadsClean
  <2>1. ThreadReusable
    BY DEF ServiceInv, Bound, Clean, ThreadReusable
  <2>2. OneThreadEach
    BY ServiceAssumption DEF ServiceInv, Bound, OneThreadEach, Open
  <2> QED
    BY <2>1, <2>2
<1> QED
  BY <1>1, ServiceStart, ServiceStep, PTL DEF Spec

----------------------------------------------------------------------------
(* Atomicity, but for single writes that were refused; in a system where   *)
(* no two threads write the same rows and no Commit fails, none is.        *)

\* What is excused stays excused, since no transaction takes back what it asked for.
LEMMA ExcusedStays ==
    ASSUME NEW x \in Txn, NEW w, Excused(x, w), \A y \in Txn : asked[y] \subseteq asked'[y]
    PROVE  Excused(x, w)'
BY DEF Excused, Refusable, Calm

\* A row that another thread holds is one that two transactions ask for.
LEMMA LockedRefusable ==
    ASSUME WholeInv, NEW t \in Thread, NEW w, wrapper[t] # NoTxn, Locked(t, w)
    PROVE  Refusable(wrapper[t], w)
<1>1. PICK u \in Thread \ {t} : w \in pending[u]
  BY DEF Locked
<1>2. wrapper[u] # NoTxn
  BY <1>1 DEF WholeInv, ServiceInv, Bound, Clean
<1>3. wrapper[u] \in Txn /\ wrapper[u] # wrapper[t]
  BY <1>2 DEF WholeInv, ServiceInv, TypeOK, Bound
<1>4. w \in asked[wrapper[u]]
  BY <1>1, <1>2 DEF WholeInv, Kept, Held
<1> QED
  BY <1>3, <1>4 DEF Refusable

LEMMA WholeStart == Init => WholeInv
<1> SUFFICES ASSUME Init PROVE WholeInv
  OBVIOUS
<1>1. ServiceInv
  BY ServiceStart
<1>2. Kept
  BY DEF Init, Kept, Held
<1>3. Once
  BY DEF Init, Once
<1>4. AllLanded
  BY DEF Init, AllLanded
<1>5. LandedInOrder
  BY DEF Init, LandedInOrder
<1> QED
  BY <1>1, <1>2, <1>3, <1>4, <1>5 DEF WholeInv

\* A step that changes neither a list of resources nor what is asked and
\* durable keeps the order of what is torn.
LEMMA TornStays ==
    ASSUME Once, LandedInOrder, UNCHANGED <<resources, asked, landed>>
    PROVE  Once' /\ LandedInOrder'
<1>1. \A x \in Txn : \A w : Excused(x, w) => Excused(x, w)'
  BY ExcusedStays
<1>2. \A x, v, w : Earlier(x, v, w)' <=> Earlier(x, v, w)
  BY DEF Earlier
<1> QED
  BY <1>1, <1>2 DEF Once, LandedInOrder

\* What a thread asked for stays kept while its transaction and what it holds stay.
LEMMA KeptStays ==
    ASSUME WholeInv, UNCHANGED <<asked, landed>>,
           \A t \in Thread :
               /\ pending'[t] \subseteq pending[t] /\ wanted'[t] \subseteq wanted[t]
               /\ wrapper'[t] # NoTxn => wrapper'[t] = wrapper[t]
               /\ phase'[t] \in {"working", "committing"} =>
                      /\ phase[t] \in {"working", "committing"} /\ wrapper'[t] = wrapper[t]
                      /\ pending'[t] = pending[t] /\ wanted'[t] = wanted[t]
    PROVE  Kept'
<1>1. \A t \in Thread : phase[t] \in {"working", "committing"} => wrapper[t] \in Txn
  BY DEF WholeInv, ServiceInv, TypeOK, Bound
<1>2. \A x \in Txn : \A w : Excused(x, w) => Excused(x, w)'
  BY ExcusedStays
<1>3. \A t \in Thread : Held(t)' \subseteq Held(t)
  BY DEF Held
<1>4. \A t \in Thread : phase'[t] \in {"working", "committing"} => Held(t)' = Held(t)
  BY DEF Held
<1>5. Calm' <=> Calm
  BY DEF Calm
<1> QED
  BY <1>1, <1>2, <1>3, <1>4, <1>5 DEF WholeInv, Kept

\* What was committed stays whole when no transaction asks for more or commits.
LEMMA AllStays ==
    ASSUME AllLanded, UNCHANGED <<asked, landed>>,
           \A x \in Txn : outcome'[x] = "committed" => outcome[x] = "committed"
    PROVE  AllLanded'
<1>1. \A x \in Txn : \A w : Excused(x, w) => Excused(x, w)'
  BY ExcusedStays
<1> QED
  BY <1>1 DEF AllLanded

\* A transaction whose thread has not begun to commit is not in RocksDB.
LEMMA NotYetLanded ==
    ASSUME ServiceInv, NEW t \in Thread, phase[t] = "working"
    PROVE  /\ wrapper[t] \in Txn /\ outcome[wrapper[t]] = "open"
           /\ landed[wrapper[t]] \cap Transactional = {}
<1>1. wrapper[t] \in Txn /\ outcome[wrapper[t]] = "open"
  BY DEF ServiceInv, TypeOK, Bound
<1>2. \A u \in Thread : wrapper[u] = wrapper[t] => phase[u] = "working"
  BY <1>1, ServiceAssumption DEF ServiceInv, Bound
<1> QED
  BY <1>1, <1>2 DEF ServiceInv, NothingBeforeCommit

LEMMA WholeCreate ==
    ASSUME WholeInv, NEW t \in Thread, NEW x \in Txn, CreateTransaction(t, x)
    PROVE  WholeInv'
<1> USE DEF WholeInv
<1>1. ServiceInv'
  BY ServiceCreate
<1>2. Once' /\ LandedInOrder'
  BY TornStays DEF CreateTransaction
<1>3. asked[x] = {} /\ pending[t] = {} /\ wanted[t] = {}
  BY DEF ServiceInv, Bound, Clean, CreateTransaction
<1>4. /\ wrapper'[t] = x /\ phase'[t] = "working"
      /\ \A u \in Thread \ {t} : wrapper'[u] = wrapper[u] /\ phase'[u] = phase[u]
      /\ UNCHANGED <<pending, wanted, asked, landed>>
  BY DEF ServiceInv, TypeOK, CreateTransaction
<1>5. Kept'
  <2>1. \A y \in Txn : \A w : Excused(y, w) => Excused(y, w)'
    BY <1>4, ExcusedStays
  <2>2. \A u \in Thread : Held(u)' = Held(u)
    BY <1>4 DEF Held
  <2>3. Held(t) = {} /\ asked[x] = {}
    BY <1>3 DEF Held
  <2>4. \A u \in Thread : phase[u] \in {"working", "committing"} => wrapper[u] \in Txn
    BY DEF ServiceInv, TypeOK, Bound
  <2>5. Calm' <=> Calm
    BY DEF Calm
  <2> QED
    BY <1>4, <2>1, <2>2, <2>3, <2>4, <2>5 DEF Kept
<1>6. AllLanded'
  BY AllStays DEF ServiceInv, TypeOK, CreateTransaction
<1> QED
  BY <1>1, <1>2, <1>5, <1>6

LEMMA WholeGetResource ==
    ASSUME WholeInv, NEW t \in Thread, NEW r \in Resource, GetResource(t, r)
    PROVE  WholeInv'
<1> USE DEF WholeInv, GetResource
<1> DEFINE x == wrapper[t]
           s == resources[x]
<1>1. ServiceInv'
  BY ServiceGetResource
<1>2. x \in Txn /\ landed[x] \cap Transactional = {}
  BY NotYetLanded
<1>3. Kept' /\ AllLanded'
  BY KeptStays, AllStays
<1>4. /\ s \in Seq(Resource) /\ resources'[x] = Append(s, r)
      /\ \A y \in Txn \ {x} : resources'[y] = resources[y]
  BY <1>2 DEF ServiceInv, TypeOK
<1>5. \A i \in 1 .. Len(s) : s[i] # r
  BY DEF ServiceInv, Clean, Used
<1>6. Once'
  <2> SUFFICES ASSUME NEW y \in Txn,
                      NEW i \in 1 .. Len(resources'[y]), NEW j \in 1 .. Len(resources'[y]),
                      resources'[y][i] = resources'[y][j]
               PROVE  i = j
    BY DEF Once
  <2>1. CASE y # x
    BY <1>4, <2>1 DEF Once
  <2>2. CASE y = x
    <3>1. /\ Len(Append(s, r)) = Len(s) + 1
          /\ \A k \in 1 .. Len(s) : Append(s, r)[k] = s[k]
          /\ Append(s, r)[Len(s) + 1] = r
          /\ Len(s) \in Nat
      BY <1>4, AppendFacts
    <3>2. /\ i \in 1 .. Len(s) \/ i = Len(s) + 1
          /\ j \in 1 .. Len(s) \/ j = Len(s) + 1
      BY <1>4, <2>2, <3>1
    <3>3. Append(s, r)[i] = Append(s, r)[j]
      BY <1>4, <2>2
    <3>4. \A k, l \in 1 .. Len(s) : s[k] = s[l] => k = l
      BY <1>2 DEF Once
    <3> QED
      BY <1>5, <3>1, <3>2, <3>3, <3>4
  <2> QED
    BY <2>1, <2>2
<1>7. LandedInOrder'
  <2>1. \A y \in Txn \ {x} : \A v, w : Earlier(y, v, w)' = Earlier(y, v, w)
    BY <1>4 DEF Earlier
  <2>2. \A y \in Txn : \A w : Excused(y, w) => Excused(y, w)'
    BY ExcusedStays
  <2> QED
    BY <1>2, <2>1, <2>2 DEF LandedInOrder
<1> QED
  BY <1>1, <1>3, <1>6, <1>7

\* A Put is durable at once, held, or waits, and then the row is another's too.
LEMMA WholePut ==
    ASSUME WholeInv, NEW t \in Thread, NEW w \in Write, Put(t, w)
    PROVE  WholeInv'
<1> USE DEF WholeInv
<1> DEFINE x == wrapper[t]
<1>1. ServiceInv'
  BY ServicePut
<1>2. x \in Txn /\ outcome[x] = "open" /\ landed[x] \cap Transactional = {}
  BY NotYetLanded DEF Put
<1>3. /\ phase[t] = "working" /\ w[2] \in RowsOf[t] /\ wanted[t] = {}
      /\ asked' = [asked EXCEPT ![x] = asked[x] \cup {w}]
      /\ \/ /\ w[1] \in Graph
            /\ landed' = [landed EXCEPT ![x] = landed[x] \cup {w}]
            /\ pending' = pending /\ wanted' = wanted
         \/ /\ pending' = [pending EXCEPT ![t] = pending[t] \cup {w}]
            /\ landed' = landed /\ wanted' = wanted
         \/ /\ wanted' = [wanted EXCEPT ![t] = {w}] /\ Locked(t, w)
            /\ landed' = landed /\ pending' = pending
      /\ UNCHANGED <<wrapper, resources, phase, outcome>>
  BY DEF Put
<1>4. Locked(t, w) => ~Calm
  BY <1>3 DEF Locked, Calm, Kept
<1>5. /\ asked'[x] = asked[x] \cup {w}
      /\ \A y \in Txn \ {x} : asked'[y] = asked[y] /\ landed'[y] = landed[y]
      /\ \A u \in Thread \ {t} : pending'[u] = pending[u] /\ wanted'[u] = wanted[u]
      /\ landed[x] \subseteq landed'[x] /\ landed'[x] \subseteq landed[x] \cup {w}
      /\ pending'[t] \subseteq pending[t] \cup {w}
      /\ wanted'[t] \subseteq {w} /\ (wanted'[t] # {} => ~Calm)
      /\ Held(t) \subseteq Held(t)' /\ Held(t)' \subseteq Held(t) \cup {w}
      /\ w \in landed'[x] \cup Held(t)'
  BY <1>2, <1>3, <1>4 DEF ServiceInv, TypeOK, Held
<1>6. \A u \in Thread \ {t} : wrapper[u] # NoTxn => wrapper[u] \in Txn \ {x}
  BY <1>2 DEF ServiceInv, TypeOK, Bound
<1>7. \A y \in Txn : \A v : Excused(y, v) => Excused(y, v)'
  BY <1>5, ExcusedStays
<1>8. Kept'
  <2>1. \A u \in Thread \ {t} : Held(u)' = Held(u)
    BY <1>5 DEF Held
  <2>2. ASSUME NEW u \in Thread, NEW y \in Txn, wrapper[u] = y,
               phase[u] \in {"working", "committing"}, NEW v \in asked'[y]
        PROVE  v \in landed'[y] \cup Held(u)' \/ Excused(y, v)'
    <3>1. v \in asked[y] => v \in landed[y] \cup Held(u) \/ Excused(y, v)
      BY <2>2 DEF Kept
    <3>2. Excused(y, v) => Excused(y, v)'
      BY <1>7
    <3>3. CASE u = t
      BY <1>2, <1>5, <2>2, <3>1, <3>2, <3>3
    <3>4. CASE u # t
      <4>1. y # x
        BY <1>6, <2>2, <3>4, ServiceAssumption
      <4> QED
        BY <1>5, <2>1, <2>2, <3>1, <3>2, <3>4, <4>1
    <3> QED
      BY <3>3, <3>4
  <2>3. \A y \in Txn : landed'[y] \subseteq asked'[y]
    BY <1>5 DEF Kept
  <2>4. \A u \in Thread : wrapper[u] # NoTxn => Held(u)' \subseteq asked'[wrapper[u]]
    BY <1>2, <1>5, <1>6, <2>1 DEF Kept
  <2>5. /\ Calm => \A u \in Thread : wanted'[u] = {} /\ \A v \in pending'[u] : v[2] \in RowsOf[u]
        /\ \A u \in Thread : \A v, y \in wanted'[u] : v = y
    BY <1>3, <1>5 DEF Kept
  <2>6. Calm' <=> Calm
    BY DEF Calm
  <2>7. \A u \in Thread : phase[u] \in {"working", "committing"} => wrapper[u] \in Txn
    BY DEF ServiceInv, TypeOK, Bound
  <2> QED
    BY <1>3, <2>2, <2>3, <2>4, <2>5, <2>6, <2>7 DEF Kept
<1>9. Once'
  BY <1>3 DEF Once
<1>10. AllLanded'
  BY <1>2, <1>3, <1>5, <1>7 DEF AllLanded
<1>11. LandedInOrder'
  <2>1. w[1] \in Graph => w \notin Transactional
    BY DEF Transactional
  <2>2. landed'[x] \cap Transactional = {}
    BY <1>2, <1>3, <2>1 DEF ServiceInv, TypeOK
  <2>3. \A y, v, u : Earlier(y, v, u)' = Earlier(y, v, u)
    BY <1>3 DEF Earlier
  <2> QED
    BY <1>5, <1>7, <2>2, <2>3 DEF LandedInOrder
<1> QED
  BY <1>1, <1>8, <1>9, <1>10, <1>11

\* A Put that waited is held, or is refused while another has the row.
LEMMA WholePutReturns ==
    ASSUME WholeInv, NEW t \in Thread, NEW w \in Write, PutReturns(t, w)
    PROVE  WholeInv'
<1> USE DEF WholeInv
<1> DEFINE x == wrapper[t]
<1>1. ServiceInv'
  BY ServicePutReturns
<1>2. Once' /\ LandedInOrder' /\ AllLanded'
  BY TornStays, AllStays DEF PutReturns
<1>3. /\ w \in wanted[t] /\ phase[t] = "working" /\ x # NoTxn /\ x \in Txn
  BY DEF ServiceInv, TypeOK, Bound, Clean, PutReturns
<1>4. ~Calm
  BY <1>3 DEF Kept
<1>5. /\ \A u \in Thread \ {t} : pending'[u] = pending[u] /\ wanted'[u] = wanted[u]
      /\ wanted[t] \subseteq Held(t) /\ Held(t)' \subseteq Held(t)
      /\ UNCHANGED <<wrapper, phase, asked, landed>>
  BY <1>3 DEF ServiceInv, TypeOK, Held, PutReturns
<1>6. \A y \in Txn : \A v : Excused(y, v) => Excused(y, v)'
  BY <1>5, ExcusedStays
<1>9. wanted[t] = {w} /\ wanted'[t] = {}
  BY <1>3 DEF ServiceInv, TypeOK, Kept, PutReturns
<1>7. \A v \in Held(t) : v \in Held(t)' \/ Excused(x, v)
  <2>1. CASE pending' = [pending EXCEPT ![t] = @ \cup {w}]
    BY <1>9, <2>1 DEF ServiceInv, TypeOK, Held
  <2>2. CASE Locked(t, w) /\ UNCHANGED pending
    BY <1>3, <1>4, <1>9, <2>2, LockedRefusable DEF Held, Excused
  <2> QED
    BY <2>1, <2>2 DEF PutReturns
<1>8. Kept'
  <2>1. \A u \in Thread \ {t} : Held(u)' = Held(u)
    BY <1>5 DEF Held
  <2>2. ASSUME NEW u \in Thread, NEW y \in Txn, wrapper[u] = y,
               phase[u] \in {"working", "committing"}, NEW v \in asked[y]
        PROVE  v \in landed[y] \cup Held(u)' \/ Excused(y, v)'
    <3>1. v \in landed[y] \cup Held(u) \/ Excused(y, v)
      BY <2>2 DEF Kept
    <3>2. Excused(y, v) => Excused(y, v)'
      BY <1>6
    <3> QED
      BY <1>7, <2>1, <2>2, <3>1, <3>2
  <2>3. \A u \in Thread : wrapper[u] # NoTxn => Held(u)' \subseteq asked[wrapper[u]]
    BY <1>5, <2>1 DEF Kept
  <2>4. \A u \in Thread : wanted'[u] \subseteq wanted[u]
    BY <1>5, <1>9
  <2>5. Calm' <=> Calm
    BY DEF Calm
  <2>6. \A u \in Thread : phase[u] \in {"working", "committing"} => wrapper[u] \in Txn
    BY DEF ServiceInv, TypeOK, Bound
  <2> QED
    BY <1>4, <1>5, <2>2, <2>3, <2>4, <2>5, <2>6 DEF Kept
<1> QED
  BY <1>1, <1>2, <1>8

LEMMA WholeFinish ==
    ASSUME WholeInv, NEW t \in Thread, Finish(t)
    PROVE  WholeInv'
<1> USE DEF WholeInv
<1>1. ServiceInv'
  BY ServiceFinish
<1>2. Once' /\ LandedInOrder' /\ AllLanded'
  BY TornStays, AllStays DEF Finish
<1>3. /\ phase[t] = "working"
      /\ \A u \in Thread \ {t} : phase'[u] = phase[u]
      /\ UNCHANGED <<wrapper, pending, wanted, asked, landed>>
  BY DEF ServiceInv, TypeOK, Finish
<1>4. Kept'
  BY <1>3, KeptStays
<1> QED
  BY <1>1, <1>2, <1>4

\* What the current resource's first database holds comes after nothing else
\* that is still held: it may become durable next.
LEMMA NextInOrder ==
    ASSUME WholeInv, NEW t \in Thread, NEW r \in Resource, NEW d \in Database,
           phase[t] = "committing", Current(t, r), First(t, r, d),
           NEW w \in WritesTo(t, d), NEW v \in pending[t] \ WritesTo(t, d)
    PROVE  ~Earlier(wrapper[t], v, w)
<1> USE DEF WholeInv
<1> DEFINE s == resources[wrapper[t]]
<1>1. wrapper[t] \in Txn /\ s \in Seq(Resource) /\ Len(s) \in Nat
  BY DEF ServiceInv, TypeOK, Bound
<1>2. w[1] = d /\ Owner[d] = r
  BY DEF WritesTo, First, Begun
<1>3. PICK e \in Database, k \in Row : v = <<e, k>> /\ e # d
  BY DEF ServiceInv, TypeOK, Transactional, WritesTo
<1>4. Owner[e] \in opened[t]
  BY <1>3 DEF ServiceInv, Clean
<1>5. Owner[e] = r => Position[d] <= Position[e]
  BY <1>3 DEF First, Begun
<1>6. Position[d] \in Nat /\ Position[e] \in Nat
  BY ServiceAssumption
<1>7. PICK c \in 1 .. Len(s) : s[c] = r /\ \A j \in 1 .. c - 1 : s[j] \notin opened[t]
  BY DEF Current
<1>8. \A j \in 1 .. Len(s) : s[j] = r => j = c
  BY <1>1, <1>7 DEF Once
<1>9. ~(Owner[v[1]] = Owner[w[1]] /\ Position[v[1]] < Position[w[1]])
  BY <1>2, <1>3, <1>5, <1>6
<1>10. ASSUME NEW i \in 1 .. Len(s), NEW j \in 1 .. Len(s),
              i < j, s[i] = Owner[v[1]], s[j] = Owner[w[1]]
       PROVE  FALSE
  <2>1. j = c
    BY <1>2, <1>8, <1>10
  <2>2. i \in 1 .. c - 1
    BY <1>1, <1>10, <2>1
  <2> QED
    BY <1>3, <1>4, <1>7, <1>10, <2>2
<1> QED
  BY <1>9, <1>10 DEF Earlier

\* A database's commit: what it holds is durable, or it failed and that is excused.
LEMMA WholeCommitDatabase ==
    ASSUME WholeInv, NEW t \in Thread, NEW r \in Resource, NEW d \in Database,
           CommitDatabase(t, r, d)
    PROVE  WholeInv'
<1> USE DEF WholeInv
<1> DEFINE x == wrapper[t]
           W == WritesTo(t, d)
<1>1. ServiceInv'
  BY ServiceDatabase
<1>2. /\ phase[t] = "committing" /\ Current(t, r) /\ First(t, r, d)
      /\ landed' = [landed EXCEPT ![x] = landed[x] \cup W] \/ (d \in Unreliable /\ landed' = landed)
      /\ pending' = [pending EXCEPT ![t] = pending[t] \ W]
      /\ UNCHANGED <<wrapper, resources, phase, wanted, asked, outcome>>
  BY DEF CommitDatabase
<1>3. x \in Txn /\ outcome[x] = "open" /\ x # NoTxn
  BY <1>2, ServiceAssumption DEF ServiceInv, TypeOK, Bound
<1>4. /\ landed[x] \subseteq landed'[x] /\ landed'[x] \subseteq landed[x] \cup W
      /\ d \notin Unreliable => landed'[x] = landed[x] \cup W
      /\ \A y \in Txn \ {x} : landed'[y] = landed[y]
      /\ pending'[t] = pending[t] \ W /\ \A u \in Thread \ {t} : pending'[u] = pending[u]
      /\ W \subseteq pending[t] /\ wanted[t] = {}
  <2>1. landed \in [Txn -> SUBSET Write] /\ pending \in [Thread -> SUBSET Transactional]
    BY DEF ServiceInv, TypeOK
  <2>2. W \subseteq pending[t] /\ wanted[t] = {}
    BY <1>2 DEF ServiceInv, Clean, WritesTo
  <2>3. pending'[t] = pending[t] \ W /\ \A u \in Thread \ {t} : pending'[u] = pending[u]
    BY <1>2, <2>1
  <2>4. CASE landed' = [landed EXCEPT ![x] = landed[x] \cup W]
    BY <1>3, <2>1, <2>2, <2>3, <2>4
  <2>5. CASE d \in Unreliable /\ landed' = landed
    BY <2>2, <2>3, <2>5
  <2> QED
    BY <1>2, <2>4, <2>5
<1>5. \A y \in Txn : \A v : Excused(y, v) => Excused(y, v)'
  BY <1>2, ExcusedStays
<1>6. \A v \in W : v \in landed'[x] \/ Excused(x, v)
  BY <1>4 DEF Excused, Refusable, Calm, WritesTo
<1>7. \A u \in Thread \ {t} : wrapper[u] # NoTxn => wrapper[u] \in Txn \ {x}
  BY <1>3 DEF ServiceInv, TypeOK, Bound
<1>8. Kept'
  <2>1. /\ \A u \in Thread \ {t} : Held(u)' = Held(u)
        /\ \A u \in Thread : Held(u)' \subseteq Held(u) /\ pending'[u] \subseteq pending[u]
        /\ Held(t) = pending[t] /\ Held(t)' = pending[t] \ W
    BY <1>2, <1>4 DEF Held
  <2>2. ASSUME NEW u \in Thread, NEW y \in Txn, wrapper[u] = y,
               phase[u] \in {"working", "committing"}, NEW v \in asked[y]
        PROVE  v \in landed'[y] \cup Held(u)' \/ Excused(y, v)'
    <3>1. v \in landed[y] \cup Held(u) \/ Excused(y, v)
      BY <2>2 DEF Kept
    <3>2. Excused(y, v) => Excused(y, v)'
      BY <1>5
    <3>3. CASE u = t
      BY <1>4, <1>6, <2>1, <2>2, <3>1, <3>2, <3>3
    <3>4. CASE u # t
      <4>1. y # x
        BY <1>7, <2>2, <3>4, ServiceAssumption
      <4> QED
        BY <1>4, <2>1, <2>2, <3>1, <3>2, <3>4, <4>1
    <3> QED
      BY <3>3, <3>4
  <2>3. \A y \in Txn : landed'[y] \subseteq asked[y]
    BY <1>3, <1>4, <2>1 DEF Kept
  <2>4. Calm' <=> Calm
    BY DEF Calm
  <2>5. \A u \in Thread : phase[u] \in {"working", "committing"} => wrapper[u] \in Txn
    BY DEF ServiceInv, TypeOK, Bound
  <2> QED
    BY <1>2, <2>1, <2>2, <2>3, <2>4, <2>5 DEF Kept
<1>9. Once'
  BY <1>2 DEF Once
<1>10. AllLanded'
  BY <1>2, <1>3, <1>4, <1>5 DEF AllLanded
<1>11. LandedInOrder'
  <2> SUFFICES ASSUME NEW y \in Txn,
                      NEW w \in landed'[y] \cap Transactional,
                      NEW v \in asked[y] \cap Transactional,
                      Earlier(y, v, w)
               PROVE  v \in landed'[y] \/ Excused(y, v)'
    BY <1>2 DEF LandedInOrder, Earlier
  <2>1. CASE w \in landed[y]
    BY <1>4, <1>5, <2>1 DEF LandedInOrder
  <2>2. CASE w \notin landed[y]
    <3>1. y = x /\ w \in W
      BY <1>4, <2>2
    <3>2. v \notin pending[t] \ W
      BY <1>2, <3>1, NextInOrder
    <3>3. v \in landed[x] \cup pending[t] \/ Excused(x, v)
      BY <1>2, <1>4, <3>1 DEF Kept, Held
    <3> QED
      BY <1>4, <1>5, <1>6, <3>1, <3>2, <3>3
  <2> QED
    BY <2>1, <2>2
<1> QED
  BY <1>1, <1>8, <1>9, <1>10, <1>11

LEMMA WholeRollbackDatabase ==
    ASSUME WholeInv, NEW t \in Thread, NEW r \in Resource, NEW d \in Database,
           RollbackDatabase(t, r, d)
    PROVE  WholeInv'
<1> USE DEF WholeInv
<1>1. ServiceInv'
  BY ServiceDatabase
<1>2. Once' /\ LandedInOrder' /\ AllLanded'
  BY TornStays, AllStays DEF RollbackDatabase
<1>3. /\ phase[t] = "rollingBack"
      /\ pending'[t] \subseteq pending[t] /\ \A u \in Thread \ {t} : pending'[u] = pending[u]
      /\ UNCHANGED <<wrapper, phase, wanted, asked, landed>>
  BY DEF ServiceInv, TypeOK, RollbackDatabase
<1>4. Kept'
  <2>1. wrapper'[t] = wrapper[t] /\ phase'[t] \notin {"working", "committing"}
    BY <1>3
  <2> QED
    BY <1>3, <2>1, KeptStays
<1> QED
  BY <1>1, <1>2, <1>4

LEMMA WholeResetResource ==
    ASSUME WholeInv, NEW t \in Thread, NEW r \in Resource, ResetResource(t, r)
    PROVE  WholeInv'
<1> USE DEF WholeInv
<1>1. ServiceInv'
  BY ServiceResetResource
<1>2. Once' /\ LandedInOrder' /\ AllLanded'
  BY TornStays, AllStays DEF ResetResource
<1>3. Kept'
  BY KeptStays DEF ResetResource
<1> QED
  BY <1>1, <1>2, <1>3

\* The wrapper is reset after a commit when nothing is held any more: all that
\* was asked for is durable, or was refused.
LEMMA WholeResetWrapper ==
    ASSUME WholeInv, NEW t \in Thread, ResetWrapper(t)
    PROVE  WholeInv'
<1> USE DEF WholeInv
<1> DEFINE x == wrapper[t]
<1>1. ServiceInv'
  BY ServiceResetWrapper
<1>2. Once' /\ LandedInOrder'
  BY TornStays DEF ResetWrapper
<1>3. pending[t] = {} /\ wanted[t] = {}
  BY NothingHeld
<1>4. /\ wrapper'[t] = NoTxn /\ phase'[t] = "idle"
      /\ \A u \in Thread \ {t} : wrapper'[u] = wrapper[u] /\ phase'[u] = phase[u]
      /\ UNCHANGED <<pending, wanted, asked, landed>>
  BY DEF ServiceInv, TypeOK, ResetWrapper
<1>5. Kept'
  <2>1. phase'[t] \notin {"working", "committing"} /\ wrapper'[t] = NoTxn
    BY <1>4
  <2> QED
    BY <1>4, <2>1, KeptStays
<1>6. AllLanded'
  <2>1. phase[t] = "committing" => \A w \in asked[x] : w \in landed[x] \/ Excused(x, w)
    BY <1>3 DEF Kept, Held
  <2>3. \A y \in Txn : \A w : Excused(y, w) => Excused(y, w)'
    BY <1>4, ExcusedStays
  <2>2. \A y \in Txn : outcome'[y] = "committed" =>
            outcome[y] = "committed" \/ (y = x /\ phase[t] = "committing")
    BY DEF ServiceInv, TypeOK, ResetWrapper
  <2> QED
    BY <1>4, <2>1, <2>2, <2>3 DEF AllLanded
<1> QED
  BY <1>1, <1>2, <1>5, <1>6

LEMMA WholeCrash ==
    ASSUME WholeInv, Crash
    PROVE  WholeInv'
<1> USE DEF WholeInv
<1>1. ServiceInv'
  BY ServiceCrash
<1>2. Once' /\ LandedInOrder'
  BY TornStays DEF Crash
<1>3. Kept'
  <2>1. \A t \in Thread : /\ pending'[t] = {} /\ wanted'[t] = {}
                          /\ phase'[t] = "idle" /\ wrapper'[t] = NoTxn
    BY DEF Crash
  <2> QED
    BY <2>1, KeptStays DEF Crash
<1>4. AllLanded'
  BY AllStays DEF Crash
<1> QED
  BY <1>1, <1>2, <1>3, <1>4

LEMMA WholeStep == WholeInv /\ [Next]_vars => WholeInv'
<1> SUFFICES ASSUME WholeInv, [Next]_vars PROVE WholeInv'
  OBVIOUS
<1>1. ASSUME NEW t \in Thread, NEW x \in Txn, CreateTransaction(t, x) PROVE WholeInv'
  BY <1>1, WholeCreate
<1>2. ASSUME NEW t \in Thread, NEW r \in Resource, GetResource(t, r) PROVE WholeInv'
  BY <1>2, WholeGetResource
<1>3. ASSUME NEW t \in Thread, NEW w \in Write, Put(t, w) PROVE WholeInv'
  BY <1>3, WholePut
<1>4. ASSUME NEW t \in Thread, NEW w \in Write, PutReturns(t, w) PROVE WholeInv'
  BY <1>4, WholePutReturns
<1>5. ASSUME NEW t \in Thread, Finish(t) PROVE WholeInv'
  BY <1>5, WholeFinish
<1>6. ASSUME NEW t \in Thread, Ending(t) PROVE WholeInv'
  BY <1>6, WholeCommitDatabase, WholeRollbackDatabase, WholeResetResource, WholeResetWrapper
     DEF Ending
<1>7. CASE Crash
  BY <1>7, WholeCrash
<1>8. CASE UNCHANGED vars
  <2>1. ServiceInv'
    BY <1>8, ServiceStep DEF WholeInv
  <2>2. Once' /\ LandedInOrder'
    BY <1>8, TornStays DEF vars, WholeInv
  <2>3. Kept' /\ AllLanded'
    BY <1>8, KeptStays, AllStays DEF vars, WholeInv
  <2> QED
    BY <2>1, <2>2, <2>3 DEF WholeInv
<1> QED
  BY <1>1, <1>2, <1>3, <1>4, <1>5, <1>6, <1>7, <1>8 DEF Next

\* A transaction is committed whole, in every database it used, and what a
\* crash leaves of one is a beginning in the order of enlistment, but for the
\* writes that were refused unread, whoever waits for whom and whichever commits
\* fail (TransactionWrapper::commit, Resource::commit).
THEOREM AtomicCorrect == Spec => []Atomic
<1>1. WholeInv => Atomic
  BY DEF WholeInv, Kept, AllLanded, LandedInOrder, Excused, Atomic, CommittedIsWhole, TornInOrder
<1> QED
  BY <1>1, WholeStart, WholeStep, PTL DEF Spec

\* When no two threads write the same rows and no commit fails, nothing is
\* missing from what was committed, and a crash in TransactionWrapper::commit
\* leaves a beginning of it.
THEOREM CalmLosesNothing ==
    Calm => (Spec => []\A x \in Txn :
        /\ outcome[x] = "committed" => landed[x] = asked[x]
        /\ \A w \in landed[x] \cap Transactional, v \in asked[x] \cap Transactional :
               Earlier(x, v, w) => v \in landed[x])
<1> SUFFICES ASSUME Calm
             PROVE  Spec => []\A x \in Txn :
                        /\ outcome[x] = "committed" => landed[x] = asked[x]
                        /\ \A w \in landed[x] \cap Transactional, v \in asked[x] \cap Transactional :
                               Earlier(x, v, w) => v \in landed[x]
  OBVIOUS
<1>1. WholeInv => \A x \in Txn :
                      /\ outcome[x] = "committed" => landed[x] = asked[x]
                      /\ \A w \in landed[x] \cap Transactional, v \in asked[x] \cap Transactional :
                             Earlier(x, v, w) => v \in landed[x]
  <2> SUFFICES ASSUME WholeInv, NEW x \in Txn
               PROVE  /\ outcome[x] = "committed" => landed[x] = asked[x]
                      /\ \A w \in landed[x] \cap Transactional, v \in asked[x] \cap Transactional :
                             Earlier(x, v, w) => v \in landed[x]
    OBVIOUS
  <2>1. \A w : ~Excused(x, w)
    BY DEF Excused
  <2>2. landed[x] \subseteq asked[x]
    BY DEF WholeInv, Kept
  <2>3. outcome[x] = "committed" => asked[x] \subseteq landed[x]
    BY <2>1 DEF WholeInv, AllLanded
  <2>4. \A w \in landed[x] \cap Transactional, v \in asked[x] \cap Transactional :
            Earlier(x, v, w) => v \in landed[x]
    BY <2>1 DEF WholeInv, LandedInOrder
  <2> QED
    BY <2>2, <2>3, <2>4
<1> QED
  BY <1>1, WholeStart, WholeStep, PTL DEF Spec
=============================================================================
