-------------------------- MODULE RegistrationProofs --------------------------
(***************************************************************************)
(* Proofs about Registration for any chains, any number of calls at a time *)
(* and any number of deaths of the process.                                *)
(*                                                                         *)
(* A chain is scanned once since of all calls that name it one alone gets  *)
(* past the creation of the database (OneCall).  A registration is kept    *)
(* since, while nothing overlaps it, every list that was read and not yet  *)
(* written names the chain (KeptInv).                                      *)
(***************************************************************************)
EXTENDS Registration, TLAPS

\* Steps at which a call has not started the goroutine that scans the chain,
\* and steps at which it has not entered the registration as finished.
BeforeScan   == {"readStores", "appendStore", "addChain", "listen"}
BeforeFinish == BeforeScan \cup {"remove", "finish"}

\* Only one call has created the database of a chain, and what it has still
\* to do was done by nobody else.
OneCall ==
  /\ \A j, k \in Call : Busy(j) /\ Busy(k) /\ of[j] = of[k] => j = k
  /\ \A k \in Call : Busy(k) => of[k] \in database
  /\ \A k \in Call : pc[k] \in BeforeFinish => of[k] \notin finished
  /\ \A k \in Call : pc[k] \in BeforeScan => started[of[k]] = 0 /\ scans[of[k]] = 0
  /\ \A c \in Chain \ database : started[c] = 0 /\ scans[c] = 0
  /\ finished \subseteq database
  /\ ~up => started = None /\ scans = None

\* Files and lists name chains that have a database.
Known ==
  /\ file.nodes \subseteq database
  /\ list \subseteq database /\ stores \subseteq database
  /\ \A k \in Call : seen[k] \subseteq database

\* Call k does not come between chain c and the configuration file.
Spares(k, c) ==
  /\ Registering(c) /\ Busy(k) => of[k] = c
  /\ pc[k] = "appendNode" => c \in seen[k] \/ of[k] = c
  /\ pc[k] \in {"openFile", "writeFile"} => c \in list
  /\ pc[k] = "writeFile" => c \in seen[k]

KeptInv ==
  /\ Known
  /\ ConfigurationKept
  /\ \A c \in database \ Hurt :
       /\ up => c \in list \/ Registering(c)
       /\ \A k \in Call : Spares(k, c)

-----------------------------------------------------------------------------
(***************************************************************************)
(* Types.                                                                  *)
(***************************************************************************)
LEMMA InitTypeOK == ASSUME Init PROVE TypeOK
  BY RegistrationAssumption DEF Init, TypeOK, Steps, None

LEMMA CallKeepsTypes ==
  ASSUME TypeOK, NEW k \in Call, CallStep(k)
  PROVE  TypeOK'
  <1> USE DEF TypeOK, Steps, Goes, Reads, Returns, disk, memory, past
  <1>1. CASE DatabaseExists(k)
    BY <1>1 DEF DatabaseExists
  <1>2. CASE CreateSideChainDBByConfig(k)
    BY <1>2 DEF CreateSideChainDBByConfig
  <1>3. CASE ReadStores(k)
    BY <1>3 DEF ReadStores
  <1>4. CASE AppendStore(k)
    BY <1>4 DEF AppendStore
  <1>5. CASE AddChain(k)
    BY <1>5 DEF AddChain
  <1>6. CASE AddListener(k)
    BY <1>6 DEF AddListener
  <1>7. CASE RemoveRegisteredSideChainTx(k)
    BY <1>7 DEF RemoveRegisteredSideChainTx
  <1>8. CASE AddSucceedRegisterTx(k)
    BY <1>8 DEF AddSucceedRegisterTx
  <1>9. CASE ReadList(k)
    BY <1>9 DEF ReadList
  <1>10. CASE AppendNode(k)
    BY <1>10 DEF AppendNode
  <1>11. CASE OpenFile(k)
    BY <1>11 DEF OpenFile
  <1>12. CASE WriteFile(k)
    <2>1. PICK torn \in BOOLEAN :
            file' = [nodes |-> seen[k] \cup (IF torn THEN file.nodes ELSE {}), torn |-> torn]
      BY <1>12 DEF WriteFile
    <2>2. seen[k] \cup (IF torn THEN file.nodes ELSE {}) \subseteq Chain
      OBVIOUS
    <2>3. file' \in [nodes : SUBSET Chain, torn : BOOLEAN]
      BY <2>1, <2>2
    <2> QED
      BY <1>12, <2>3 DEF WriteFile
  <1> QED
    BY <1>1, <1>2, <1>3, <1>4, <1>5, <1>6, <1>7, <1>8, <1>9, <1>10, <1>11, <1>12
       DEF CallStep

LEMMA StepKeepsTypes == ASSUME TypeOK, [Next]_vars PROVE TypeOK'
  <1> USE DEF TypeOK, Steps, disk, memory, calls, past
  <1>1. ASSUME NEW k \in Call, CallStep(k) PROVE TypeOK'
    BY <1>1, CallKeepsTypes
  <1>2. ASSUME NEW k \in Call, NEW c \in Chain, Receive(k, c) PROVE TypeOK'
    BY <1>2 DEF Receive
  <1>3. ASSUME NEW c \in Chain, Register(c) \/ FindStore(c) PROVE TypeOK'
    BY <1>3 DEF Register, FindStore
  <1>4. CASE SyncChainData
    BY <1>4 DEF SyncChainData, AddRegisteredSideChainTxs, GetRegisterTransactionByHeight
  <1>5. CASE Crash
    <2>1. started' \in [Chain -> Nat] /\ scans' \in [Chain -> Nat]
      BY <1>5 DEF Crash, None
    <2>2. /\ pc' \in [Call -> Steps] /\ \A k \in Call : pc'[k] = "idle"
          /\ of' \in [Call -> Chain \cup {NoChain}]
          /\ seen' \in [Call -> SUBSET Chain]
      BY <1>5 DEF Crash
    <2>3. crashes' \in Nat /\ cut' \subseteq Chain
      BY <1>5 DEF Crash
    <2> QED
      BY <1>5, <2>1, <2>2, <2>3 DEF Crash
  <1>6. CASE Restart
    BY <1>6 DEF Restart, Initialize, MakeChains, OpenDataStore, InitSideChainDB,
                SetSideChainAccountMonitor
  <1>7. CASE UNCHANGED vars
    BY <1>7 DEF vars
  <1> QED
    BY <1>1, <1>2, <1>3, <1>4, <1>5, <1>6, <1>7 DEF Next

\* A crash at any place leaves tables, lists and files of known chains, and no
\* call that runs without a chain or while the process is down
\* (OnReceivedRegisteredSideChain, main).
THEOREM TypesHold == Spec => []TypeOK
  <1>1. Init => TypeOK
    BY InitTypeOK
  <1>2. TypeOK /\ [Next]_vars => TypeOK'
    BY StepKeepsTypes
  <1> QED
    BY <1>1, <1>2, PTL DEF Spec

-----------------------------------------------------------------------------
(***************************************************************************)
(* One goroutine per chain.                                                *)
(***************************************************************************)
OnceInv == OneCall /\ ScannedOnce

LEMMA InitOnce == ASSUME Init PROVE OnceInv
  BY RegistrationAssumption
     DEF Init, OnceInv, OneCall, ScannedOnce, Busy, BeforeScan, BeforeFinish, None

LEMMA CallKeepsOnce ==
  ASSUME TypeOK, OnceInv, NEW k \in Call, CallStep(k)
  PROVE  OnceInv'
  <1> USE DEF OnceInv, OneCall, ScannedOnce, TypeOK, Steps, Busy, BeforeScan, BeforeFinish,
              Goes, Reads, Returns, disk, memory, past
  <1>1. CASE DatabaseExists(k)
    BY <1>1 DEF DatabaseExists
  <1>2. CASE CreateSideChainDBByConfig(k)
    BY <1>2 DEF CreateSideChainDBByConfig
  <1>3. CASE ReadStores(k)
    BY <1>3 DEF ReadStores
  <1>4. CASE AppendStore(k)
    BY <1>4 DEF AppendStore
  <1>5. CASE AddChain(k)
    BY <1>5 DEF AddChain
  <1>6. CASE AddListener(k)
    BY <1>6 DEF AddListener
  <1>7. CASE RemoveRegisteredSideChainTx(k)
    BY <1>7 DEF RemoveRegisteredSideChainTx
  <1>8. CASE AddSucceedRegisterTx(k)
    BY <1>8 DEF AddSucceedRegisterTx
  <1>9. CASE ReadList(k)
    BY <1>9 DEF ReadList
  <1>10. CASE AppendNode(k)
    BY <1>10 DEF AppendNode
  <1>11. CASE OpenFile(k)
    BY <1>11 DEF OpenFile
  <1>12. CASE WriteFile(k)
    BY <1>12 DEF WriteFile
  <1> QED
    BY <1>1, <1>2, <1>3, <1>4, <1>5, <1>6, <1>7, <1>8, <1>9, <1>10, <1>11, <1>12
       DEF CallStep

LEMMA StepKeepsOnce == ASSUME TypeOK, OnceInv, [Next]_vars PROVE OnceInv'
  <1> USE DEF OnceInv, OneCall, ScannedOnce, TypeOK, Busy, BeforeScan, BeforeFinish,
              disk, memory, calls, past
  <1>1. ASSUME NEW k \in Call, CallStep(k) PROVE OnceInv'
    BY <1>1, CallKeepsOnce
  <1>2. ASSUME NEW k \in Call, NEW c \in Chain, Receive(k, c) PROVE OnceInv'
    BY <1>2 DEF Receive
  <1>3. ASSUME NEW c \in Chain, Register(c) PROVE OnceInv'
    BY <1>3 DEF Register
  <1>4. ASSUME NEW c \in Chain, FindStore(c) PROVE OnceInv'
    BY <1>4 DEF FindStore, None
  <1>5. CASE SyncChainData
    BY <1>5 DEF SyncChainData
  <1>6. CASE Crash
    BY <1>6 DEF Crash, None
  <1>7. CASE Restart
    BY <1>7 DEF Restart, Initialize, MakeChains, OpenDataStore, InitSideChainDB,
                SetSideChainAccountMonitor, None
  <1>8. CASE UNCHANGED vars
    BY <1>8 DEF vars
  <1> QED
    BY <1>1, <1>2, <1>3, <1>4, <1>5, <1>6, <1>7, <1>8 DEF Next

\* However often, and by however many at once, a chain is named, one goroutine
\* scans it: the insert of its height lets one call pass in the life of its
\* database (CreateSideChainDBByConfig).
THEOREM ChainScannedOnce == Spec => []ScannedOnce
  <1>1. Init => TypeOK /\ OnceInv
    BY InitTypeOK, InitOnce
  <1>2. TypeOK /\ OnceInv /\ [Next]_vars => (TypeOK /\ OnceInv)'
    BY StepKeepsTypes, StepKeepsOnce
  <1>3. TypeOK /\ OnceInv => ScannedOnce
    BY DEF OnceInv
  <1> QED
    BY <1>1, <1>2, <1>3, PTL DEF Spec

-----------------------------------------------------------------------------
(***************************************************************************)
(* The configuration file.                                                 *)
(***************************************************************************)
LEMMA InitKept == ASSUME Init PROVE KeptInv
  BY RegistrationAssumption
     DEF Init, KeptInv, Known, ConfigurationKept, Spares, Busy, Registering, Hurt

LEMMA CallKeepsKept ==
  ASSUME TypeOK, OneCall, KeptInv, NEW k \in Call, CallStep(k)
  PROVE  KeptInv'
  <1> USE DEF KeptInv, Known, ConfigurationKept, Spares, OneCall, TypeOK, Steps, Busy,
              Registering, Hurt, BeforeScan, BeforeFinish, Goes, Reads, Returns,
              disk, memory, past
  <1>1. CASE DatabaseExists(k)
    BY <1>1 DEF DatabaseExists
  <1>2. CASE CreateSideChainDBByConfig(k)
    BY <1>2 DEF CreateSideChainDBByConfig
  <1>3. CASE ReadStores(k)
    BY <1>3 DEF ReadStores
  <1>4. CASE AppendStore(k)
    BY <1>4 DEF AppendStore
  <1>5. CASE AddChain(k)
    BY <1>5 DEF AddChain
  <1>6. CASE AddListener(k)
    BY <1>6 DEF AddListener
  <1>7. CASE RemoveRegisteredSideChainTx(k)
    BY <1>7 DEF RemoveRegisteredSideChainTx
  <1>8. CASE AddSucceedRegisterTx(k)
    BY <1>8 DEF AddSucceedRegisterTx
  <1>9. CASE ReadList(k)
    BY <1>9 DEF ReadList
  <1>10. CASE AppendNode(k)
    BY <1>10 DEF AppendNode
  <1>11. CASE OpenFile(k)
    BY <1>11 DEF OpenFile
  <1>12. CASE WriteFile(k)
    <2>1. PICK torn \in {FALSE, ~(file.nodes \subseteq seen[k])} :
            file' = [nodes |-> seen[k] \cup (IF torn THEN file.nodes ELSE {}), torn |-> torn]
      BY <1>12 DEF WriteFile
    <2>2. /\ file'.nodes = seen[k] \cup (IF torn THEN file.nodes ELSE {})
          /\ file'.torn = torn
      BY <2>1
    <2>3. Known'
      BY <1>12, <2>2 DEF WriteFile
    <2>4. ASSUME NEW c \in database \ Hurt
          PROVE  /\ c \in file'.nodes
                 /\ c \in list'
                 /\ \A j \in Call : Spares(j, c)'
      BY <1>12, <2>2, <2>4 DEF WriteFile
    <2>5. file'.torn => Hurt' # {}
      <3> SUFFICES ASSUME torn, Hurt = {} PROVE FALSE
        BY <1>12, <2>2 DEF WriteFile
      <3>1. PICK c \in file.nodes : c \notin seen[k]
        BY <2>1
      <3>2. c \in database \ Hurt
        OBVIOUS
      <3> QED
        BY <1>12, <3>1, <3>2 DEF WriteFile
    <2> QED
      BY <1>12, <2>3, <2>4, <2>5 DEF WriteFile
  <1> QED
    BY <1>1, <1>2, <1>3, <1>4, <1>5, <1>6, <1>7, <1>8, <1>9, <1>10, <1>11, <1>12
       DEF CallStep

LEMMA StepKeepsKept == ASSUME TypeOK, OneCall, KeptInv, [Next]_vars PROVE KeptInv'
  <1> USE DEF KeptInv, Known, ConfigurationKept, Spares, TypeOK, Busy, Registering, Hurt,
              disk, memory, calls, past
  <1>1. ASSUME NEW k \in Call, CallStep(k) PROVE KeptInv'
    BY <1>1, CallKeepsKept
  <1>2. ASSUME NEW k \in Call, NEW c \in Chain, Receive(k, c) PROVE KeptInv'
    BY <1>2 DEF Receive
  <1>3. ASSUME NEW c \in Chain, Register(c) \/ FindStore(c) PROVE KeptInv'
    BY <1>3 DEF Register, FindStore
  <1>4. CASE SyncChainData
    BY <1>4 DEF SyncChainData
  <1>5. CASE Crash
    BY <1>5 DEF Crash
  <1>6. CASE Restart
    BY <1>6 DEF Restart, Initialize, MakeChains, OpenDataStore, InitSideChainDB,
                SetSideChainAccountMonitor
  <1>7. CASE UNCHANGED vars
    BY <1>7 DEF vars
  <1> QED
    BY <1>1, <1>2, <1>3, <1>4, <1>5, <1>6, <1>7 DEF Next

\* A registration that nothing overlaps and no death cuts short outlives every
\* later registration and every restart, and only those that are hurt can
\* leave a file the arbiter does not start with
\* (OnReceivedRegisteredSideChain, Initialize).
THEOREM RegistrationsKept == Spec => []ConfigurationKept
  <1>1. Init => TypeOK /\ OnceInv /\ KeptInv
    BY InitTypeOK, InitOnce, InitKept
  <1>2. TypeOK /\ OnceInv /\ KeptInv /\ [Next]_vars => (TypeOK /\ OnceInv /\ KeptInv)'
    BY StepKeepsTypes, StepKeepsOnce, StepKeepsKept DEF OnceInv
  <1>3. TypeOK /\ OnceInv /\ KeptInv => ConfigurationKept
    BY DEF KeptInv
  <1> QED
    BY <1>1, <1>2, <1>3, PTL DEF Spec
=============================================================================
