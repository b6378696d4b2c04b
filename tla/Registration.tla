----------------------------- MODULE Registration -----------------------------
(***************************************************************************)
(* Side chains registered while the arbiter runs.                          *)
(*                                                                         *)
(* Every new main chain block, SyncChainData puts the registrations of the *)
(* main chain into the table RegisteredSideChains.  An operator then gives *)
(* the address of a node of the chain to the JSON-RPC server, one of whose *)
(* goroutines carries the chain through eight places, no two of which      *)
(* change together: its database, the list of stores, the map of chains,   *)
(* the goroutine that scans it, two tables, the list of side nodes and the *)
(* configuration file.  The lists are slices that no lock guards, so that  *)
(* an append is a read and a write, and of two that overlap one is lost.   *)
(* A start of the arbiter knows only the file.                             *)
(*                                                                         *)
(* A chain has one registration on the main chain, and a name and a        *)
(* genesis hash of its own: that is the main chain's rule, external here.  *)
(* Statements to SQLite are assumed to succeed, a second insert of a key   *)
(* excepted.  The runtime may kill the process when a map is written and   *)
(* read at once (AddChain): that is Crash.                                 *)
(***************************************************************************)
EXTENDS Naturals, FiniteSets

CONSTANTS
  Chain,       \* side chains
  Configured,  \* those that the configuration file names from the beginning
  NoChain,     \* the side chain of a goroutine that has none
  Call,        \* goroutines OnReceivedRegisteredSideChain; bounds how many run at a time
  MaxCrashes   \* bound: how often the process is killed

ASSUME RegistrationAssumption ==
  /\ Configured \subseteq Chain
  /\ NoChain \notin Chain
  /\ MaxCrashes \in Nat

VARIABLES
  listed,    \* what the main node answers to getallregistertransactions
  pending,   \* RegisteredSideChains
  finished,  \* RegisterTransactions
  database,  \* chains whose database has its row in SideHeightInfo
  file,      \* the SideNodeList of the configuration file, and whether it cannot be read
  up,        \* the process runs
  list,      \* config.Parameters.SideNodeList
  stores,    \* DbCache.SideChainStore
  chains,    \* SideChainManagerImpl.SideChains
  started,   \* goroutines SyncChainData of a chain that have not looked for its store
  scans,     \* those that have found it
  pc, of,    \* what a call does next, and for which chain
  seen,      \* the list a call has read and not yet written
  raced,     \* history: chains whose calls overlapped
  cut,       \* history: chains whose call the death of the process cut short
  crashes    \* how often the process was killed

disk   == <<pending, finished, database, file>>
memory == <<list, stores, chains, started, scans>>
calls  == <<pc, of, seen>>
past   == <<raced, cut, crashes>>
vars   == <<listed, disk, up, memory, calls, past>>

Steps == {"idle", "create", "readStores", "appendStore", "addChain", "listen", "remove",
          "finish", "readList", "appendNode", "openFile", "writeFile"}

None == [c \in Chain |-> 0]

\* Call k has created the database of its chain.
Busy(k) == pc[k] \notin {"idle", "create"}

Registering(c) == \E k \in Call : Busy(k) /\ of[k] = c

Init ==
  /\ listed = {} /\ pending = {} /\ finished = {}
  /\ database = Configured
  /\ file = [nodes |-> Configured, torn |-> FALSE]
  /\ up = TRUE
  /\ list = Configured /\ stores = Configured /\ chains = Configured
  /\ started = [c \in Chain |-> IF c \in Configured THEN 1 ELSE 0]
  /\ scans = None
  /\ pc = [k \in Call |-> "idle"]
  /\ of = [k \in Call |-> NoChain]
  /\ seen = [k \in Call |-> {}]
  /\ raced = {} /\ cut = {} /\ crashes = 0

-----------------------------------------------------------------------------
(***************************************************************************)
(* The main chain.  As soon as one registration is not in the table all    *)
(* are added again, those that are finished included; a key that is there  *)
(* already is passed over.                                                 *)
(***************************************************************************)
Register(c) ==
  /\ c \notin listed
  /\ listed' = listed \cup {c}
  /\ UNCHANGED <<disk, up, memory, calls, past>>

GetRegisterTransactionByHeight == listed

HasRegisteredSideChainTx(c) == c \in pending

AddRegisteredSideChainTxs(txs) == pending' = pending \cup txs

SyncChainData ==
  /\ up
  /\ \E c \in GetRegisterTransactionByHeight : ~HasRegisteredSideChainTx(c)
  /\ AddRegisteredSideChainTxs(GetRegisterTransactionByHeight)
  /\ UNCHANGED <<listed, finished, database, file, up, memory, calls, past>>

-----------------------------------------------------------------------------
(***************************************************************************)
(* OnReceivedRegisteredSideChain, in the order of its statements.          *)
(***************************************************************************)
Goes(k, step) == pc' = [pc EXCEPT ![k] = step] /\ of' = of

\* Call k reads a list, or forgets what it has read.
Reads(k, nodes) == seen' = [seen EXCEPT ![k] = nodes]

Returns(k) ==
  /\ pc' = [pc EXCEPT ![k] = "idle"]
  /\ of' = [of EXCEPT ![k] = NoChain]
  /\ Reads(k, {})

GetAllRegisteredSideChainTxs == pending

\* An operator names a chain that is in the table.
Receive(k, c) ==
  /\ up
  /\ pc[k] = "idle"
  /\ c \in GetAllRegisteredSideChainTxs
  /\ pc' = [pc EXCEPT ![k] = "create"]
  /\ of' = [of EXCEPT ![k] = c]
  /\ UNCHANGED <<listed, disk, up, memory, seen, past>>

\* Mutant of CreateSideChainDBByConfig: the row of the height may be there already.
OpenSideChainDB(k) ==
  /\ pc[k] = "create"
  /\ database' = database \cup {of[k]}
  /\ raced' = raced \cup {c \in Chain : (\E j \in Call : Busy(j)) /\ (c = of[k] \/ Registering(c))}
  /\ Goes(k, "readStores")
  /\ UNCHANGED <<listed, pending, finished, file, up, memory, seen, cut, crashes>>

\* The row of the height is a second insert when the database is not new.
DatabaseExists(k) ==
  /\ pc[k] = "create"
  /\ of[k] \in database
  /\ Returns(k)
  /\ UNCHANGED <<listed, disk, up, memory, past>>

CreateSideChainDBByConfig(k) ==
  /\ pc[k] = "create"
  /\ of[k] \notin database
  /\ database' = database \cup {of[k]}
  /\ raced' = raced \cup {c \in Chain : (\E j \in Call : Busy(j)) /\ (c = of[k] \/ Registering(c))}
  /\ Goes(k, "readStores")
  /\ UNCHANGED <<listed, pending, finished, file, up, memory, seen, cut, crashes>>

ReadStores(k) ==
  /\ pc[k] = "readStores"
  /\ Reads(k, stores)
  /\ Goes(k, "appendStore")
  /\ UNCHANGED <<listed, disk, up, memory, past>>

\* Mutant of AppendStore: the store goes to a copy of DbCache.
AppendToCopy(k) ==
  /\ pc[k] = "appendStore"
  /\ Goes(k, "addChain") /\ Reads(k, {})
  /\ UNCHANGED <<listed, disk, up, memory, past>>

AppendStore(k) ==
  /\ pc[k] = "appendStore"
  /\ stores' = seen[k] \cup {of[k]}
  /\ Goes(k, "addChain") /\ Reads(k, {})
  /\ UNCHANGED <<listed, disk, up, list, chains, started, scans, past>>

AddChain(k) ==
  /\ pc[k] = "addChain"
  /\ chains' = chains \cup {of[k]}
  /\ Goes(k, "listen")
  /\ UNCHANGED <<listed, disk, up, list, stores, started, scans, seen, past>>

\* AddListener, and the goroutine that scans the chain.
AddListener(k) ==
  /\ pc[k] = "listen"
  /\ started' = [started EXCEPT ![of[k]] = @ + 1]
  /\ Goes(k, "remove")
  /\ UNCHANGED <<listed, disk, up, list, stores, chains, scans, seen, past>>

RemoveRegisteredSideChainTx(k) ==
  /\ pc[k] = "remove"
  /\ pending' = pending \ {of[k]}
  /\ Goes(k, "finish")
  /\ UNCHANGED <<listed, finished, database, file, up, memory, seen, past>>

\* Mutant of AddSucceedRegisterTx: the test of the error is the wrong way round.
ReturnOnSuccess(k) ==
  /\ pc[k] = "finish"
  /\ finished' = finished \cup {of[k]}
  /\ IF of[k] \notin finished
        THEN Returns(k)
        ELSE Goes(k, "readList") /\ seen' = seen
  /\ UNCHANGED <<listed, pending, database, file, up, memory, past>>

\* The key is new: an earlier row would be of a call that created the database.
AddSucceedRegisterTx(k) ==
  /\ pc[k] = "finish"
  /\ finished' = finished \cup {of[k]}
  /\ IF of[k] \in finished
        THEN Returns(k)
        ELSE Goes(k, "readList") /\ seen' = seen
  /\ UNCHANGED <<listed, pending, database, file, up, memory, past>>

ReadList(k) ==
  /\ pc[k] = "readList"
  /\ Reads(k, list)
  /\ Goes(k, "appendNode")
  /\ UNCHANGED <<listed, disk, up, memory, past>>

AppendNode(k) ==
  /\ pc[k] = "appendNode"
  /\ list' = seen[k] \cup {of[k]}
  /\ Goes(k, "openFile") /\ Reads(k, {})
  /\ UNCHANGED <<listed, disk, up, stores, chains, started, scans, past>>

\* The parameters are turned into text, and the file is emptied.
OpenFile(k) ==
  /\ pc[k] = "openFile"
  /\ Reads(k, list)
  /\ file' = [nodes |-> {}, torn |-> TRUE]
  /\ Goes(k, "writeFile")
  /\ UNCHANGED <<listed, pending, finished, database, up, memory, past>>

\* What another call has written meanwhile may stick out at the end.
WriteFile(k) ==
  /\ pc[k] = "writeFile"
  /\ \E torn \in {FALSE, ~(file.nodes \subseteq seen[k])} :
       file' = [nodes |-> seen[k] \cup (IF torn THEN file.nodes ELSE {}), torn |-> torn]
  /\ Returns(k)
  /\ UNCHANGED <<listed, pending, finished, database, up, memory, past>>

CallStep(k) ==
  \/ DatabaseExists(k) \/ CreateSideChainDBByConfig(k)
  \/ ReadStores(k) \/ AppendStore(k) \/ AddChain(k) \/ AddListener(k)
  \/ RemoveRegisteredSideChainTx(k) \/ AddSucceedRegisterTx(k)
  \/ ReadList(k) \/ AppendNode(k) \/ OpenFile(k) \/ WriteFile(k)

-----------------------------------------------------------------------------
(***************************************************************************)
(* The scan of a chain begins with a search for its store, once; a chain   *)
(* without one is not scanned.                                             *)
(***************************************************************************)
FindStore(c) ==
  /\ started[c] > 0
  /\ started' = [started EXCEPT ![c] = @ - 1]
  /\ scans' = IF c \in stores THEN [scans EXCEPT ![c] = @ + 1] ELSE scans
  /\ UNCHANGED <<listed, disk, up, list, stores, chains, calls, past>>

-----------------------------------------------------------------------------
(***************************************************************************)
(* The process dies, and is started again when its configuration can be    *)
(* read: databases, chains and goroutines for what the file names.  The    *)
(* JSON-RPC server is the last to start.                                   *)
(***************************************************************************)
Crash ==
  /\ up
  /\ crashes < MaxCrashes /\ crashes' = crashes + 1
  /\ up' = FALSE
  /\ list' = {} /\ stores' = {} /\ chains' = {}
  /\ started' = None /\ scans' = None
  /\ cut' = cut \cup {c \in Chain : Registering(c)}
  /\ pc' = [k \in Call |-> "idle"]
  /\ of' = [k \in Call |-> NoChain]
  /\ seen' = [k \in Call |-> {}]
  /\ UNCHANGED <<listed, disk, raced>>

\* Initialize: a text that is no configuration ends the process.
Initialize == ~file.torn /\ list' = file.nodes

\* Init: the map of chains.
MakeChains == chains' = file.nodes

\* A row of the height that is there already is no error here.
InitSideChainDB == database' = database \cup file.nodes

OpenDataStore == InitSideChainDB /\ stores' = file.nodes

SetSideChainAccountMonitor ==
  started' = [c \in Chain |-> IF c \in file.nodes THEN 1 ELSE 0]

Restart ==
  /\ ~up
  /\ up' = TRUE
  /\ Initialize
  /\ MakeChains
  /\ OpenDataStore
  /\ SetSideChainAccountMonitor
  /\ UNCHANGED <<listed, pending, finished, file, scans, calls, past>>

Next ==
  \/ SyncChainData \/ Crash \/ Restart
  \/ \E c \in Chain : Register(c) \/ FindStore(c)
  \/ \E k \in Call : CallStep(k) \/ \E c \in Chain : Receive(k, c)

Spec == Init /\ [][Next]_vars

\* Goroutines run, and somebody starts the arbiter again; operators and the
\* main chain owe nothing.
RegistrationFairness ==
  /\ \A k \in Call : WF_vars(CallStep(k))
  /\ \A c \in Chain : WF_vars(FindStore(c))
  /\ WF_vars(Restart)

FairSpec == Spec /\ RegistrationFairness

-----------------------------------------------------------------------------
(***************************************************************************)
(* Properties.                                                             *)
(***************************************************************************)
Served(c) == c \in chains /\ c \in stores /\ scans[c] > 0

\* Why a registration may be lost: its call overlapped with another one, or
\* was cut short.
Hurt == raced \cup cut

\* The disk holds tables and files of the chains there are, and only calls
\* that run have a chain that is being registered.
TypeOK ==
  /\ listed \subseteq Chain /\ pending \subseteq Chain /\ finished \subseteq Chain
  /\ database \subseteq Chain
  /\ file \in [nodes : SUBSET Chain, torn : BOOLEAN]
  /\ up \in BOOLEAN
  /\ list \subseteq Chain /\ stores \subseteq Chain /\ chains \subseteq Chain
  /\ started \in [Chain -> Nat] /\ scans \in [Chain -> Nat]
  /\ pc \in [Call -> Steps]
  /\ of \in [Call -> Chain \cup {NoChain}]
  /\ seen \in [Call -> SUBSET Chain]
  /\ raced \subseteq Chain /\ cut \subseteq Chain
  /\ crashes \in Nat
  /\ \A k \in Call : pc[k] # "idle" => up /\ of[k] \in Chain

\* A chain is scanned by one goroutine at most, however often operators name
\* it, at once or one after the other, and although its registration comes
\* back into the table with every new one of the main chain: the row of the
\* height that a new database gets is what keeps the second call out, not the
\* tables of registrations (CreateSideChainDBByConfig).
ScannedOnce == \A c \in Chain : started[c] + scans[c] <= 1

\* A registration that no other call overlapped and no crash cut short is in
\* the configuration file for good, so that it outlives restarts: a chain
\* with a database and no entry can never be registered again.  The file is
\* unreadable only while it is written, or after a registration was hurt.
ConfigurationKept ==
  /\ file.torn => Hurt # {} \/ \E k \in Call : pc[k] = "writeFile"
  /\ \A c \in database \ Hurt : c \in file.nodes \/ file.torn \/ Registering(c)

\* A chain whose database exists is in the end scanned, with its store and
\* its place in the map of chains, unless its registration was hurt, or a
\* crash left a configuration file the arbiter does not start with.
CreatedIsServed ==
  \A c \in Chain : c \in database ~> Served(c) \/ c \in Hurt \/ (~up /\ file.torn)
=============================================================================
