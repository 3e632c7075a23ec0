---------------------------- MODULE TypeRegistry ----------------------------
(***************************************************************************)
(* The type registry and object storage as the slang host functions       *)
(* `defstruct` and `create` use them (main/slang_env.cc).                  *)
(*                                                                         *)
(*  - TypeManager (types/type_vault.cc) owns the master list of schemas    *)
(*    under a reader-writer lock.  Each worker has a TypeVault: a cache     *)
(*    name -> schema (schemas_map_), a cursor into the list (current_) and *)
(*    a flag (updated_) that is clear when the cache may be stale.         *)
(*  - FindSchema test-and-sets the flag and, if it was clear, ingests the  *)
(*    list from the cursor under the shared lock; insert never overwrites. *)
(*  - CreateSchema takes the exclusive lock, sets its own flag, checks for *)
(*    a duplicate in its cache, runs the field handler, appends the new   *)
(*    schema and clears every vault's flag.                                 *)
(*  - Storage keeps one ObjectVault per type name under its lock_;         *)
(*    ObjectVault::CreateObject numbers objects from a function-static     *)
(*    counter under the vault's own mutex.                                 *)
(*                                                                         *)
(* The actors are connections: endpoint tasks that took the SharedDeps of  *)
(* the worker they started on (Home) and make host calls one at a time;   *)
(* a host call does not suspend, so it runs on one thread, and at most    *)
(* NumWorkers calls run at once.                                           *)
(***************************************************************************)
EXTENDS Naturals, Sequences, FiniteSets, SequencesExt

CONSTANTS
    NumWorkers,   \* worker threads, one TypeVault each
    Conns,        \* connections (endpoint tasks)
    Home,         \* the worker whose user data each connection captured
    Names,        \* type names a client may define
    BasicNames,   \* the basic types main.cc registers at start-up
    NoField,      \* a defstruct without fields
    MaxCalls      \* host calls per connection

Workers == 0 .. NumWorkers - 1
AllNames == Names \cup BasicNames

ASSUME /\ NumWorkers \in Nat \ {0} /\ Home \in [Conns -> Workers]
       /\ Names \cap BasicNames = {} /\ NoField \notin AllNames
       /\ MaxCalls \in Nat

None == "none"

VARIABLES
    types,      \* TypeManager::types_list_: schemas in order, by position
    writer,     \* the connection holding rw_lock_ exclusively, or None
    updated,    \* TypeVault::updated_ of each worker's vault
    cache,      \* TypeVault::schemas_map_: name -> list position (0: absent)
    cur,        \* TypeVault::current_ as a list position (0: nullptr)
    cleared,    \* vaults InvalidateCaches has cleared so far
    storeLock,  \* holder of Storage::lock_, or None
    objVault,   \* Storage::objects_: name -> schema of its ObjectVault (0: none)
    vaultLock,  \* ObjectVault::m_lock of the vault of each name
    guid,       \* the static counter x of ObjectVault::CreateObject
    objects,    \* objects created, in order: type name and guid_
    cpc,        \* where each connection's host call is
    op, arg, field,  \* the call, its type name and its field's type
    tmp,        \* the value of x a creation read
    calls,      \* host calls each connection has made
    published,  \* names whose defstruct has returned a new schema
    seen        \* `published` when each connection's FindSchema began

regVars == <<types, writer, updated, cache, cur, cleared>>
storeVars == <<storeLock, objVault, vaultLock, guid, objects>>
connVars == <<cpc, op, arg, field, tmp, calls, published, seen>>
vars == <<regVars, storeVars, connVars>>

(* Vaults are created in Run's construction order: workers 1..N-1, then 0; *)
(* InvalidateCaches walks vaults_ in that order.                           *)
VaultOrder == [i \in 1 .. NumWorkers |-> IF i < NumWorkers THEN i ELSE 0]

BasicSeq == SetToSeq(BasicNames)

PC == {"idle", "find", "refresh", "lookup", "create_schema", "invalidate",
       "ensure", "insert", "get", "vault_lock", "vault_write"}

(* TypeManager's constructor enqueues the basic types, unowned, before any *)
(* vault exists; a new vault's flag is clear (ATOMIC_FLAG_INIT).           *)
Init ==
    /\ types = [i \in 1 .. Len(BasicSeq) |-> [name |-> BasicSeq[i], basic |-> TRUE]]
    /\ writer = None
    /\ updated = [w \in Workers |-> FALSE]
    /\ cache = [w \in Workers |-> [n \in AllNames |-> 0]]
    /\ cur = [w \in Workers |-> 0]
    /\ cleared = 0
    /\ storeLock = None
    /\ objVault = [n \in AllNames |-> 0]
    /\ vaultLock = [n \in AllNames |-> None]
    /\ guid = 0
    /\ objects = <<>>
    /\ cpc = [c \in Conns |-> "idle"]
    /\ op = [c \in Conns |-> "defstruct"]
    /\ arg = [c \in Conns |-> CHOOSE n \in Names : TRUE]
    /\ field = [c \in Conns |-> NoField]
    /\ tmp = [c \in Conns |-> 0]
    /\ calls = [c \in Conns |-> 0]
    /\ published = {}
    /\ seen = [c \in Conns |-> {}]

-----------------------------------------------------------------------------
Vault(c) == Home[c]

(* A client's next expression: (defstruct name (field type)) or           *)
(* (create name); a worker thread must be free to run it.                  *)
Call(c) ==
    /\ cpc[c] = "idle" /\ calls[c] < MaxCalls
    /\ Cardinality({d \in Conns : cpc[d] # "idle"}) < NumWorkers
    /\ \/ \E n \in Names, f \in AllNames \cup {NoField} :
             /\ op' = [op EXCEPT ![c] = "defstruct"]
             /\ arg' = [arg EXCEPT ![c] = n] /\ field' = [field EXCEPT ![c] = f]
             /\ cpc' = [cpc EXCEPT ![c] = "find"]
       \/ \E n \in AllNames :
             /\ op' = [op EXCEPT ![c] = "create"]
             /\ arg' = [arg EXCEPT ![c] = n] /\ UNCHANGED field
             /\ cpc' = [cpc EXCEPT ![c] = "ensure"]
    /\ calls' = [calls EXCEPT ![c] = @ + 1]
    /\ UNCHANGED <<regVars, storeVars, tmp, published, seen>>

(* FindSchema, first step: updated_.test_and_set; a clear flag means the   *)
(* cache must be refreshed before the lookup.                              *)
FindTas(c) ==
    /\ cpc[c] = "find"
    /\ updated' = [updated EXCEPT ![Vault(c)] = TRUE]
    /\ cpc' = [cpc EXCEPT ![c] = IF updated[Vault(c)] THEN "lookup" ELSE "refresh"]
    /\ seen' = [seen EXCEPT ![c] = published]
    /\ UNCHANGED <<types, writer, cache, cur, cleared, storeVars, op, arg, field,
                   tmp, calls, published>>

(* The first schema named n at or after list position k (0: none).         *)
FirstFrom(k, n) ==
    LET at == {i \in k .. Len(types) : types[i].name = n}
    IN IF at = {} THEN 0 ELSE CHOOSE i \in at : \A j \in at : i <= j

(* Mutant: schemas_map_ is overwritten (insert_or_assign): the last schema *)
(* of a name after the cursor wins.                                         *)
RefreshOverwrite(c) ==
    LET v == Vault(c)
        LastOf(n) == LET at == {i \in cur[v] + 1 .. Len(types) : types[i].name = n}
                   IN IF at = {} THEN 0 ELSE CHOOSE i \in at : \A j \in at : j <= i
    IN
    /\ cpc[c] = "refresh" /\ writer = None
    /\ cache' = [cache EXCEPT ![v] =
                    [n \in AllNames |-> IF LastOf(n) # 0 THEN LastOf(n) ELSE @[n]]]
    /\ cur' = [cur EXCEPT ![v] = Len(types)]
    /\ cpc' = [cpc EXCEPT ![c] = "lookup"]
    /\ UNCHANGED <<types, writer, updated, cleared, storeVars, op, arg, field,
                   tmp, calls, published, seen>>

(* Mutant: current_ is left one past the last node.                        *)
RefreshCursorPastEnd(c) ==
    LET v == Vault(c) IN
    /\ cpc[c] = "refresh" /\ writer = None
    /\ cache' = [cache EXCEPT ![v] =
                    [n \in AllNames |-> IF @[n] # 0 THEN @[n] ELSE FirstFrom(cur[v] + 1, n)]]
    /\ cur' = [cur EXCEPT ![v] = Len(types) + 1]
    /\ cpc' = [cpc EXCEPT ![c] = "lookup"]
    /\ UNCHANGED <<types, writer, updated, cleared, storeVars, op, arg, field,
                   tmp, calls, published, seen>>

(* FindSchema, the refresh under RunShared: schemas_map_.insert of every   *)
(* node after current_ (an existing key is kept), then current_ = Last().  *)
Refresh(c) ==
    LET v == Vault(c) IN
    /\ cpc[c] = "refresh" /\ writer = None
    /\ cache' = [cache EXCEPT ![v] =
                    [n \in AllNames |-> IF @[n] # 0 THEN @[n] ELSE FirstFrom(cur[v] + 1, n)]]
    /\ cur' = [cur EXCEPT ![v] = Len(types)]
    /\ cpc' = [cpc EXCEPT ![c] = "lookup"]
    /\ UNCHANGED <<types, writer, updated, cleared, storeVars, op, arg, field,
                   tmp, calls, published, seen>>

(* defstruct: HasType(type_name) fails the call if the vault knows it.    *)
DefstructLookup(c) ==
    /\ cpc[c] = "lookup" /\ op[c] = "defstruct"
    /\ cpc' = [cpc EXCEPT ![c] = IF cache[Vault(c)][arg[c]] # 0 THEN "idle" ELSE "create_schema"]
    /\ UNCHANGED <<regVars, storeVars, op, arg, field, tmp, calls, published, seen>>

(* Inside RunExclusive the flag is set, so FindSchema answers from the     *)
(* cache as it is: the duplicate check, and the handler's lookup of the    *)
(* field's type ("Unknown type name" fails the handler).                   *)
Rejected(c) ==
    \/ cache[Vault(c)][arg[c]] # 0
    \/ field[c] # NoField /\ cache[Vault(c)][field[c]] = 0

(* Mutant: InvalidateCaches starts at the second vault of vaults_.         *)
CreateSchemaSkipFirstVault(c) ==
    LET v == Vault(c) IN
    /\ cpc[c] = "create_schema" /\ writer = None
    /\ \/ /\ Rejected(c)
          /\ updated' = [updated EXCEPT ![v] = FALSE]
          /\ cpc' = [cpc EXCEPT ![c] = "idle"]
          /\ UNCHANGED <<types, writer, cleared>>
       \/ /\ ~Rejected(c)
          /\ types' = Append(types, [name |-> arg[c], basic |-> FALSE])
          /\ updated' = [updated EXCEPT ![v] = TRUE]
          /\ writer' = c /\ cleared' = 1
          /\ cpc' = [cpc EXCEPT ![c] = "invalidate"]
    /\ UNCHANGED <<cache, cur, storeVars, op, arg, field, tmp, calls, published, seen>>

(* TypeVault::CreateSchema: take rw_lock_ exclusively and set updated_;   *)
(* on a duplicate or a failing handler InvalidateCache and return the      *)
(* invalid schema; otherwise EnqueueSchema appends the new schema and      *)
(* starts InvalidateCaches, still under the lock.                          *)
CreateSchema(c) ==
    LET v == Vault(c) IN
    /\ cpc[c] = "create_schema" /\ writer = None
    /\ \/ /\ Rejected(c)
          /\ updated' = [updated EXCEPT ![v] = FALSE]
          /\ cpc' = [cpc EXCEPT ![c] = "idle"]
          /\ UNCHANGED <<types, writer, cleared>>
       \/ /\ ~Rejected(c)
          /\ types' = Append(types, [name |-> arg[c], basic |-> FALSE])
          /\ updated' = [updated EXCEPT ![v] = TRUE]
          /\ writer' = c /\ cleared' = 0
          /\ cpc' = [cpc EXCEPT ![c] = "invalidate"]
    /\ UNCHANGED <<cache, cur, storeVars, op, arg, field, tmp, calls, published, seen>>

(* InvalidateCaches: one vault's updated_.clear() per step, in vaults_     *)
(* order.                                                                   *)
Invalidate(c) ==
    /\ cpc[c] = "invalidate" /\ cleared < NumWorkers
    /\ updated' = [updated EXCEPT ![VaultOrder[cleared + 1]] = FALSE]
    /\ cleared' = cleared + 1
    /\ UNCHANGED <<types, writer, cache, cur, storeVars, connVars>>

(* The lock guard is released and defstruct returns the new schema.       *)
Publish(c) ==
    /\ cpc[c] = "invalidate" /\ cleared = NumWorkers
    /\ writer' = None
    /\ published' = published \cup {arg[c]}
    /\ cpc' = [cpc EXCEPT ![c] = "idle"]
    /\ UNCHANGED <<types, updated, cache, cur, cleared, storeVars, op, arg, field,
                   tmp, calls, seen>>

(* create, EnsureVaultWithType: under Storage::lock_, an existing         *)
(* ObjectVault for the name is returned; otherwise FindSchema, still      *)
(* holding lock_.                                                           *)
EnsureLock(c) ==
    /\ cpc[c] = "ensure" /\ storeLock = None
    /\ IF objVault[arg[c]] # 0
         THEN cpc' = [cpc EXCEPT ![c] = "get"] /\ UNCHANGED storeLock
         ELSE cpc' = [cpc EXCEPT ![c] = "find"] /\ storeLock' = c
    /\ UNCHANGED <<regVars, objVault, vaultLock, guid, objects, op, arg, field,
                   tmp, calls, published, seen>>

(* Mutant: the nullptr return keeps Storage::lock_ (a manual unlock        *)
(* missing on the early return).                                            *)
CreateLookupKeepsLock(c) ==
    LET s == cache[Vault(c)][arg[c]] IN
    /\ cpc[c] = "lookup" /\ op[c] = "create"
    /\ IF s = 0 \/ types[s].basic
         THEN cpc' = [cpc EXCEPT ![c] = "get"] /\ UNCHANGED storeLock
         ELSE cpc' = [cpc EXCEPT ![c] = "insert"] /\ UNCHANGED storeLock
    /\ UNCHANGED <<regVars, objVault, vaultLock, guid, objects, op, arg, field,
                   tmp, calls, published, seen>>

(* An unknown or basic type gets no ObjectVault (nullptr, lock released); *)
(* a defined one goes on to the insert.                                    *)
CreateLookup(c) ==
    LET s == cache[Vault(c)][arg[c]] IN
    /\ cpc[c] = "lookup" /\ op[c] = "create"
    /\ IF s = 0 \/ types[s].basic
         THEN cpc' = [cpc EXCEPT ![c] = "get"] /\ storeLock' = None
         ELSE cpc' = [cpc EXCEPT ![c] = "insert"] /\ UNCHANGED storeLock
    /\ UNCHANGED <<regVars, objVault, vaultLock, guid, objects, op, arg, field,
                   tmp, calls, published, seen>>

(* objects_.insert({schema->name, new ObjectVault{schema}}), then the     *)
(* guard releases lock_.                                                    *)
EnsureInsert(c) ==
    /\ cpc[c] = "insert"
    /\ objVault' = [objVault EXCEPT ![arg[c]] = cache[Vault(c)][arg[c]]]
    /\ storeLock' = None
    /\ cpc' = [cpc EXCEPT ![c] = "get"]
    /\ UNCHANGED <<regVars, vaultLock, guid, objects, op, arg, field, tmp, calls,
                   published, seen>>

(* Storage::CreateObject(type_name): objects_.find without lock_; no      *)
(* vault fails the call ("No storage for type").                           *)
StorageCreateObject(c) ==
    /\ cpc[c] = "get"
    /\ cpc' = [cpc EXCEPT ![c] = IF objVault[arg[c]] = 0 THEN "idle" ELSE "vault_lock"]
    /\ UNCHANGED <<regVars, storeVars, op, arg, field, tmp, calls, published, seen>>

(* ObjectVault::CreateObject: lock m_lock and read the static x for ++x.  *)
VaultLockRead(c) ==
    /\ cpc[c] = "vault_lock" /\ vaultLock[arg[c]] = None
    /\ vaultLock' = [vaultLock EXCEPT ![arg[c]] = c]
    /\ tmp' = [tmp EXCEPT ![c] = guid]
    /\ cpc' = [cpc EXCEPT ![c] = "vault_write"]
    /\ UNCHANGED <<regVars, storeLock, objVault, guid, objects, op, arg, field,
                   calls, published, seen>>

(* ... write x back, obj->guid_ = x, store_.push_back and the id index,   *)
(* unlock; create then writes the fields and returns.                      *)
VaultWrite(c) ==
    /\ cpc[c] = "vault_write"
    /\ guid' = tmp[c] + 1
    /\ objects' = Append(objects, [type |-> arg[c], guid |-> tmp[c] + 1])
    /\ vaultLock' = [vaultLock EXCEPT ![arg[c]] = None]
    /\ cpc' = [cpc EXCEPT ![c] = "idle"]
    /\ UNCHANGED <<regVars, storeLock, objVault, op, arg, field, tmp, calls,
                   published, seen>>

(* The steps of a host call in progress.                                   *)
Step(c) ==
    \/ FindTas(c) \/ Refresh(c) \/ DefstructLookup(c) \/ CreateSchema(c)
    \/ Invalidate(c) \/ Publish(c)
    \/ EnsureLock(c) \/ CreateLookup(c) \/ EnsureInsert(c)
    \/ StorageCreateObject(c) \/ VaultLockRead(c) \/ VaultWrite(c)

(* Every connection has sent its last expression and had it answered.      *)
Done ==
    /\ \A c \in Conns : cpc[c] = "idle" /\ calls[c] = MaxCalls
    /\ UNCHANGED vars

Next == Done \/ \E c \in Conns : Call(c) \/ Step(c)

(* A call in progress runs on a worker thread the OS keeps scheduling;    *)
(* clients send their next expression when they like.                     *)
Spec == Init /\ [][Next]_vars /\ \A c \in Conns : WF_vars(Step(c))

-----------------------------------------------------------------------------
TypeOK ==
    /\ types \in Seq([name : AllNames, basic : BOOLEAN])
    /\ writer \in Conns \cup {None} /\ storeLock \in Conns \cup {None}
    /\ updated \in [Workers -> BOOLEAN]
    /\ cache \in [Workers -> [AllNames -> 0 .. Len(types)]]
    /\ cur \in [Workers -> 0 .. Len(types)]
    /\ cleared \in 0 .. NumWorkers
    /\ objVault \in [AllNames -> 0 .. Len(types)]
    /\ vaultLock \in [AllNames -> Conns \cup {None}]
    /\ guid \in Nat /\ objects \in Seq([type : AllNames, guid : Nat])
    /\ cpc \in [Conns -> PC] /\ calls \in [Conns -> 0 .. MaxCalls]

(* Schemas are "referred to by pointer equality" (spec 4.O): wherever two *)
(* workers' caches both resolve a name, they resolve it to the same       *)
(* schema, and every ObjectVault holds the schema the caches give its     *)
(* name -- even when the master list holds two schemas of one name.       *)
SchemaAgreement ==
    \A n \in AllNames :
        \A v, w \in Workers :
            /\ cache[v][n] # 0 /\ cache[w][n] # 0 => cache[v][n] = cache[w][n]
            /\ cache[v][n] # 0 /\ objVault[n] # 0 => cache[v][n] = objVault[n]

(* A FindSchema that begins after a defstruct of the name returned finds  *)
(* it: every path out of CreateSchema leaves the flags of stale caches    *)
(* clear, so the lookup refreshes first.                                   *)
LookupSeesPublished ==
    \A c \in Conns :
        cpc[c] = "lookup" /\ arg[c] \in seen[c] => cache[Vault(c)][arg[c]] # 0

(* Every host call returns: the storage lock, the registry's reader-      *)
(* writer lock and the vault mutexes are never waited on in a cycle.       *)
CallsReturn == \A c \in Conns : cpc[c] # "idle" ~> cpc[c] = "idle"

(* The in-lock check of CreateSchema is there "to avoid possible type     *)
(* with the same name inserted concurrently": no name is in the master    *)
(* list twice.                                                              *)
NoDuplicateTypes ==
    \A i, j \in 1 .. Len(types) : types[i].name = types[j].name => i = j

(* Objects are told apart by guid_: no two objects share one.              *)
UniqueGuids ==
    \A i, j \in 1 .. Len(objects) : objects[i].guid = objects[j].guid => i = j

=============================================================================
