------------------------------- MODULE Startup -------------------------------
(***************************************************************************)
(* XYEntrypoint (main.cc) after LoadConfig: the log level, the task        *)
(* manager's limits, the TCP bind addresses and the config's "exec" files  *)
(* are read from the loaded Config, each accept task and the ExecuteFiles  *)
(* task is added as an entry point, and TaskManager::Run hands the entry   *)
(* points to worker 0.                                                     *)
(*                                                                         *)
(* The memory an entry point's arguments live in is the point of the       *)
(* module.  AddEntryPoint emplaces a TaskTuple into entrypoints_, a        *)
(* std::vector; the tuple placement-news std::tuple<TaskContext*, Args...> *)
(* into its aligned_storage, and its copy and move are the defaulted       *)
(* bytewise ones.  An accept task's first argument is a Str: a short       *)
(* string keeps its characters inside the Str (the small-string buffer of  *)
(* 15 bytes) and points at them, so the pointer is into the vector's       *)
(* element.  When the vector grows, the elements are copied bytewise into  *)
(* a new buffer and the old one is freed; an inline Str moved that way     *)
(* still points into the freed buffer.  A buffer is named by the number of *)
(* the allocation that made it; Heap (0) is memory owned elsewhere (a long *)
(* string's heap block, ExecuteFiles' Vec).                                *)
(***************************************************************************)
EXTENDS ConfigLoad

CONSTANTS
    Bytes    \* the byte length of each atom of a bind address string

VARIABLES
    phase,    \* which step of XYEntrypoint runs next
    eps,      \* entrypoints_: <<[task, addr, home]>>, in emplace order
    cap,      \* entrypoints_.capacity()
    nbuf,     \* allocations of entrypoints_ so far; the live buffer is nbuf
    ring,     \* worker 0's local_task_queue_ after Run
    started   \* the ring slots whose task has begun executing

svars == <<phase, eps, cap, nbuf, ring, started>>
allvars == <<vars, svars>>

\* libstdc++'s std::basic_string keeps up to 15 characters inline.
SSOCapacity == 15

\* Memory that is not a buffer of entrypoints_.
Heap == 0

Width(s) == FoldLeft(LAMBDA n, a : n + Bytes[a], 0, s)

-----------------------------------------------------------------------------
(* Reading the Config.                                                     *)

\* Config::Get<T>: the key's first value if it has type T.
Get(m, k, t) ==
    IF k \notin DOMAIN m THEN [ok |-> FALSE, err |-> "DoesNotExist"]
    ELSE IF m[k][1].t # t THEN [ok |-> FALSE, err |-> "InvalidType"]
    ELSE [ok |-> TRUE, v |-> m[k][1].v]

RightOrDefault(r, d) == IF r.ok THEN r.v ELSE d

\* Config::GetList(k).RightOrDefault(dflt).
GetList(m, k, dflt) == IF k \in DOMAIN m THEN m[k] ELSE dflt

\* ConfigList::AsArray<T>: every item has type T, or nothing.
AsArray(l, t) ==
    IF \A j \in DOMAIN l : l[j].t = t
    THEN [ok |-> TRUE, v |-> [j \in DOMAIN l |-> l[j].v]]
    ELSE [ok |-> FALSE]

\* ParseIPAddress: split at the last ':'; no ':' is an invalid address.
ParseIPAddress(s) ==
    LET cs == {j \in DOMAIN s : s[j] = ":"}
    IN IF cs = {} THEN [ok |-> FALSE]
       ELSE LET j == Max(cs)
            IN [ok |-> TRUE, ip |-> SubSeq(s, 1, j - 1), port |-> SubSeq(s, j + 1, Len(s))]

\* LogLevelFromString's table.
LogLevels == {<<"none">>, <<"error">>, <<"warning">>, <<"info">>, <<"verbose">>}

LogLevelKey == <<"log", "level">>
NumThreadsKey == <<"task", "num-threads">>
MaxEventsKey == <<"events", "max-events-at-once">>
BindKey == <<"tcp", "bind">>
ExecKey == <<"exec">>
DefaultBind == <<[t |-> "str", v |-> <<"0.0.0.0", ":", "9920">>]>>

-----------------------------------------------------------------------------
(* entrypoints_.                                                           *)

\* An accept task's Str lives in the element it is constructed in: the
\* buffer emplace_back writes it to, or its own heap block.
Home(addr, buf) == IF Width(addr) <= SSOCapacity THEN buf ELSE Heap

\* emplace_back: a full vector allocates max(1, 2 * size) elements,
\* constructs the new element there, copies the old ones over bytewise and
\* frees the old buffer.
AddEntryPoint(v, e) ==
    LET grow == Len(v.eps) = v.cap
        buf == IF grow THEN v.nbuf + 1 ELSE v.nbuf
        home == IF e.task = "accept" THEN Home(e.addr, buf) ELSE Heap
    IN [eps |-> Append(v.eps, [e EXCEPT !.home = home]),
        cap |-> IF grow THEN IF v.cap = 0 THEN 1 ELSE 2 * v.cap ELSE v.cap,
        nbuf |-> buf]

AddAll(v, es) == FoldLeft(AddEntryPoint, v, es)

Vector == [eps |-> eps, cap |-> cap, nbuf |-> nbuf]
SetVector(v) == eps' = v.eps /\ cap' = v.cap /\ nbuf' = v.nbuf

Accept(a) == [task |-> "accept", addr |-> a, home |-> Heap]
ExecFiles == [task |-> "exec", addr |-> <<>>, home |-> Heap]

-----------------------------------------------------------------------------
(* XYEntrypoint.                                                           *)

StartInit ==
    /\ Init
    /\ phase = "load" /\ eps = <<>> /\ cap = 0 /\ nbuf = 0
    /\ ring = <<>> /\ started = {}

LoadStep == Next /\ UNCHANGED svars

\* LoadConfig returns an error: XYEntrypoint returns -1.
LoadFailed ==
    /\ phase = "load" /\ stage = "failed"
    /\ phase' = "exit"
    /\ UNCHANGED <<vars, eps, cap, nbuf, ring, started>>

\* CreateLog: a log.level that is not a string is "info"; a string that is
\* no level is refused.  (log.file, whose opening can fail, is I/O.)
CreateLog ==
    /\ phase = "load" /\ stage = "done"
    /\ LET level == RightOrDefault(Get(result, LogLevelKey, "str"), <<"info">>)
       IN phase' = IF level \in LogLevels THEN "tasks" ELSE "exit"
    /\ UNCHANGED <<vars, eps, cap, nbuf, ring, started>>

\* CreateTaskManager: task.num-threads must be the string "auto" or absent
\* (an integer is refused too), and events.max-events-at-once positive.
CreateTaskManager ==
    /\ phase = "tasks"
    /\ LET s == Get(result, NumThreadsKey, "str")
           n == Get(result, NumThreadsKey, "int")
           ev == RightOrDefault(Get(result, MaxEventsKey, "int"), 1024)
           refused == IF s.ok THEN s.v # <<"auto">> ELSE n.ok
       IN phase' = IF refused \/ ev <= 0 THEN "exit" ELSE "tcp"
    /\ UNCHANGED <<vars, eps, cap, nbuf, ring, started>>

\* CreateTcpManager and TcpManager::Create: tcp.bind (default
\* "0.0.0.0:9920") must be a list of strings, each with a ':'; then one
\* TcpSocketAccept entry point per address, in order.
CreateTcpManager ==
    /\ phase = "tcp"
    /\ LET arr == AsArray(GetList(result, BindKey, DefaultBind), "str")
           addrs == IF arr.ok THEN [j \in DOMAIN arr.v |-> ParseIPAddress(arr.v[j])] ELSE <<>>
       IN IF arr.ok /\ \A j \in DOMAIN addrs : addrs[j].ok
          THEN /\ SetVector(AddAll(Vector, [j \in DOMAIN addrs |-> Accept(addrs[j].ip)]))
               /\ phase' = "execs"
          ELSE phase' = "exit" /\ UNCHANGED <<eps, cap, nbuf>>
    /\ UNCHANGED <<vars, ring, started>>

\* ScheduleConfigExecs: "exec", if present, must be a list of strings; it
\* becomes one ExecuteFiles entry point holding a Vec of them.
ScheduleConfigExecs ==
    /\ phase = "execs"
    /\ IF ExecKey \notin DOMAIN result
       THEN phase' = "run" /\ UNCHANGED <<eps, cap, nbuf>>
       ELSE IF AsArray(result[ExecKey], "str").ok
            THEN phase' = "run" /\ SetVector(AddEntryPoint(Vector, ExecFiles))
            ELSE phase' = "exit" /\ UNCHANGED <<eps, cap, nbuf>>
    /\ UNCHANGED <<vars, ring, started>>

\* TaskManager::Run: worker 0's constructor pushes bytewise copies of the
\* entry points into its queue; entrypoints_.clear() keeps the buffer.
Run ==
    /\ phase = "run"
    /\ ring' = eps /\ eps' = <<>> /\ phase' = "serving"
    /\ UNCHANGED <<vars, cap, nbuf, started>>

\* A worker takes an entry point and runs its exec with the stored
\* arguments (an accept task reads bind_addr first).
StartEntry ==
    /\ phase = "serving"
    /\ \E j \in DOMAIN ring \ started : started' = started \cup {j}
    /\ UNCHANGED <<vars, phase, eps, cap, nbuf, ring>>

StartNext ==
    \/ LoadStep \/ LoadFailed \/ CreateLog \/ CreateTaskManager
    \/ CreateTcpManager \/ ScheduleConfigExecs \/ Run \/ StartEntry

StartSpec == StartInit /\ [][StartNext]_allvars

-----------------------------------------------------------------------------
(* Properties.                                                             *)

Phases == {"load", "tasks", "tcp", "execs", "run", "serving", "exit"}

\* Every entry point that a worker runs reads its arguments from memory
\* that is still allocated: the bytewise copies AddEntryPoint and Run make
\* of a TaskTuple must not carry a pointer into a buffer entrypoints_ has
\* since freed.
EntryArgsLive ==
    \A j \in started : ring[j].home \in {Heap, nbuf}
====
