--------------------------- MODULE IngestCapacity ---------------------------
(***************************************************************************)
(* How much ingestion runs at a time. A process measures its machine once and   *)
(* derives its pools from the cores and the memory it found; the policy's         *)
(* environment variables and file come before what is derived. A scaler, called     *)
(* once a tick, turns the length of the queues into the number of workers.          *)
(*                                                                          *)
(* Source: server/app/services/{resource_profile,ingestion_policy,               *)
(* ingestion_autoscale}.py. Memory is in MB, model quotas are tokens a minute.      *)
(***************************************************************************)
EXTENDS Naturals, Sequences, FiniteSets, FiniteSetsExt

CONSTANTS
    Machines,   \* [quota, affinity, logical, host, limit, usage, avail], None where unreadable
    Policies,   \* [env, file] of functions from knob names to numbers or None
    Quotas,     \* [chat, embed, rpm]: tokens of the pool's lanes, 0 for no lane, and requests a minute
    PerFile,    \* seconds a file takes
    MinInstances, MaxInstances,
    IdleTicks,  \* idle ticks before workers are taken away
    Depths,     \* lengths of the queues
    None

VARIABLES
    machine,   \* what the machine has, free memory included
    policy,    \* the policy in force
    profile,   \* [cpu, total, avail, container] once measured, else None
    quota,     \* the model pool of the policy file
    depth,     \* files in the ingest queues
    seen,      \* LLEN reaches Redis
    idle,      \* consecutive ticks that read an empty queue
    instances, \* workers there are
    decision   \* [desired, reason, limited, eta] of the last tick, None before

vars == <<machine, policy, profile, quota, depth, seen, idle, instances, decision>>

Overhead == 250
CleanJob == Overhead + 10 * 64
ParquetJob == Overhead + 2 * 64
Safety == 60  \* per cent of the free memory
IoFanout == 8
IoCap == 64
DuckFloor == 256
Sla == 600
PerInstance == 1
ChatTokens == 10000
EmbedTokens == 700

(* What the proofs need: what is measured and set are numbers, and the operator's bounds are a range. *)
ConstantsOK ==
    /\ None \notin Nat
    /\ \A m \in Machines : /\ {m.quota, m.affinity, m.limit, m.host, m.usage, m.avail} \subseteq Nat \cup {None}
                           /\ m.logical \in Nat
    /\ \A u \in Quotas : u.chat \in Nat /\ u.embed \in Nat /\ u.rpm \in Nat
    /\ PerFile \in Nat /\ MinInstances \in Nat /\ MaxInstances \in Nat /\ MinInstances =< MaxInstances
    /\ IdleTicks \in Nat /\ Depths \subseteq Nat

Given(S) == S \ {None}
Atleast(n, m) == Max({n, m})
Ceil(n, m) == (n + m - 1) \div m

(* The profile: the smallest of the signals that can be read.                                  *)
DetectCpu(m) ==
    LET cpu == Atleast(1, Min(Given({m.quota, m.affinity}) \cup {m.logical})) IN
    [cpu |-> cpu, container |-> m.quota /= None /\ (m.quota = None \/ m.quota = cpu)]

DetectRam(m) ==
    LET limits == Given({m.limit, m.host})
        total == IF limits = {} THEN 1 ELSE Min(limits)
        boxed == m.limit /= None /\ m.limit = total
        avail == CASE boxed /\ m.usage /= None -> IF m.usage > total THEN 0 ELSE total - m.usage
                   [] ~(boxed /\ m.usage /= None) /\ m.avail /= None -> m.avail
                   [] OTHER -> (85 * total) \div 100
    IN  [total |-> total, avail |-> Min({avail, total}), container |-> boxed]

ResourceProfile(m) ==
    LET c == DetectCpu(m) r == DetectRam(m) IN
    [cpu |-> c.cpu, total |-> r.total, avail |-> r.avail, container |-> c.container \/ r.container]

Names == {"ingestion_cores", "preprocess", "excel", "parquet", "celery", "io", "batch", "delay",
          "duckdb_threads", "duckdb_memory"}

\* Mutant: the conversions are reckoned with all of the memory that may be used.
Conversions_AllMemory(p, cores) == Atleast(1, Min({cores, (p.avail * Safety) \div (100 * ParquetJob)}))

(* Half of what may be used is for conversions; cleaning may take all of it.                   *)
Conversions(p, cores) == Atleast(1, Min({cores, (p.avail * Safety) \div (200 * ParquetJob)}))

Knobs(p, rpm) ==
    LET cores == Atleast(1, p.cpu - (IF p.cpu > 2 THEN 2 ELSE 1))
        preprocess == Atleast(1, Min({cores, (p.avail * Safety) \div (100 * CleanJob)}))
        parquet == Conversions(p, cores)
        io == Min({IoCap, IoFanout * p.cpu})
    IN  [ingestion_cores |-> cores, preprocess |-> preprocess, excel |-> Atleast(1, preprocess \div 2),
         parquet |-> parquet, celery |-> Min({preprocess, 32}),
         io |-> IF rpm > 0 THEN Min({io, Atleast(1, rpm \div 20)}) ELSE io,
         batch |-> Atleast(25, 25 * cores), delay |-> Atleast(2, 10 \div cores),
         duckdb_threads |-> Atleast(1, cores \div parquet),
         duckdb_memory |-> Atleast(DuckFloor, (p.avail * Safety) \div (200 * parquet))]

(* A setting of the environment comes first, one of the file second.                           *)
LegacyValue(name) ==
    IF policy.env[name] /= None THEN policy.env[name]
    ELSE IF policy.file[name] /= None THEN policy.file[name] ELSE Knobs(profile, quota.rpm)[name]

(* What the pool of models can sustain: the tighter of its lanes, or the requests a minute.    *)
PoolQuotaCeiling(u) ==
    LET lanes == Given({IF u.chat > 0 THEN (u.chat * PerFile) \div (60 * ChatTokens) ELSE None,
                        IF u.embed > 0 THEN (u.embed * PerFile) \div (60 * EmbedTokens) ELSE None})
    IN  IF lanes = {} THEN None ELSE Atleast(1, Min(lanes))

QuotaConcurrencyCeiling(u) == IF u.rpm = 0 THEN None ELSE Atleast(1, (u.rpm * PerFile) \div 60)

QuotaInstances(u) ==
    LET pool == PoolQuotaCeiling(u)
        ceiling == IF pool = None THEN QuotaConcurrencyCeiling(u) ELSE pool
    IN  IF ceiling = None THEN None ELSE Atleast(MinInstances, ceiling \div PerInstance)

Drain(d, n) == Ceil(d * PerFile, Atleast(1, n * PerInstance))

\* Mutant: a tick too few is enough.
Held_Early(wanted) == wanted < instances /\ idle + 1 < IdleTicks

Held(wanted) == wanted < instances /\ idle < IdleTicks

ComputeDesiredCapacity(d, u) ==
    LET raw == Ceil(d * PerFile, Sla * PerInstance)
        bounded == Atleast(MinInstances, Min({MaxInstances, raw}))
        limited == QuotaInstances(u) /= None /\ QuotaInstances(u) < bounded
        wanted == IF limited THEN QuotaInstances(u) ELSE bounded
        held == Held(wanted)
        desired == IF held THEN Atleast(MinInstances, instances) ELSE wanted
    IN  [desired |-> desired, limited |-> limited, eta |-> Drain(d, desired), raw |-> raw,
         reason |-> CASE held -> "scale_in_held"
                      [] ~held /\ limited -> "clamped_quota"
                      [] ~held /\ ~limited /\ raw > MaxInstances -> "clamped_max"
                      [] ~held /\ ~limited /\ raw < MinInstances -> "clamped_min"
                      [] OTHER -> "demand"]

Init ==
    /\ machine \in Machines /\ policy \in Policies
    /\ profile = None /\ decision = None
    /\ quota \in Quotas /\ instances = MinInstances
    /\ depth = 0 /\ idle = 0 /\ seen = TRUE

(* The first caller measures; the answer is kept for the life of the process.                  *)
GetResourceProfile ==
    /\ profile = None
    /\ profile' = ResourceProfile(machine)
    /\ UNCHANGED <<machine, policy, quota, depth, seen, idle, instances, decision>>

(* The rest of the machine takes memory or gives it back, whenever it likes.                   *)
MemoryChanges ==
    /\ \E m \in Machines : machine' = m /\ [m EXCEPT !.usage = machine.usage, !.avail = machine.avail] = machine
    /\ UNCHANGED <<policy, profile, quota, depth, seen, idle, instances, decision>>

(* Deployments are read again at every tick, so a policy can change between two.               *)
PolicyChanges ==
    /\ quota' \in Quotas
    /\ UNCHANGED <<machine, policy, profile, depth, seen, idle, instances, decision>>

(* Files are queued and taken; Redis goes and comes back.                                      *)
QueueChanges ==
    /\ depth' \in Depths
    /\ UNCHANGED <<machine, policy, profile, quota, seen, idle, instances, decision>>

RedisChanges ==
    /\ seen' = ~seen
    /\ UNCHANGED <<machine, policy, profile, quota, depth, idle, instances, decision>>

ReadQueueDepth == IF seen THEN depth ELSE 0

(* A tick decides with the count its caller kept, and the cloud's rule follows.                *)
ScalerTick ==
    LET d == ComputeDesiredCapacity(ReadQueueDepth, quota) IN
    /\ decision' = d /\ instances' = d.desired
    /\ idle' = IF ReadQueueDepth = 0 THEN Min({idle + 1, IdleTicks}) ELSE 0
    /\ UNCHANGED <<machine, policy, profile, quota, depth, seen>>

Next == GetResourceProfile \/ MemoryChanges \/ PolicyChanges \/ QueueChanges \/ RedisChanges \/ ScalerTick

Spec == Init /\ [][Next]_vars

-----------------------------------------------------------------------------
TypeOK ==
    /\ machine \in Machines /\ policy \in Policies /\ quota \in Quotas
    /\ depth \in Depths /\ idle \in 0..IdleTicks /\ seen \in BOOLEAN
    /\ instances \in Nat

(* Unless a setting says otherwise, the pools fit into what was free when the process measured:  *)
(* clean jobs beyond the first need no more than the safe share, the conversions together no more *)
(* than half of it, both as they are reckoned and with the memory DuckDB is allowed, and their     *)
(* threads no more cores than ingestion has.                                                   *)
PoolsFit ==
    profile /= None =>
        LET safe == profile.avail * Safety
            jobs == LegacyValue("parquet")
            own == \A name \in Names : policy.env[name] = None /\ policy.file[name] = None
        IN  own =>
            /\ LegacyValue("preprocess") > 1 => 100 * LegacyValue("preprocess") * CleanJob =< safe
            /\ LegacyValue("celery") =< LegacyValue("preprocess")
            /\ jobs > 1 => /\ 200 * jobs * ParquetJob =< safe
                           /\ 200 * jobs * LegacyValue("duckdb_memory") =< safe
            /\ jobs * LegacyValue("duckdb_threads") =< LegacyValue("ingestion_cores")

(* A decision that names neither a clamp nor a hold drains what it read within the ten minutes,  *)
(* and one that was held, too, unless the quota or the most workers would have cut it.         *)
DrainsInTime ==
    decision /= None =>
        \/ decision.limited \/ decision.raw > MaxInstances
        \/ decision.eta =< Sla

(* Workers come only within the operator's bounds and the quota of the models as it is then, and *)
(* go only after enough ticks in a row that read an empty queue.                                *)
ScalesSafely ==
    /\ instances' > instances =>
        /\ instances' =< MaxInstances
        /\ QuotaInstances(quota) = None \/ instances' =< QuotaInstances(quota)
    /\ instances' < instances => idle = IdleTicks

=============================================================================
