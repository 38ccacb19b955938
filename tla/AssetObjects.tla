---------------------------- MODULE AssetObjects ----------------------------
(***************************************************************************)
(* Hosted assets on a shared volume: plans reserve, uploads commit bytes    *)
(* and then metadata, deployments are recorded in the metadata              *)
(* (asset-storage/src/filesystem-store.ts).                                 *)
(*                                                                         *)
(* The asset lock is taken as exclusive; AssetLock says when it is.  A      *)
(* locked section is a few steps, one per file it renames, because a        *)
(* process can die and the volume can lose power between them: a rename is  *)
(* seen by everybody at once and is durable when its directory is synced.   *)
(* Files are synced before they are renamed, so a rename never exposes a    *)
(* half-written file.  Every asset has the same size and scope.             *)
(***************************************************************************)
EXTENDS Naturals, FiniteSets

CONSTANTS
    Procs,        \* processes that share the volume
    None,         \* no process, no asset
    Keys,         \* object keys: scope, content hash and logical id
    Assets,       \* identities: what sameAssetIdentity compares
    KeyOf,        \* object key of each asset
    Tokens,       \* upload capabilities a process may draw
    By, For,      \* the process that draws a token and the asset it is for
    Bundles,      \* what each process is asked to plan
    Deployments,
    Uses,         \* the asset each deployment uses
    Quota,        \* objects the configuration of each process allows
    MaxPending,   \* maxPendingUploads
    MaxMarks,     \* MAX_FILESYSTEM_ASSET_REACHABILITY_RECORDS
    MaxFaults,    \* bound on failures, deaths, rot and expiries together
    MaxLosses     \* bound on power losses

ASSUME NoneAssumption == Procs # {} /\ None \notin Procs \cup Assets
ASSUME FiniteAssumption == IsFiniteSet(Keys) /\ IsFiniteSet(Tokens)
ASSUME DistinctAssumption == Keys \cap Deployments = {}
ASSUME ShapeAssumption ==
    /\ KeyOf \in [Assets -> Keys]
    /\ By \in [Tokens -> Procs] /\ For \in [Tokens -> Assets]
    /\ Bundles \in [Procs -> SUBSET SUBSET Assets] /\ Uses \in [Deployments -> Assets]
    /\ Quota \in [Procs -> Nat] /\ MaxPending \in Nat /\ MaxMarks \in Nat
    /\ MaxFaults \in Nat /\ MaxLosses \in Nat

VARIABLES
    bytes,        \* objects/<id>.bin
    meta,         \* objects/<id>.json
    caps,         \* state/reservations.json
    bytesDisk, metaDisk, capsDisk,   \* the same, as far as synced
    expired,      \* tokens whose expiresAt has passed
    known,        \* #uploads of each process
    up,           \* what is going on with each token
    deploy,       \* what became of each deployment
    at,           \* how far the locked section is, "free" when there is none
    holder,       \* process in the section
    job,          \* token or deployment it serves
    wants,        \* planUploads: toUpload
    draft,        \* #commitStagedUpload: state, not yet written
    acked,        \* history: keys whose upload was answered 201
    recorded,     \* history: deployments recorded in the metadata of their asset
    replaced,     \* history: deployments recorded in metadata an upload rewrote
    undone,       \* history: uploads and records answered on metadata nobody had
                  \* synced, and that a power loss took back
    unsynced,     \* history: keys whose metadata was renamed by a section that
                  \* failed before it synced the directory
    faults, losses

files == <<bytes, meta>>
objects == <<bytes, meta, bytesDisk, metaDisk, unsynced>>
reservations == <<caps, capsDisk>>
section == <<at, holder, job, wants, draft>>
history == <<acked, recorded, replaced, undone>>
budget == <<faults, losses>>
vars == <<objects, reservations, expired, known, up, deploy, section, history, budget>>

Metadata == [asset : Assets \cup {None}, marks : SUBSET Deployments, retain : BOOLEAN]
NoMetadata == [asset |-> None, marks |-> {}, retain |-> FALSE]
Present(m) == m.asset # None

\* No file is without its type, and no metadata is one the parser refuses.
TypeOK ==
    /\ bytes \in [Keys -> {"none", "good", "bad"}]
    /\ bytesDisk \in [Keys -> {"none", "good", "bad"}]
    /\ meta \in [Keys -> Metadata] /\ metaDisk \in [Keys -> Metadata]
    /\ \A k \in Keys : Cardinality(meta[k].marks) <= MaxMarks
    /\ caps \subseteq Tokens /\ capsDisk \subseteq Tokens
    /\ expired \subseteq Tokens
    /\ known \in [Procs -> SUBSET Tokens]
    /\ up \in [Tokens -> {"idle", "drawn", "check", "stage", "revoke"}]
    /\ deploy \in [Deployments -> {"new", "verified", "over"}]
    /\ at \in {"free", "plan", "planned", "put", "sweep", "check", "bytes", "metadata",
               "unreserve", "refuse", "revoke", "mark"}
    /\ holder \in Procs \cup {None}
    /\ job \in Tokens \cup Deployments \cup {None}
    /\ wants \subseteq Assets
    /\ draft \subseteq Tokens
    /\ acked \subseteq Keys /\ recorded \subseteq Deployments /\ replaced \subseteq Deployments
    /\ undone \subseteq Keys \cup Deployments /\ unsynced \subseteq Keys
    /\ faults \in Nat /\ losses \in Nat

Init ==
    /\ bytes = [k \in Keys |-> "none"] /\ bytesDisk = bytes
    /\ meta = [k \in Keys |-> NoMetadata] /\ metaDisk = meta
    /\ caps = {} /\ capsDisk = {}
    /\ expired = {}
    /\ known = [p \in Procs |-> {}]
    /\ up = [t \in Tokens |-> "idle"]
    /\ deploy = [d \in Deployments |-> "new"]
    /\ at = "free" /\ holder = None /\ job = None /\ wants = {} /\ draft = {}
    /\ acked = {} /\ recorded = {} /\ replaced = {} /\ undone = {} /\ unsynced = {}
    /\ faults = 0 /\ losses = 0

-----------------------------------------------------------------------------
Goal(t) == KeyOf[For[t]]
Mine(d) == KeyOf[Uses[d]]

\* The metadata names this asset and #verifyStoredBytes accepts its bytes.
Committed(a) == meta[KeyOf[a]].asset = a /\ bytes[KeyOf[a]] = "good"

\* sweepFilesystemAssetReservations, withoutObjectReservations
Live == caps \ expired
WithoutObjects(c, ks) == {t \in c : Goal(t) \notin ks}

\* storedAndReservedBytes: an object that is stored and reserved counts once.
Counted(c) == {k \in Keys : Present(meta[k])} \cup {Goal(t) : t \in c}

\* #enforcePendingBounds, #enforceStoredQuotas
\* Mutant: what is stored is forgotten.
FitsReserved(p, c) == Cardinality(c) <= MaxPending /\ Cardinality({Goal(t) : t \in c}) <= Quota[p]
Fits(p, c) == Cardinality(c) <= MaxPending /\ Cardinality(Counted(c)) <= Quota[p]

\* Mutant: the list may grow one past its bound.
FullLate(m) == Cardinality(m.marks) > MaxMarks
Full(m) == Cardinality(m.marks) = MaxMarks
Remembers(m, d) == d \in m.marks \/ m.retain

\* withFilesystemAssetLock
Enter(p, to, j) ==
    /\ at = "free"
    /\ at' = to /\ holder' = p /\ job' = j
Leave == at' = "free" /\ holder' = None /\ job' = None /\ wants' = {} /\ draft' = {}
Advance(to) == at' = to /\ UNCHANGED <<holder, job, wants>>

\* syncFilesystemAssetDirectory makes every rename in the directory durable.
\* Mutant: it is left to the operating system.
SyncObjectsLater == UNCHANGED <<bytesDisk, metaDisk, unsynced>>
SyncObjects == bytesDisk' = bytes /\ metaDisk' = meta /\ unsynced' = {}

\* writeFilesystemAssetReservations renames the file, then syncs its directory.
SyncReservations == capsDisk' = caps /\ UNCHANGED caps

Sets(t, to) == up' = [up EXCEPT ![t] = to]
Knows(p, ts) == known' = [known EXCEPT ![p] = ts]
Forgets(t) == Knows(By[t], known[By[t]] \ {t})

Fault == faults < MaxFaults /\ faults' = faults + 1 /\ UNCHANGED losses
-----------------------------------------------------------------------------
(* planUploads.                                                            *)

\* Sweeps, reconciles the registry and drops the reservations of objects that
\* are there already.
PlanBegin(p, as) ==
    LET there == {KeyOf[a] : a \in {b \in as : Committed(b)}}
        left == WithoutObjects(Live, there)
    IN  /\ Enter(p, "plan", None)
        /\ wants' = {a \in as : ~Committed(a)}
        /\ caps' = left
        /\ Knows(p, known[p] \cap left)
        /\ UNCHANGED <<objects, capsDisk, expired, up, deploy, draft, history, budget>>

\* One new token for each asset this process has no token for.  A random token
\* is never drawn twice; its name is, once nobody remembers it.
Draws(ts) ==
    /\ \A t \in ts : /\ up[t] = "idle" /\ By[t] = holder
                     /\ t \notin caps \cup capsDisk \cup known[holder]
    /\ \A a \in wants : \/ \E t \in known[holder] : For[t] = a
                        \/ \E t \in ts : For[t] = a
    /\ \A t \in ts : For[t] \in wants /\ \A s \in known[holder] \cup (ts \ {t}) : For[s] # For[t]

PlanReserve ==
    /\ at = "plan" /\ Advance("planned")
    /\ \E ts \in SUBSET Tokens :
         /\ Draws(ts) /\ Fits(holder, caps \cup ts)
         /\ caps' = caps \cup ts
         /\ expired' = expired \ ts
         /\ up' = [t \in Tokens |-> IF t \in ts THEN "drawn" ELSE up[t]]
    /\ capsDisk' = caps
    /\ UNCHANGED <<objects, known, deploy, draft, history, budget>>

\* The bounds are reached, or the model's tokens are used up.
PlanRefused ==
    /\ at = "plan" /\ Leave
    /\ \A ts \in SUBSET Tokens : ~(Draws(ts) /\ Fits(holder, caps \cup ts))
    /\ SyncReservations
    /\ UNCHANGED <<objects, expired, known, up, deploy, history, budget>>

PlanEnd ==
    LET drawn == {t \in Tokens : up[t] = "drawn"}
    IN  /\ at = "planned" /\ Leave
        /\ SyncReservations
        /\ Knows(holder, known[holder] \cup drawn)
        /\ up' = [t \in Tokens |-> IF t \in drawn THEN "idle" ELSE up[t]]
        /\ UNCHANGED <<objects, expired, deploy, history, budget>>

-----------------------------------------------------------------------------
(* #handleUpload.                                                          *)

\* A section that writes the reservations file and nothing else.
Rewrite(t, to, c) ==
    /\ Enter(By[t], to, t)
    /\ caps' = c
    /\ UNCHANGED <<objects, capsDisk, expired, up, deploy, wants, draft, history, budget>>

\* #reconcileLocalUploads, when a PUT names a token of this process
Put(t) ==
    /\ up[t] = "idle" /\ t \in known[By[t]]
    /\ Rewrite(t, "put", Live)
    /\ Knows(By[t], known[By[t]] \cap Live)

\* 410 or 400 after a revocation, 404, or on to the reservation.
PutReconciled(t) ==
    /\ at = "put" /\ job = t /\ Leave
    /\ SyncReservations
    /\ \/ t \in known[By[t]] \cup expired /\ Sets(t, "revoke") /\ Forgets(t)
       \/ t \notin known[By[t]] /\ Sets(t, "idle") /\ UNCHANGED known
       \/ t \in known[By[t]] \ expired /\ Sets(t, "check") /\ UNCHANGED known
    /\ UNCHANGED <<objects, expired, deploy, history, budget>>

\* A second PUT of a token under way sweeps as well, and is answered 404, 409 or 410.
\* One that has nothing to sweep or sync is no step.
PutAgain(t) ==
    /\ up[t] \in {"check", "stage"} /\ t \in known[By[t]]
    /\ caps # Live \/ caps # capsDisk
    /\ Rewrite(t, "sweep", Live)
    /\ Knows(By[t], known[By[t]] \cap Live)

SweepEnd ==
    /\ at = "sweep" /\ Leave
    /\ SyncReservations
    /\ UNCHANGED <<objects, expired, known, up, deploy, history, budget>>

\* #reservationExists
Check(t) ==
    /\ up[t] = "check"
    /\ Rewrite(t, "check", Live)
    /\ UNCHANGED known

CheckDone(t) ==
    /\ at = "check" /\ job = t /\ Leave
    /\ SyncReservations
    /\ \/ t \in caps /\ Sets(t, "stage") /\ UNCHANGED known
       \/ t \notin caps /\ Sets(t, "idle") /\ Forgets(t)
    /\ UNCHANGED <<objects, expired, deploy, history, budget>>

\* #stageUploadedObject writes a private file and fails when the upload is too
\* large, its checksum is wrong or the client is gone.
UploadFails(t) ==
    /\ up[t] = "stage" /\ Sets(t, "revoke") /\ Forgets(t)
    /\ UNCHANGED <<objects, reservations, expired, deploy, section, history, budget>>

\* #commitStagedUpload: the object is there already,
CommitExisting(t) ==
    /\ up[t] = "stage" /\ Committed(For[t])
    /\ Rewrite(t, "unreserve", WithoutObjects(Live, {Goal(t)}))
    /\ UNCHANGED known

\* the reservation is not,
CommitGone(t) ==
    /\ up[t] = "stage" /\ ~Committed(For[t]) /\ t \notin Live
    /\ Rewrite(t, "refuse", Live)
    /\ UNCHANGED known

\* other processes have filled this one's quota,
CommitOverQuota(t) ==
    /\ up[t] = "stage" /\ ~Committed(For[t]) /\ t \in Live /\ ~Fits(By[t], Live)
    /\ Rewrite(t, "refuse", Live \ {t})
    /\ UNCHANGED known

\* or the staged bytes are renamed into place,
CommitBytes(t) ==
    /\ up[t] = "stage" /\ ~Committed(For[t]) /\ t \in Live /\ Fits(By[t], Live)
    /\ Enter(By[t], "bytes", t)
    /\ draft' = Live
    /\ bytes' = [bytes EXCEPT ![Goal(t)] = "good"]
    /\ UNCHANGED <<meta, bytesDisk, metaDisk, unsynced, reservations, expired, known, up,
                   deploy, wants, history, budget>>

\* then the metadata, which starts without reachability: whatever was recorded in
\* the metadata it replaces, indefinite retention too, is forgotten,
CommitMetadata(t) ==
    /\ at = "bytes" /\ job = t /\ Advance("metadata")
    /\ SyncObjects
    /\ meta' = [meta EXCEPT ![Goal(t)] = [asset |-> For[t], marks |-> {}, retain |-> FALSE]]
    /\ replaced' = replaced \cup {d \in recorded : Mine(d) = Goal(t)}
    /\ UNCHANGED <<bytes, reservations, expired, known, up, deploy, draft, acked, recorded,
                   undone, budget>>

\* then the reservations of the object go.
CommitReservations(t) ==
    /\ at = "metadata" /\ job = t /\ Advance("unreserve")
    /\ SyncObjects
    /\ caps' = WithoutObjects(draft, {Goal(t)})
    /\ draft' = {}
    /\ UNCHANGED <<files, capsDisk, expired, known, up, deploy, history, budget>>

\* 201, or the error that revokes the capability.
CommitEnd(t) ==
    /\ at = "unreserve" /\ job = t /\ Leave
    /\ SyncReservations
    /\ Sets(t, "idle")
    /\ Knows(By[t], WithoutObjects(known[By[t]], {Goal(t)}))
    /\ acked' = acked \cup {Goal(t)}
    /\ undone' = undone \ {Goal(t)}
    /\ UNCHANGED <<objects, expired, deploy, recorded, replaced, budget>>

RefuseEnd(t) ==
    /\ at = "refuse" /\ job = t /\ Leave
    /\ SyncReservations
    /\ Sets(t, "revoke") /\ Forgets(t)
    /\ UNCHANGED <<objects, expired, deploy, history, budget>>

\* #revokeCapability
Revoke(t) ==
    /\ up[t] = "revoke"
    /\ Rewrite(t, "revoke", Live \ {t})
    /\ UNCHANGED known

RevokeEnd(t) ==
    /\ at = "revoke" /\ job = t /\ Leave
    /\ SyncReservations
    /\ Sets(t, "idle")
    /\ UNCHANGED <<objects, expired, known, deploy, history, budget>>

-----------------------------------------------------------------------------
(* Deployments.                                                            *)

\* verifyUploadedAssets reads without the lock.
Verify(d) ==
    /\ deploy[d] = "new" /\ Committed(Uses[d])
    /\ deploy' = [deploy EXCEPT ![d] = "verified"]
    /\ UNCHANGED <<objects, reservations, expired, known, up, section, history, budget>>

\* recordReachability, with a full list turning into indefinite retention.
Marked(m, d) == IF Full(m) THEN [m EXCEPT !.retain = TRUE] ELSE [m EXCEPT !.marks = @ \cup {d}]

Mark(p, d) ==
    LET m == meta[Mine(d)]
    IN  /\ deploy[d] = "verified" /\ Enter(p, "mark", d)
        /\ m.asset = Uses[d] /\ ~Remembers(m, d)
        /\ meta' = [meta EXCEPT ![Mine(d)] = Marked(m, d)]
        /\ UNCHANGED <<bytes, bytesDisk, metaDisk, unsynced, reservations, expired, known, up,
                       deploy, wants, draft, history, budget>>

MarkEnd(d) ==
    /\ at = "mark" /\ job = d /\ Leave
    /\ SyncObjects
    /\ deploy' = [deploy EXCEPT ![d] = "over"]
    /\ recorded' = recorded \cup {d}
    /\ UNCHANGED <<files, reservations, expired, known, up, acked, replaced, undone, budget>>

\* Nothing to write: the asset is another by now, or it is recorded already.
MarkNothing(d) ==
    LET m == meta[Mine(d)]
    IN  /\ at = "free" /\ deploy[d] = "verified"
        /\ m.asset # Uses[d] \/ Remembers(m, d)
        /\ deploy' = [deploy EXCEPT ![d] = "over"]
        /\ recorded' = IF m.asset = Uses[d] THEN recorded \cup {d} ELSE recorded
        /\ UNCHANGED <<objects, reservations, expired, known, up, section, acked, replaced, undone,
                   budget>>

-----------------------------------------------------------------------------
(* Time and faults.  One that nobody can notice is no step.                *)

Expire(t) ==
    /\ t \in (caps \cup capsDisk) \ expired
    /\ expired' = expired \cup {t}
    /\ Fault
    /\ UNCHANGED <<objects, reservations, known, up, deploy, section, history>>

\* The section ends before it has synced the metadata it renamed.
Dangles == {k \in Keys : \/ at = "metadata" /\ k = Goal(job)
                         \/ at = "mark" /\ k = Mine(job)}

Abandoned(d) == [deploy EXCEPT ![d] = "over"]
Undrawn == [t \in Tokens |-> IF up[t] = "drawn" THEN "idle" ELSE up[t]]

\* A system call of the section fails after its last rename: it throws, and the
\* lock is released.
SectionFails ==
    /\ at # "free" /\ Leave
    /\ unsynced' = unsynced \cup Dangles
    /\ \/ /\ at \in {"plan", "planned", "sweep"}
          /\ up' = Undrawn /\ UNCHANGED <<known, deploy>>
       \/ /\ at = "mark"
          /\ deploy' = Abandoned(job) /\ UNCHANGED <<known, up>>
       \/ /\ at \in {"put", "revoke"}
          /\ Sets(job, "idle") /\ UNCHANGED <<known, deploy>>
       \/ /\ at \in {"check", "bytes", "metadata", "unreserve", "refuse"}
          /\ Sets(job, "revoke") /\ Forgets(job) /\ UNCHANGED deploy
    /\ Fault
    /\ UNCHANGED <<files, bytesDisk, metaDisk, reservations, expired, history>>

\* A process dies; the lock it holds is recovered.
Died(ps) == [t \in Tokens |-> IF By[t] \in ps THEN "idle" ELSE up[t]]
AtWork(p) == holder = p \/ known[p] # {} \/ \E t \in Tokens : By[t] = p /\ up[t] # "idle"
Crash(p) ==
    /\ AtWork(p)
    /\ Knows(p, {})
    /\ up' = Died({p})
    /\ \/ /\ holder = p /\ Leave
          /\ unsynced' = unsynced \cup Dangles
          /\ deploy' = IF at = "mark" THEN Abandoned(job) ELSE deploy
       \/ holder # p /\ UNCHANGED <<section, unsynced, deploy>>
    /\ Fault
    /\ UNCHANGED <<files, bytesDisk, metaDisk, reservations, expired, history>>

\* The host goes down: of each file either the synced entry is left or the one
\* renamed since.  When everything is synced, that is the death of every process.
Survives(now, disk) == {f \in [DOMAIN now -> {now[k] : k \in DOMAIN now} \cup {disk[k] : k \in DOMAIN disk}] :
                          \A k \in DOMAIN now : f[k] \in {now[k], disk[k]}}

\* The unsynced metadata that the loss takes back.
Reverted(now, later) == {k \in unsynced : later[k] # now[k]}

PowerLoss ==
    /\ <<bytes, meta, caps>> # <<bytesDisk, metaDisk, capsDisk>>
    /\ bytes' \in Survives(bytes, bytesDisk) /\ bytesDisk' = bytes'
    /\ meta' \in Survives(meta, metaDisk) /\ metaDisk' = meta'
    /\ caps' \in {caps, capsDisk} /\ capsDisk' = caps'
    /\ known' = [p \in Procs |-> {}]
    /\ up' = Died(Procs)
    /\ deploy' = IF at = "mark" THEN Abandoned(job) ELSE deploy
    /\ Leave
    /\ unsynced' = {}
    /\ LET gone == Reverted(meta, meta')
       IN  undone' = undone \cup (acked \cap gone) \cup {d \in recorded : Mine(d) \in gone}
    /\ losses < MaxLosses /\ losses' = losses + 1
    /\ UNCHANGED <<expired, acked, recorded, replaced, faults>>

\* The volume corrupts the bytes of an object.
Rot(k) ==
    /\ bytes[k] = "good" /\ bytesDisk[k] = "good" /\ Present(meta[k])
    /\ bytes' = [bytes EXCEPT ![k] = "bad"] /\ bytesDisk' = [bytesDisk EXCEPT ![k] = "bad"]
    /\ Fault
    /\ UNCHANGED <<meta, metaDisk, unsynced, reservations, expired, known, up, deploy, section,
                   history>>

-----------------------------------------------------------------------------
Upload(t) ==
    \/ Put(t) \/ PutReconciled(t) \/ PutAgain(t) \/ Check(t) \/ CheckDone(t) \/ UploadFails(t)
    \/ CommitExisting(t) \/ CommitGone(t) \/ CommitOverQuota(t) \/ CommitBytes(t)
    \/ CommitMetadata(t) \/ CommitReservations(t) \/ CommitEnd(t) \/ RefuseEnd(t)
    \/ Revoke(t) \/ RevokeEnd(t)

Plan(p) == \E as \in Bundles[p] : PlanBegin(p, as)

Next ==
    \/ \E p \in Procs : Plan(p) \/ Crash(p)
    \/ PlanReserve \/ PlanRefused \/ PlanEnd \/ SweepEnd
    \/ \E t \in Tokens : Upload(t) \/ Expire(t)
    \/ \E d \in Deployments : Verify(d) \/ MarkEnd(d) \/ MarkNothing(d) \/ \E p \in Procs : Mark(p, d)
    \/ SectionFails \/ PowerLoss
    \/ \E k \in Keys : Rot(k)

Spec == Init /\ [][Next]_vars

-----------------------------------------------------------------------------
\* However plans and uploads of processes with different quotas interleave, die
\* and lose power, the objects stored and reserved fit the largest quota and
\* the reservations their limit: a reservation is made, and an upload
\* committed, only when they fit together with everybody else's
\* (#enforceStoredQuotas, #enforcePendingBounds).
QuotaHeld ==
    /\ Cardinality(caps) <= MaxPending
    /\ \E p \in Procs : Cardinality(Counted(caps)) <= Quota[p]

\* What a caller was told stays true over deaths, failing system calls, corrupted
\* bytes and power losses: an upload answered 201 has its metadata and bytes, and
\* a recorded deployment is in its asset's list or the list has turned into
\* indefinite retention.  Two things break it, and nothing else does:
\*  - an upload rewrites the metadata, because the bytes have rotted or the object
\*    is uploaded under another identity, and starts an empty list with
\*    retainIndefinitely false (#commitStagedUpload, filesystem-store.ts:506-516),
\*    although "every current or future collector must retain this asset"
\*    (filesystem-layout.ts:36);
\*  - a section fails between the rename of the metadata and its sync, a later
\*    upload or deployment finds the metadata and is answered on the strength of it
\*    (filesystem-store.ts:477-484), and the power goes before anybody syncs.
PromisesKept ==
    /\ \A k \in acked : (Present(meta[k]) /\ bytes[k] # "none") \/ k \in undone
    /\ \A d \in recorded : Remembers(meta[Mine(d)], d) \/ d \in replaced \cup undone
=============================================================================
