--------------------------- MODULE DeviceLifetime ---------------------------
(***************************************************************************)
(* Lifetime of the adapter, of the decoder session and of everything that  *)
(* holds a reference to either: legacy files of the character device, V4L2 *)
(* leases with their close worker, the PCI core's probe, remove, suspend   *)
(* and resume callbacks, and the module itself.                            *)
(*                                                                         *)
(*   crystalhd_lnx.c   device lock, user lock, legacy gate, open / ioctl / *)
(*                     close, fail_closed, quarantine, PCI callbacks       *)
(*   crystalhd_cmds.c  session acquire / release, user slots, PM           *)
(*   crystalhd_hw.c    open, close, fatal stop                             *)
(*   crystalhd_v4l2.c  lease reference counts and the close worker         *)
(*                                                                         *)
(* A step that runs under the exclusive user lock, or under the write side *)
(* of the device lock, is one action: nobody who takes those locks sees    *)
(* its middle.  What others do see in the middle (`present', the lease     *)
(* fields, which use other locks) is split into actions of its own.  A     *)
(* function that can fail half way is an operator from the state it starts *)
(* in to the set of its outcomes [d, ok]; every hardware or allocation     *)
(* failure takes one unit of the budget MaxFail.                           *)
(***************************************************************************)
EXTENDS Integers, FiniteSets

CONSTANTS
    Files,          \* open files of the legacy character device
    Leases,         \* crystalhd_v4l2_ctx objects
    MaxOpens,       \* BC_LINK_MAX_OPENS: user slots of the command context
    MaxGen,         \* bound on probes (chd_device_generation)
    MaxFail,        \* bound on hardware and allocation failures
    SessionGuard,   \* module parameter session_l0s_off
    NONE            \* the NULL pointer

ASSUME BoundAssumption ==
    /\ MaxOpens \in Nat \ {0} /\ MaxGen \in Nat /\ MaxFail \in Nat
    /\ SessionGuard \in BOOLEAN

ASSUME IdentityAssumption ==
    /\ NONE \notin Leases /\ NONE \notin Files
    /\ Leases \cap (0 .. MaxOpens) = {} /\ NONE \notin 0 .. MaxOpens

Slots == 1 .. MaxOpens

VARIABLES
    dev,     \* the adapter, its command context and the physical device
    gen,     \* chd_device_generation
    slot,    \* ctx->user[]: [used, mode]
    file,    \* crystalhd_file: [gen, slot]; gen 0 when the file is not open
    op,      \* the operation a file's thread is in, or "none"
    input,   \* the file's second thread, waits in PROC_INPUT for FIFO space
    gate,    \* the file that holds legacy_gate waiting for the write lock
    lease,   \* crystalhd_v4l2_ctx records
    pci,     \* what the PCI device lock's holder is doing
    mod      \* the module: live, going (exit has begun), gone

vars == <<dev, gen, slot, file, op, input, gate, lease, pci, mod>>
userVars == <<slot, file, op, input, gate>>

Kinds == {"open", "monitor", "play", "download", "receive", "release", "close"}
PciPhases == {"idle", "failing", "failed", "removing", "removed"}
Flags == {"INIT", "SUSPEND", "RESUME"}

Adapter ==
    [bound : BOOLEAN,       \* g_adp_info
     present : BOOLEAN,     \* adp->present
     access : BOOLEAN,      \* adp->hw_accessible
     quiesced : BOOLEAN,    \* adp->dma_terminal_quiesced
     cmdsAdp : BOOLEAN,     \* ctx->adp: the command context exists
     v4l2 : BOOLEAN,        \* adp->v4l2: the parent is registered
     quar : BOOLEAN,        \* chd_dma_quarantine
     susp : BOOLEAN,        \* system asleep: user tasks are frozen
     users : 0 .. MaxOpens, \* adp->cfg_users
     hw : BOOLEAN,          \* ctx->hw_ctx
     fault : BOOLEAN,       \* hw->dma_fault
     rings : BOOLEAN,       \* session pools and DMA rings
     owner : Slots \cup Leases \cup {NONE},  \* ctx->session_owner
     life : Leases \cup {NONE},              \* ctx->session_lifetime_owner
     put : Leases \cup {NONE},               \* owner whose ops->put is due
     pinned : BOOLEAN,      \* ctx->session_module_pinned
     state : SUBSET Flags,  \* ctx->state; {} is BC_LINK_INVALID
     l0s : BOOLEAN,         \* adp->l0s.session_active
     master : BOOLEAN,      \* bus mastering is enabled in the device
     busy : BOOLEAN,        \* a DMA engine works on posted descriptors
     fails : 0 .. MaxFail]

Absent0 ==
    [bound |-> FALSE, present |-> FALSE, access |-> FALSE, quiesced |-> FALSE,
     cmdsAdp |-> FALSE, v4l2 |-> FALSE, quar |-> FALSE, susp |-> FALSE,
     users |-> 0, hw |-> FALSE, fault |-> FALSE, rings |-> FALSE,
     owner |-> NONE, life |-> NONE, put |-> NONE, pinned |-> FALSE,
     state |-> {}, l0s |-> FALSE, master |-> FALSE, busy |-> FALSE,
     fails |-> 0]

NewLease ==
    [gen |-> 0, refs |-> 0, base |-> FALSE, owner |-> "NEVER", core |-> FALSE,
     closing |-> FALSE, active |-> FALSE, kick |-> FALSE, done |-> FALSE,
     pending |-> FALSE, phase |-> "off"]

FreeSlot == [used |-> FALSE, mode |-> "INV"]

Init ==
    /\ dev = Absent0
    /\ gen = 0
    /\ slot = [s \in Slots |-> FreeSlot]
    /\ file = [f \in Files |-> [gen |-> 0, slot |-> 0]]
    /\ op = [f \in Files |-> "none"]
    /\ input = [f \in Files |-> FALSE]
    /\ gate = NONE
    /\ lease = [l \in Leases |-> NewLease]
    /\ pci = "idle"
    /\ mod = "live"

-----------------------------------------------------------------------------
(* Outcomes of a function and their composition.                           *)

Ok(d) == [d |-> d, ok |-> TRUE]
Bad(d) == [d |-> d, ok |-> FALSE]

\* F runs on every success of S; failures are final.
Then(S, F(_)) == UNION {IF r.ok THEN F(r.d) ELSE {r} : r \in S}

\* F cleans up after every failure of S, whose status stays a failure.
OnError(S, F(_)) ==
    UNION {IF r.ok THEN {r} ELSE {Bad(x.d) : x \in F(r.d)} : r \in S}

\* A call that succeeds with d, or, failures permitting, ends in one of bad.
MayFail(d, bad) ==
    {Ok(d)} \cup {Bad([b EXCEPT !.fails = @ + 1]) :
                     b \in {x \in bad : x.fails < MaxFail}}

-----------------------------------------------------------------------------
(* The device: crystalhd_hw.c and the PCI helpers of crystalhd_lnx.c.      *)

\* Masters off, unless the unchecked configuration write was lost.
MasterMaybeOff(d) == {[d EXCEPT !.master = m] : m \in {FALSE, d.master}}

crystalhd_hw_publish_fault(d) == [d EXCEPT !.fault = TRUE, !.present = FALSE]

crystalhd_hw_dma_fatal_stop(d) ==
    MasterMaybeOff(crystalhd_hw_publish_fault(d))

\* Stop capture, cancel all TX, StopDevice: each one stops the engines or
\* ends in a fatal stop.
StopEngines(d) ==
    MayFail([d EXCEPT !.busy = FALSE], crystalhd_hw_dma_fatal_stop(d))

crystalhd_hw_close(d) ==
    IF d.fault THEN {Bad(d)} ELSE StopEngines(d)

\* StartDevice resets the engines before mastering is enabled.
crystalhd_hw_open(d) ==
    MayFail([d EXCEPT !.hw = TRUE, !.fault = FALSE,
                      !.busy = FALSE, !.master = TRUE], {d})

chd_dec_clear_master_and_drain(d) ==
    MayFail([d EXCEPT !.master = FALSE], MasterMaybeOff(d))

crystalhd_l0s_session_stop(d) ==
    IF ~d.l0s THEN {Ok(d)} ELSE MayFail([d EXCEPT !.l0s = FALSE], {d})

\* Failing after the raw bits were written leaves the override active.
crystalhd_l0s_session_start(d) ==
    IF d.l0s THEN {Bad(d)}
    ELSE MayFail([d EXCEPT !.l0s = TRUE], {d, [d EXCEPT !.l0s = TRUE]})

chd_dec_set_master_checked(d) ==
    MayFail([d EXCEPT !.master = TRUE], {[d EXCEPT !.master = TRUE], d})

crystalhd_session_l0s_begin(d) ==
    IF ~SessionGuard THEN {Ok(d)}
    ELSE LET Rollback(e) == Then(chd_dec_clear_master_and_drain(e),
                                 crystalhd_l0s_session_stop)
             Master(e) == OnError(chd_dec_set_master_checked(e), Rollback)
         IN  Then(Then(chd_dec_clear_master_and_drain(d),
                       crystalhd_l0s_session_start), Master)

crystalhd_session_l0s_end(d) ==
    IF ~SessionGuard THEN {Ok(d)}
    ELSE Then(chd_dec_clear_master_and_drain(d), crystalhd_l0s_session_stop)

-----------------------------------------------------------------------------
(* The decoder session: crystalhd_cmds.c.                                  *)

crystalhd_ensure_hw_context(d) ==
    IF d.hw THEN {Ok(d)} ELSE crystalhd_hw_open(d)

crystalhd_session_setup(d) ==
    IF ~d.pinned THEN {Bad(d)} ELSE MayFail([d EXCEPT !.rings = TRUE], {d})

\* The context is freed, and the session's rings with it.
FreeContext(d, session) ==
    [d EXCEPT !.hw = FALSE, !.fault = FALSE, !.state = {},
              !.rings = @ /\ ~session]

\* Variant of crystalhd_retire_hw_context: frees the rings of a context whose
\* engines could not be stopped.
crystalhd_retire_hw_context_unstopped(d, session) ==
    IF ~d.hw THEN {Ok(d)} ELSE {Ok(FreeContext(d, session))}

crystalhd_retire_hw_context(d, session) ==
    IF ~d.hw THEN {Ok(d)}
    ELSE IF d.fault THEN {Bad(d)}
    ELSE LET Free(e) == {Ok(FreeContext(e, session))}
         IN  Then(Then(IF session THEN StopEngines(d) ELSE {Ok(d)},
                       crystalhd_hw_close), Free)

RetireSession(d) == crystalhd_retire_hw_context(d, TRUE)

\* Hands the lifetime owner to retired(); its put() is due (OwnerPut).
crystalhd_session_unpin(d) ==
    IF ~d.pinned THEN d
    ELSE [d EXCEPT !.put = d.life, !.life = NONE, !.pinned = FALSE]

Unpinned(d) == {Ok(crystalhd_session_unpin(d))}

crystalhd_session_retire_unpublished(d) ==
    IF d.owner # NONE \/ ~d.pinned THEN {Bad(d)}
    ELSE Then(Then(crystalhd_session_l0s_end(d), RetireSession), Unpinned)

\* The stages of an acquisition, each with its own way back.
EnsureOrUnpin(d) == OnError(crystalhd_ensure_hw_context(d), Unpinned)

SetupOrUnwind(d, had_hw) ==
    LET Unwind(e) == IF had_hw THEN Unpinned(e)
                     ELSE Then(crystalhd_retire_hw_context(e, FALSE), Unpinned)
    IN  OnError(crystalhd_session_setup(d), Unwind)

\* Variant of GuardOrRetire: a failed link rollback drops the module pin
\* although the rings are still there.
GuardOrUnpin(d) == OnError(crystalhd_session_l0s_begin(d), Unpinned)

GuardOrRetire(d) ==
    OnError(crystalhd_session_l0s_begin(d), crystalhd_session_retire_unpublished)

crystalhd_session_acquire_locked(d, o) ==
    IF d.owner # NONE \/ d.state # {} \/ d.pinned \/ d.life # NONE
         \/ mod # "live"                       \* try_module_get
    THEN {Bad(d)}
    ELSE LET Setup(e) == SetupOrUnwind(e, d.hw)
             Publish(e) == {Ok([e EXCEPT !.owner = o])}
         IN  Then(Then(Then(EnsureOrUnpin([d EXCEPT !.pinned = TRUE]), Setup),
                       GuardOrRetire), Publish)

\* The lease becomes the lifetime owner of the pin this attempt took, even
\* when the attempt fails and has to keep it.
crystalhd_session_acquire_ref_locked(d, l) ==
    {IF ~d.pinned /\ r.d.pinned
     THEN [d |-> [r.d EXCEPT !.life = l], ok |-> r.ok] ELSE r :
        r \in crystalhd_session_acquire_locked(d, l)}

crystalhd_session_release_locked(d, o) ==
    LET Disown(e) == {Ok(crystalhd_session_unpin([e EXCEPT !.owner = NONE]))}
    IN  IF d.owner = o
        THEN Then(Then(RetireSession(d), crystalhd_session_l0s_end), Disown)
        ELSE IF d.owner = NONE /\ d.life = o /\ d.pinned
        THEN crystalhd_session_retire_unpublished(d)
        ELSE {Bad(d)}

crystalhd_fw_download_locked(d, o) ==
    IF d.hw /\ d.owner = o /\ d.state \in {{}, {"RESUME"}}
    THEN MayFail([d EXCEPT !.state = @ \cup {"INIT"}], {d})
    ELSE {Bad(d)}

crystalhd_suspend(d) ==
    LET Mark(e) == {Ok([e EXCEPT !.state = {"SUSPEND"}])}
    IN  IF d.state = {} \/ (d.hw /\ "SUSPEND" \in d.state) THEN {Ok(d)}
        ELSE IF ~d.hw \/ d.fault THEN {Bad(d)}
        ELSE Then(Then(StopEngines(d), Mark), crystalhd_hw_close)

\* hw_resume restarts the device; a configured session needs a new download.
crystalhd_resume(d) ==
    IF ~d.hw THEN {IF d.state = {} THEN Ok(d) ELSE Bad(d)}
    ELSE IF d.fault THEN {Bad(d)}
    ELSE MayFail([d EXCEPT !.busy = FALSE,
                     !.state = IF @ = {} THEN {} ELSE {"RESUME"}], {d})

\* Terminal cleanup: no hardware access; mastering is off or nothing is left.
crystalhd_delete_cmd_context(d) ==
    IF d.hw /\ d.fault /\ ~d.quiesced /\ d.rings THEN d
    ELSE crystalhd_session_unpin(
            [d EXCEPT !.hw = FALSE, !.fault = FALSE, !.rings = FALSE,
                      !.state = {}, !.owner = NONE, !.cmdsAdp = FALSE])

-----------------------------------------------------------------------------
(* The lease's own record: crystalhd_v4l2.c, under parent->close_lock.     *)

\* The parent is this adapter's and not disconnected.
Connected(l) == dev.v4l2 /\ lease[l].gen = gen

\* Variant of crystalhd_v4l2_queue_close_locked: every kick queues the work.
crystalhd_v4l2_queue_close_always(r) ==
    IF ~r.closing \/ r.done THEN r
    ELSE [r EXCEPT !.kick = TRUE, !.active = TRUE, !.refs = @ + 1,
                   !.phase = "queued"]

crystalhd_v4l2_queue_close_locked(r) ==
    IF ~r.closing \/ r.done THEN r
    ELSE IF r.active THEN [r EXCEPT !.kick = TRUE]
    ELSE [r EXCEPT !.kick = TRUE, !.active = TRUE, !.refs = @ + 1,
                   !.phase = "queued"]

crystalhd_v4l2_owner_get(r) ==
    [r EXCEPT !.refs = @ + 1, !.core = TRUE, !.owner = "HELD"]

crystalhd_v4l2_owner_retired(r) ==
    crystalhd_v4l2_queue_close_locked([r EXCEPT !.owner = "RETIRED"])

crystalhd_v4l2_owner_put(r) ==
    crystalhd_v4l2_queue_close_locked(
        [r EXCEPT !.refs = @ - 1, !.core = FALSE])

\* Variant of crystalhd_v4l2_ctx_retired: the core's reference is not asked.
crystalhd_v4l2_ctx_retired_early(r) == r.owner \in {"NEVER", "RETIRED"}

crystalhd_v4l2_ctx_retired(r) == ~r.core /\ r.owner \in {"NEVER", "RETIRED"}

\* Every pending lease of the parent is kicked.
KickPending(ls) ==
    [l \in Leases |-> IF ls[l].pending /\ ls[l].gen = gen
                      THEN crystalhd_v4l2_queue_close_locked(ls[l]) ELSE ls[l]]

\* The leases after a session operation took dev to d: a new lifetime owner
\* is referenced, a dropped one is told that it retired.
Adopted(d) ==
    [l \in Leases |->
        IF d.life = l /\ dev.life # l THEN crystalhd_v4l2_owner_get(lease[l])
        ELSE IF d.put = l THEN crystalhd_v4l2_owner_retired(lease[l])
        ELSE lease[l]]

\* ops->put(): the thread that retired the owner still holds its locks, only
\* the close worker and ctx_close can run before it.
OwnerPut ==
    /\ dev.put # NONE
    /\ lease' = [lease EXCEPT ![dev.put] = crystalhd_v4l2_owner_put(@)]
    /\ dev' = [dev EXCEPT !.put = NONE]
    /\ UNCHANGED <<gen, userVars, pci, mod>>

-----------------------------------------------------------------------------
(* Legacy files: crystalhd_lnx.c.  An operation takes the device lock for  *)
(* reading (LegacyBegin), then the gate and the user lock.  Unless a V4L2  *)
(* lease owns the session, an exclusive operation keeps the gate while it  *)
(* waits for the write side of the user lock (LegacyUpgrade).              *)

Readers == {f \in Files : input[f]}

\* The writer that waits for, or holds, the device lock excludes new readers.
DeviceReadable == pci = "idle"

\* Variant of Bound: a file of an earlier generation is served.
BoundIgnoringGeneration(f) == dev.bound /\ file[f].gen > 0

\* The binding's generation is the current adapter's.
Bound(f) == dev.bound /\ file[f].gen > 0 /\ file[f].gen = gen

\* Bound on the callers: an ioctl is tried when the file's mode and ownership
\* permit it at that moment; whether they still do when the locks are held is
\* left to what the others do meanwhile.
Useful(f, k) ==
    LET s == file[f].slot IN
    /\ k \in {"monitor", "play"} => slot[s].mode = "INV"
    /\ k = "release" => slot[s].mode # "INV"
    /\ k \in {"download", "receive"} => slot[s].mode = "PLAY"
    /\ k = "receive" => input[f]

LegacyBegin(f, k) ==
    /\ op[f] = "none" /\ ~dev.susp /\ DeviceReadable
    /\ CASE k = "open" ->
              file[f].gen = 0 /\ dev.bound /\ dev.present /\ mod = "live"
         [] k = "close" -> Bound(f)
         [] OTHER -> /\ Bound(f) /\ dev.present /\ file[f].slot # 0
                     /\ Useful(f, k)
    /\ k = "close" => ~input[f]      \* every ioctl holds the file
    /\ op' = [op EXCEPT ![f] = k]
    /\ UNCHANGED <<dev, gen, slot, file, input, gate, lease, pci, mod>>

\* Close of a file whose adapter is gone touches nothing.
CloseStale(f) ==
    /\ op[f] = "none" /\ ~dev.susp /\ DeviceReadable
    /\ file[f].gen > 0 /\ ~Bound(f) /\ ~input[f]
    /\ file' = [file EXCEPT ![f] = [gen |-> 0, slot |-> 0]]
    /\ UNCHANGED <<dev, gen, slot, op, input, gate, lease, pci, mod>>

\* Variant of TxStopping: the token is published once the lock is held.
TxStoppingLate(f) == op[f] = "release" /\ gate = f /\ Readers = {}

\* Another thread of the file inside RELEASE has published tx_stopping.
TxStopping(f) == op[f] = "release"

NativeOwned == dev.owner # NONE /\ dev.owner = dev.life

\* legacy_enter's first half: gate and user lock, both free.
GateOpen(f) ==
    op[f] # "none" /\ ~dev.susp /\ gate = NONE /\ dev.put = NONE

FreshSlot == CHOOSE s \in Slots : /\ ~slot[s].used
                                  /\ \A t \in Slots : ~slot[t].used => s <= t

SlotAvailable == dev.users < MaxOpens /\ \E s \in Slots : ~slot[s].used

\* The file is bound to a fresh slot.
BindSlot(f) ==
    /\ slot' = [slot EXCEPT ![FreshSlot] = [used |-> TRUE, mode |-> "INV"]]
    /\ file' = [file EXCEPT ![f] = [gen |-> gen, slot |-> FreshSlot]]

DropUser(d) == [d EXCEPT !.users = IF @ > 0 THEN @ - 1 ELSE 0]

\* RELEASE clears the binding's user, close forgets the whole binding.
Unbind(f) ==
    file' = [file EXCEPT ![f] = IF op[f] = "close" THEN [gen |-> 0, slot |-> 0]
                                ELSE [@ EXCEPT !.slot = 0]]

\* The lease's session: slots are kept under gate and the shared user lock;
\* hardware and session stay as they are.
NativeBody(f) ==
    LET s == file[f].slot IN
    /\ GateOpen(f) /\ NativeOwned
    /\ \/ /\ op[f] = "open" /\ dev.present /\ SlotAvailable
          /\ BindSlot(f)
          /\ dev' = [dev EXCEPT !.users = @ + 1]
       \/ /\ op[f] = "monitor" /\ dev.present /\ slot[s].mode = "INV"
          /\ slot' = [slot EXCEPT ![s].mode = "MON"]
          /\ UNCHANGED <<dev, file>>
       \/ /\ \/ op[f] = "release" /\ dev.present /\ slot[s].mode # "INV"
             \/ op[f] = "close" /\ s # 0
          /\ slot' = [slot EXCEPT ![s] = FreeSlot]
          /\ Unbind(f)
          /\ dev' = DropUser(dev)
       \/ /\ op[f] = "close" /\ s = 0
          /\ Unbind(f)
          /\ UNCHANGED <<dev, slot>>
       \/ /\ \/ ~dev.present /\ op[f] # "close"
             \/ op[f] = "open" /\ ~SlotAvailable
             \/ op[f] \in {"play", "download", "receive"}
             \/ op[f] = "monitor" /\ slot[s].mode # "INV"
             \/ op[f] = "release" /\ slot[s].mode = "INV"
          /\ UNCHANGED <<dev, slot, file>>
    /\ op' = [op EXCEPT ![f] = "none"]
    /\ UNCHANGED <<gen, input, gate, lease, pci, mod>>

\* A receive ioctl is a short reader; a picture taken from the owner's
\* session lets the decoder consume input again, and the input ends.
ReceiveBody(f) ==
    /\ GateOpen(f) /\ ~NativeOwned /\ op[f] = "receive"
    /\ input' = IF dev.present /\ dev.owner = file[f].slot
                THEN [input EXCEPT ![f] = FALSE] ELSE input
    /\ op' = [op EXCEPT ![f] = "none"]
    /\ UNCHANGED <<dev, gen, slot, file, gate, lease, pci, mod>>

LegacyUpgrade(f) ==
    /\ GateOpen(f) /\ ~NativeOwned /\ op[f] # "receive"
    /\ gate' = f
    /\ UNCHANGED <<dev, gen, slot, file, op, input, lease, pci, mod>>

\* The write side of the user lock is granted and the gate is dropped.
Exclusive(f) ==
    /\ gate = f /\ dev.put = NONE /\ ~dev.susp /\ Readers = {}
    /\ gate' = NONE
    /\ op' = [op EXCEPT ![f] = "none"]
    /\ lease' = Adopted(dev')
    /\ UNCHANGED <<gen, input, pci, mod>>

OpenBody(f) ==
    /\ op[f] = "open" /\ dev.present /\ SlotAvailable
    /\ \E r \in crystalhd_ensure_hw_context(dev) :
          \/ /\ r.ok
             /\ dev' = [r.d EXCEPT !.users = @ + 1]
             /\ BindSlot(f)
          \/ ~r.ok /\ dev' = r.d /\ UNCHANGED <<slot, file>>
    /\ Exclusive(f)

MonitorBody(f) ==
    LET s == file[f].slot IN
    /\ op[f] = "monitor" /\ dev.present
    /\ slot[s].mode = "INV" /\ dev.owner # s
    /\ slot' = [slot EXCEPT ![s].mode = "MON"]
    /\ UNCHANGED <<dev, file>>
    /\ Exclusive(f)

PlayBody(f) ==
    LET s == file[f].slot
        Claim(e) == crystalhd_session_acquire_locked(e, s) IN
    /\ op[f] = "play" /\ dev.present
    /\ slot[s].mode = "INV" /\ dev.owner # s /\ dev.state = {}
    /\ \A t \in Slots : slot[t].mode # "PLAY"
    /\ dev.owner = NONE
    /\ \E r \in Then(crystalhd_ensure_hw_context(dev), Claim) :
          /\ dev' = r.d
          /\ slot' = IF r.ok THEN [slot EXCEPT ![s].mode = "PLAY"] ELSE slot
    /\ UNCHANGED file
    /\ Exclusive(f)

DownloadBody(f) ==
    /\ op[f] = "download" /\ dev.present
    /\ dev' \in {r.d : r \in crystalhd_fw_download_locked(dev, file[f].slot)}
    /\ UNCHANGED <<slot, file>>
    /\ Exclusive(f)

\* The last handle also retires what a failed acquisition left behind.
crystalhd_user_close(s) ==
    LET others == \E t \in Slots \ {s} : slot[t].used
    IN  {DropUser(r.d) : r \in
            IF dev.owner = s THEN crystalhd_session_release_locked(dev, s)
            ELSE IF dev.owner # NONE \/ others THEN {Ok(dev)}
            ELSE IF dev.pinned THEN crystalhd_session_retire_unpublished(dev)
            ELSE RetireSession(dev)}

ReleaseBody(f) ==
    LET s == file[f].slot IN
    /\ op[f] = "release" /\ dev.present /\ slot[s].mode # "INV"
    /\ dev' \in crystalhd_user_close(s)
    /\ slot' = [slot EXCEPT ![s] = FreeSlot]
    /\ Unbind(f)
    /\ Exclusive(f)

\* A failed device only gives the slot back: its context may be retired.
CloseBody(f) ==
    LET s == file[f].slot IN
    /\ op[f] = "close"
    /\ dev' \in IF s = 0 THEN {dev}
                ELSE IF dev.present THEN crystalhd_user_close(s)
                ELSE {DropUser(dev)}
    /\ slot' = IF s = 0 THEN slot ELSE [slot EXCEPT ![s] = FreeSlot]
    /\ Unbind(f)
    /\ Exclusive(f)

\* Every refusal: the device failed while the operation waited, no slot, a
\* mode that is set or taken, another owner.
RefusedBody(f) ==
    LET s == file[f].slot IN
    /\ \/ ~dev.present /\ op[f] # "close"
       \/ op[f] = "open" /\ ~SlotAvailable
       \/ op[f] = "release" /\ slot[s].mode = "INV"
       \/ op[f] \in {"monitor", "play"}
             /\ (slot[s].mode # "INV" \/ dev.owner = s)
       \/ op[f] = "play" /\ \/ dev.state # {} \/ dev.owner # NONE
                            \/ \E t \in Slots : slot[t].mode = "PLAY"
    /\ UNCHANGED <<dev, slot, file>>
    /\ Exclusive(f)

LegacyBody(f) ==
    \/ OpenBody(f) \/ MonitorBody(f) \/ PlayBody(f) \/ DownloadBody(f)
    \/ ReleaseBody(f) \/ CloseBody(f) \/ RefusedBody(f)

\* PROC_INPUT of the owner: posts a list and waits, a reader of both locks.
InputBegin(f) ==
    /\ ~input[f] /\ op[f] # "close" /\ ~TxStopping(f)
    /\ ~dev.susp /\ DeviceReadable /\ gate = NONE /\ dev.put = NONE
    /\ Bound(f) /\ dev.present /\ file[f].slot # 0
    /\ dev.owner = file[f].slot /\ dev.rings /\ "INIT" \in dev.state
    /\ input' = [input EXCEPT ![f] = TRUE]
    /\ dev' = [dev EXCEPT !.busy = TRUE]
    /\ UNCHANGED <<gen, slot, file, op, gate, lease, pci, mod>>

\* The FIFO can also drain without anyone fetching a picture.
InputDrains(f) ==
    /\ input[f]
    /\ input' = [input EXCEPT ![f] = FALSE]
    /\ UNCHANGED <<dev, gen, slot, file, op, gate, lease, pci, mod>>

\* Cancelled by this file's RELEASE or by the loss of the device.
InputEnd(f) ==
    /\ input[f] /\ (TxStopping(f) \/ ~dev.present)
    /\ input' = [input EXCEPT ![f] = FALSE]
    /\ UNCHANGED <<dev, gen, slot, file, op, gate, lease, pci, mod>>

-----------------------------------------------------------------------------
(* Leases of the V4L2 node and their close worker.                         *)

crystalhd_v4l2_ctx_create(l) ==
    /\ lease[l].gen = 0 /\ ~dev.susp /\ dev.v4l2 /\ mod = "live"
    /\ lease' = [lease EXCEPT ![l] = [NewLease EXCEPT
                    !.gen = gen, !.refs = 1, !.base = TRUE]]
    /\ UNCHANGED <<dev, gen, userVars, pci, mod>>

\* try_enter_exclusive: never waits, neither for a device writer, nor for a
\* legacy operation at the gate, nor for a reader of the user lock.
crystalhd_v4l2_ctx_acquire(l) ==
    /\ lease[l].base /\ ~lease[l].closing /\ Connected(l) /\ ~dev.susp
    /\ DeviceReadable /\ dev.present /\ dev.access
    /\ gate = NONE /\ Readers = {} /\ dev.put = NONE
    /\ dev' \in {r.d : r \in crystalhd_session_acquire_ref_locked(dev, l)}
    /\ lease' = Adopted(dev')
    /\ UNCHANGED <<gen, userVars, pci, mod>>

\* The lease's established session: firmware, then descriptors.
LeaseEnter(l) ==
    /\ lease[l].base /\ Connected(l) /\ ~dev.susp /\ dev.owner = l
    /\ DeviceReadable /\ dev.present /\ dev.access /\ dev.put = NONE

LeaseDownload(l) ==
    /\ LeaseEnter(l) /\ Readers = {}
    /\ dev' \in {r.d : r \in crystalhd_fw_download_locked(dev, l)}
    /\ dev' # dev
    /\ UNCHANGED <<gen, userVars, lease, pci, mod>>

LeasePost(l) ==
    /\ LeaseEnter(l) /\ gate = NONE
    /\ dev.rings /\ "INIT" \in dev.state /\ ~dev.busy
    /\ dev' = [dev EXCEPT !.busy = TRUE]
    /\ UNCHANGED <<gen, userVars, lease, pci, mod>>

\* close_lock section of ctx_close; the caller's reference goes afterwards.
crystalhd_v4l2_ctx_close(l) ==
    LET r == lease[l] IN
    /\ r.base /\ ~r.closing /\ ~dev.susp
    /\ lease' = [lease EXCEPT ![l] = crystalhd_v4l2_queue_close_locked(
                    [r EXCEPT !.closing = TRUE, !.pending = TRUE,
                              !.refs = @ + 1])]
    /\ UNCHANGED <<dev, gen, userVars, pci, mod>>

LeaseBasePut(l) ==
    /\ lease[l].base /\ lease[l].closing
    /\ lease' = [lease EXCEPT ![l].base = FALSE, ![l].refs = @ - 1]
    /\ UNCHANGED <<dev, gen, userVars, pci, mod>>

\* The worker consumes the kick and decides whether to attempt a release.
WorkerStart(l) ==
    LET r == lease[l] IN
    /\ r.phase = "queued"
    /\ lease' = [lease EXCEPT ![l].kick = FALSE, ![l].phase =
                    IF ~crystalhd_v4l2_ctx_retired(r) /\ Connected(l)
                    THEN "try" ELSE "check"]
    /\ UNCHANGED <<dev, gen, userVars, pci, mod>>

\* device_enter, waiting for both locks; the worker is its own owner and
\* finishes retired() and put() before it looks again.
WorkerTry(l) ==
    /\ lease[l].phase = "try" /\ DeviceReadable /\ dev.put = NONE
    /\ dev.bound /\ dev.present /\ lease[l].gen = gen => Readers = {}
    /\ \E d \in IF dev.bound /\ dev.present /\ dev.access /\ Connected(l)
                THEN {r.d : r \in crystalhd_session_release_locked(dev, l)}
                ELSE {dev} :
          /\ dev' = [d EXCEPT !.put = NONE]
          /\ lease' = [lease EXCEPT ![l] =
                LET r == [@ EXCEPT !.phase = "check"] IN
                IF d.put # l THEN r
                ELSE crystalhd_v4l2_owner_put(crystalhd_v4l2_owner_retired(r))]
    /\ UNCHANGED <<gen, userVars, pci, mod>>

\* Variant of WorkerCheck: a kick that raced the attempt is dropped.
WorkerCheckLosesKick(l) ==
    LET r == lease[l] IN
    /\ r.phase = "check"
    /\ lease' = [lease EXCEPT ![l] =
          IF crystalhd_v4l2_ctx_retired(r)
          THEN [r EXCEPT !.done = TRUE, !.active = FALSE, !.kick = FALSE,
                         !.pending = FALSE, !.refs = @ - 2, !.phase = "off"]
          ELSE [r EXCEPT !.active = FALSE, !.refs = @ - 1, !.phase = "off"]]
    /\ UNCHANGED <<dev, gen, userVars, pci, mod>>

\* Commit the cleanup, run again for a kick that raced, or wait for one.
WorkerCheck(l) ==
    LET r == lease[l] IN
    /\ r.phase = "check"
    /\ lease' = [lease EXCEPT ![l] =
          IF crystalhd_v4l2_ctx_retired(r)
          THEN [r EXCEPT !.done = TRUE, !.active = FALSE, !.kick = FALSE,
                         !.pending = FALSE, !.refs = @ - 2, !.phase = "off"]
          ELSE IF r.kick THEN [r EXCEPT !.phase = "queued"]
          ELSE [r EXCEPT !.active = FALSE, !.refs = @ - 1, !.phase = "off"]]
    /\ UNCHANGED <<dev, gen, userVars, pci, mod>>

-----------------------------------------------------------------------------
(* PCI callbacks, serialized by the PCI device lock, and module exit.      *)

DeviceWritable ==
    dev.put = NONE /\ \A f \in Files : op[f] = "none" /\ ~input[f]

chd_dec_quiesce_terminal_dma(d) ==
    LET Proven(e) == {Ok([e EXCEPT !.quiesced = TRUE])}
    IN  IF d.quiesced THEN {Ok(d)}
        ELSE Then(chd_dec_clear_master_and_drain(d), Proven)

chd_dec_session_dma_absent(d) ==
    ~d.pinned /\ ~d.rings /\ d.owner = NONE /\ d.life = NONE

\* Retire the command context, or keep everything for a later safe removal.
chd_dec_fail_closed(d) ==
    {IF r.ok \/ chd_dec_session_dma_absent(r.d)
     THEN IF r.d.cmdsAdp THEN crystalhd_delete_cmd_context(r.d) ELSE r.d
     ELSE [r.d EXCEPT !.quar = TRUE] : r \in chd_dec_quiesce_terminal_dma(d)}

\* The temporary context is opened and closed; mastering ends enabled.
chd_dec_pci_probe ==
    /\ pci = "idle" /\ mod = "live" /\ DeviceWritable
    /\ ~dev.bound /\ ~dev.quar /\ gen < MaxGen
    /\ gen' = gen + 1
    /\ \E r \in MayFail([Absent0 EXCEPT !.bound = TRUE, !.present = TRUE,
                            !.access = TRUE, !.cmdsAdp = TRUE, !.v4l2 = TRUE,
                            !.master = TRUE, !.fails = dev.fails],
                        {[Absent0 EXCEPT !.fails = dev.fails]}) :
          dev' = r.d
    /\ slot' = [s \in Slots |-> FreeSlot]
    /\ UNCHANGED <<file, op, input, gate, lease, pci, mod>>

\* A PM callback failed: `present' falls under the user lock, the cleanup
\* needs the device lock and comes later.
FailPm(d) == dev' = [d EXCEPT !.present = FALSE] /\ pci' = "failing"

\* With the guard active, the link's original policy is restored first.
chd_restore_l0s(d) == IF d.l0s THEN MayFail(d, {d}) ELSE {Ok(d)}

chd_dec_pci_suspend ==
    LET Close(e) == {Ok([e EXCEPT !.access = FALSE])}
        Asleep(e) == {Ok([e EXCEPT !.susp = TRUE])}
    IN
    /\ pci = "idle" /\ mod = "live" /\ Readers = {} /\ dev.put = NONE
    /\ dev.bound /\ dev.present /\ ~dev.susp
    /\ \E r \in Then(Then(Then(Then(crystalhd_suspend(dev), Close),
                     chd_dec_clear_master_and_drain), chd_restore_l0s), Asleep) :
          IF r.ok THEN dev' = r.d /\ UNCHANGED pci ELSE FailPm(r.d)
    /\ UNCHANGED <<gen, userVars, lease, mod>>

\* Enabling the device, the link workaround and the interrupt come before
\* mastering, mastering before the decoder restarts.
chd_dec_pci_resume ==
    LET awake == [dev EXCEPT !.susp = FALSE, !.master = FALSE]
        Master(e) == IF e.hw /\ ~e.fault THEN chd_dec_set_master_checked(e)
                     ELSE {Ok(e)}
        Admit(e) == {Ok([e EXCEPT !.access = TRUE])}
    IN
    /\ pci = "idle" /\ dev.susp /\ dev.put = NONE
    /\ \E r \in Then(Then(Then(MayFail(awake, {awake}), Master),
                          crystalhd_resume), Admit) :
          \/ /\ r.ok
             /\ dev' = r.d
             /\ lease' = KickPending(lease)
             /\ UNCHANGED pci
          \/ ~r.ok /\ FailPm(r.d) /\ UNCHANGED lease
    /\ UNCHANGED <<gen, userVars, mod>>

\* The failed callback gets the device lock.
FailClosed ==
    /\ pci = "failing" /\ DeviceWritable
    /\ \E d \in chd_dec_fail_closed([dev EXCEPT !.present = FALSE]) :
          dev' = d
    /\ lease' = Adopted(dev')
    /\ pci' = "failed"
    /\ UNCHANGED <<gen, userVars, mod>>

\* Still under the device lock: disconnect the V4L2 parent and finish.
crystalhd_v4l2_unregister ==
    /\ pci \in {"failed", "removed"} /\ dev.put = NONE
    /\ lease' = IF dev.v4l2 THEN KickPending(lease) ELSE lease
    /\ dev' = IF pci = "failed" THEN [dev EXCEPT !.v4l2 = FALSE]
              ELSE IF dev.quar THEN [dev EXCEPT !.v4l2 = FALSE, !.bound = FALSE]
              ELSE [Absent0 EXCEPT !.fails = dev.fails]
    /\ slot' = IF dev'.bound THEN slot ELSE [s \in Slots |-> FreeSlot]
    /\ pci' = "idle"
    /\ UNCHANGED <<gen, file, op, input, gate, mod>>

\* Variant of RemoveBegin: `present' falls only once the lock is held.
RemoveBeginSilent ==
    /\ pci = "idle" /\ mod # "gone" /\ dev.bound /\ ~dev.susp
    /\ pci' = "removing"
    /\ UNCHANGED <<dev, gen, userVars, lease, mod>>

\* remove publishes `present' = 0 and then waits for every file operation.
RemoveBegin ==
    /\ pci = "idle" /\ mod # "gone" /\ dev.bound /\ ~dev.susp
    /\ dev' = [dev EXCEPT !.present = FALSE]
    /\ pci' = "removing"
    /\ UNCHANGED <<gen, userVars, lease, mod>>

\* A quarantine that this removal proves safe is lifted.
chd_dec_pci_remove ==
    /\ pci = "removing" /\ DeviceWritable
    /\ \E d \in chd_dec_fail_closed([dev EXCEPT !.quar = FALSE]) :
          dev' = d
    /\ lease' = Adopted(dev')
    /\ pci' = "removed"
    /\ UNCHANGED <<gen, userVars, mod>>

\* Users of the module: open files, leases that still exist, the session pin.
ModuleIdle ==
    /\ \A f \in Files : file[f].gen = 0 /\ op[f] = "none"
    /\ \A l \in Leases : lease[l].refs = 0
    /\ ~dev.pinned

chd_dec_module_cleanup ==
    /\ pci = "idle" /\ ~dev.susp
    /\ \/ mod = "live" /\ ModuleIdle /\ mod' = "going"
       \/ mod = "going" /\ ~dev.bound /\ mod' = "gone"
    /\ UNCHANGED <<dev, gen, userVars, lease, pci>>

\* An engine error seen by the interrupt handler: published without a lock.
HwFault ==
    /\ dev.bound /\ dev.hw /\ dev.busy /\ ~dev.fault /\ ~dev.susp
    /\ dev.fails < MaxFail
    /\ dev' = [crystalhd_hw_publish_fault(dev) EXCEPT !.fails = @ + 1]
    /\ UNCHANGED <<gen, userVars, lease, pci, mod>>

-----------------------------------------------------------------------------
FileStep(f) ==
    \/ \E k \in Kinds : LegacyBegin(f, k)
    \/ CloseStale(f) \/ NativeBody(f) \/ ReceiveBody(f) \/ LegacyUpgrade(f)
    \/ LegacyBody(f)
    \/ InputBegin(f) \/ InputDrains(f) \/ InputEnd(f)

LeaseStep(l) ==
    \/ crystalhd_v4l2_ctx_create(l) \/ crystalhd_v4l2_ctx_acquire(l)
    \/ LeaseDownload(l) \/ LeasePost(l)
    \/ crystalhd_v4l2_ctx_close(l) \/ LeaseBasePut(l)
    \/ WorkerStart(l) \/ WorkerTry(l) \/ WorkerCheck(l)

PciStep ==
    \/ chd_dec_pci_probe \/ chd_dec_pci_suspend \/ chd_dec_pci_resume
    \/ FailClosed \/ crystalhd_v4l2_unregister
    \/ RemoveBegin \/ chd_dec_pci_remove \/ chd_dec_module_cleanup

Next ==
    \/ \E f \in Files : FileStep(f)
    \/ \E l \in Leases : LeaseStep(l)
    \/ PciStep \/ OwnerPut \/ HwFault

\* A thread inside the driver runs, and gets a lock that is free again and
\* again (the kernel's mutexes and semaphores hand over to their waiters); a
\* queued work item is executed; a sleeping system wakes up.  Nobody is bound
\* to start an operation, and the FIFO is not bound to drain by itself.
Fairness ==
    /\ \A f \in Files :
          /\ SF_vars(NativeBody(f)) /\ SF_vars(ReceiveBody(f))
          /\ SF_vars(LegacyUpgrade(f)) /\ SF_vars(LegacyBody(f))
          /\ WF_vars(InputEnd(f))
    /\ \A l \in Leases :
          /\ WF_vars(WorkerStart(l)) /\ WF_vars(WorkerCheck(l))
          /\ SF_vars(WorkerTry(l)) /\ WF_vars(LeaseBasePut(l))
    /\ WF_vars(OwnerPut) /\ WF_vars(chd_dec_pci_resume)
    /\ WF_vars(FailClosed) /\ WF_vars(chd_dec_pci_remove)
    /\ WF_vars(crystalhd_v4l2_unregister)

Spec == Init /\ [][Next]_vars /\ Fairness

-----------------------------------------------------------------------------
LeaseType ==
    [gen : 0 .. MaxGen, refs : 0 .. 4, base : BOOLEAN,
     owner : {"NEVER", "HELD", "RETIRED"}, core : BOOLEAN, closing : BOOLEAN,
     active : BOOLEAN, kick : BOOLEAN, done : BOOLEAN, pending : BOOLEAN,
     phase : {"off", "queued", "try", "check"}]

(* Every variable has the type of the C object it models; in particular no *)
(* lease's kref underflows or counts more than its four possible holders.  *)
TypeOK ==
    /\ dev \in Adapter
    /\ gen \in 0 .. MaxGen
    /\ slot \in [Slots -> [used : BOOLEAN, mode : {"INV", "MON", "PLAY"}]]
    /\ file \in [Files -> [gen : 0 .. MaxGen, slot : 0 .. MaxOpens]]
    /\ op \in [Files -> Kinds \cup {"none"}]
    /\ input \in [Files -> BOOLEAN]
    /\ gate \in Files \cup {NONE}
    /\ lease \in [Leases -> LeaseType]
    /\ pci \in PciPhases
    /\ mod \in {"live", "going", "gone"}

(* DMA backing outlives DMA: whenever an engine still works on posted      *)
(* descriptors and the device can master the bus, the rings exist.  Every  *)
(* path that frees them (close, RELEASE, the close worker, a failed        *)
(* acquisition, failed power management, removal) is after a successful    *)
(* stop, or after a proven drain with mastering off, and mastering is not  *)
(* enabled again before the engines were reset.                            *)
NoFreeUnderDma == dev.busy /\ dev.master => dev.rings

(* Whatever the driver must still clean up keeps the module loaded: rings, *)
(* a published or a lifetime owner and a quarantined adapter imply the     *)
(* session's pin (the WARN_ONs of chd_dec_session_dma_absent and           *)
(* chd_dec_quarantine_dma never fire), the link override is never left     *)
(* behind on a usable device without a session, and an unloaded module     *)
(* leaves no context, no quarantine and no lease.                          *)
ResourcesPinned ==
    /\ \/ dev.rings \/ dev.owner # NONE \/ dev.life # NONE \/ dev.quar
       => dev.pinned
    /\ dev.l0s /\ dev.present => dev.pinned
    /\ mod = "gone" => /\ ~dev.pinned /\ ~dev.hw /\ ~dev.bound
                       /\ \A l \in Leases : lease[l].refs = 0

(* User slots survive every mix of RELEASE, close, failed power management *)
(* and re-probe: cfg_users is the number of used slots, and each used slot *)
(* belongs to exactly one file of the current adapter, so a close that     *)
(* arrives after removal and re-probe never frees another file's slot.     *)
SlotsAccounted ==
    dev.bound =>
        LET mine(s) == {f \in Files : file[f].gen = gen /\ file[f].slot = s} IN
        /\ dev.users = Cardinality({s \in Slots : slot[s].used})
        /\ \A s \in Slots : Cardinality(mine(s)) = IF slot[s].used THEN 1 ELSE 0

(* The kref of a lease counts its holders, and when the last one is gone   *)
(* nobody can reach the freed object: cleanup was committed, it is off the *)
(* pending list, no work item is queued, and neither the session nor a     *)
(* thread between retired() and put() still points to it.  The core's      *)
(* reference is never the last: put() runs under the device and session    *)
(* barriers, where the lease must not be destroyed.                        *)
LeaseNotUsedAfterFree ==
    \A l \in Leases :
        LET r == lease[l] n(b) == IF b THEN 1 ELSE 0 IN
        /\ r.refs = n(r.base) + n(r.core) + n(r.active) + n(r.pending)
        /\ r.core <=> l \in {dev.life, dev.put}
        /\ r.core => r.base \/ r.pending
        /\ r.gen > 0 /\ r.refs = 0 => r.done /\ r.phase = "off"

(* RELEASE of the decoder's owner ends although the same file's input      *)
(* waits for a full FIFO: it publishes tx_stopping before it waits for the *)
(* readers of the user lock.                                               *)
ReleaseCompletes ==
    \A f \in Files : op[f] = "release" /\ input[f] ~> op[f] = "none"

(* Removal ends: with `present' published first, every waiting input gives *)
(* up and every file operation leaves, so the device lock is obtained.     *)
RemoveCompletes == pci = "removing" ~> pci = "idle"

(* A closed lease is freed, whatever suspend, resume, removal or owner     *)
(* retirement its worker races with, as long as no hardware step failed:   *)
(* an attempt refused during suspend is retried after resume, and a kick   *)
(* that arrives while the worker runs is not lost.  A system that is put   *)
(* to sleep for ever again may refuse every attempt.                       *)
LeaseCleanup ==
    <>[](~dev.susp) =>
        \A l \in Leases :
            lease[l].closing ~> (lease[l].refs = 0 \/ dev.fails > 0)

(* A receive ioctl makes progress while an input waits for FIFO space.     *)
ReceiveProgress == \A f \in Files : op[f] = "receive" ~> op[f] = "none"
=============================================================================
