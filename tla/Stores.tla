-------------------------------- MODULE Stores --------------------------------
(***************************************************************************)
(* What the daemon keeps on disk: profiles.json, changed under profileMu,  *)
(* and config.json, changed by patches that nothing serialises.            *)
(* The daemon may die between any two steps and is started again.          *)
(*                                                                         *)
(* A profile is its id and its selected flag; an id is a name with a       *)
(* number, 1 for the name alone.  A configuration is the set of the        *)
(* patches it contains: each patch is about a setting of its own.          *)
(***************************************************************************)
EXTENDS Naturals, Sequences, FiniteSets

CONSTANTS
    Names,          \* slugs of profile names
    MaxProfiles,    \* bound: profiles that are kept
    Patches,        \* configuration requests
    MaxRequests     \* bound: requests and crashes

ASSUME StoreAssumption ==
    /\ Names # {} /\ IsFiniteSet(Names)
    /\ MaxProfiles \in Nat \ {0} /\ MaxRequests \in Nat
    /\ IsFiniteSet(Patches) /\ "torn" \notin Patches

VARIABLES
    profiles,   \* profiles.json: the list and selected_id
    disk,       \* the inodes of config.json and config.json.tmp
    mem,        \* the configuration in memory
    patch,      \* the patches in progress
    up,         \* the daemon runs
    requests,   \* requests so far
    overlap     \* history: two patches were in progress at once

vars == <<profiles, disk, mem, patch, up, requests, overlap>>

configVars == <<disk, mem, patch>>

NoId == <<>>
Ids == Names \X (1..(MaxProfiles + 1))

\* An inode that is truncated and not written yet.
Torn == {"torn"}
Settings == SUBSET Patches
NoInode == 0
Inodes == 1..(Cardinality(Patches) + 1)

IdsOf(pf) == {pf.list[i].id : i \in DOMAIN pf.list}

-----------------------------------------------------------------------------
(* profiles.json *)

\* selectProfileByID on a file that has the id.
Selecting(pf, id) ==
    [list |-> [i \in DOMAIN pf.list |-> [pf.list[i] EXCEPT !.selected = (pf.list[i].id = id)]],
     selected |-> id]

\* What a filter loop leaves of the list s: the elements at the indices in K, the n-th
\* being the one that has n indices of K up to its own.  (SelectSeq computes the same by
\* recursion, of which nothing can be proved.)
Kept(s, K) ==
    [n \in 1..Cardinality(K) |-> s[CHOOSE i \in K : Cardinality({j \in K : j <= i}) = n]]

\* selectedProfile: by selected_id, by flag, the first; the index, 0 for nil.
selectedProfile(pf) ==
    LET first(P(_)) == LET S == {i \in DOMAIN pf.list : P(i)}
                       IN  IF S = {} THEN 0 ELSE CHOOSE i \in S : \A j \in S : i <= j
        byId == first(LAMBDA i : pf.selected # NoId /\ pf.list[i].id = pf.selected)
        byFlag == first(LAMBDA i : pf.list[i].selected)
    IN  IF byId # 0 THEN byId ELSE IF byFlag # 0 THEN byFlag ELSE first(LAMBDA i : TRUE)

\* The profile in use, NoId for none.
InUse(pf) == IF selectedProfile(pf) = 0 THEN NoId ELSE pf.list[selectedProfile(pf)].id

\* The name, or the first free number from 2.
uniqueProfileID(pf, name) ==
    <<name, CHOOSE n \in 1..(MaxProfiles + 1) :
               /\ <<name, n>> \notin IdsOf(pf)
               /\ \A m \in 1..(n - 1) : <<name, m>> \in IdsOf(pf)>>

\* Mutation: an edited profile is written back without its selection.
upsertProfileForgets(pf, id, new, select) ==
    LET p == [id |-> id, selected |-> FALSE]
        next == [pf EXCEPT !.list = IF id \in IdsOf(pf) /\ ~new
                                    THEN [i \in DOMAIN @ |-> IF @[i].id = id THEN p ELSE @[i]]
                                    ELSE Append(@, p)]
    IN  IF select \/ pf.selected = NoId THEN Selecting(next, id) ELSE next

\* The profile replaces the one with its id or, a new one, is appended; it is selected on
\* demand, when none is, and when it already was.
upsertProfile(pf, id, new, select) ==
    LET p == [id |-> id, selected |-> FALSE]
        next == [pf EXCEPT !.list = IF id \in IdsOf(pf) /\ ~new
                                    THEN [i \in DOMAIN @ |-> IF @[i].id = id THEN p ELSE @[i]]
                                    ELSE Append(@, p)]
    IN  IF select \/ pf.selected \in {NoId, id} THEN Selecting(next, id) ELSE next

\* Mutation: the first of the remaining profiles is selected.
DeletingReselects(pf, id) ==
    LET l == Kept(pf.list, {i \in DOMAIN pf.list : pf.list[i].id # id})
    IN  IF l = <<>> THEN [list |-> l, selected |-> NoId]
        ELSE Selecting([list |-> l, selected |-> NoId], l[1].id)

Deleting(pf, id) ==
    [list |-> Kept(pf.list, {i \in DOMAIN pf.list : pf.list[i].id # id}),
     selected |-> IF pf.selected = id THEN NoId ELSE pf.selected]

-----------------------------------------------------------------------------
Files == [list: Seq([id: Ids, selected: BOOLEAN]), selected: Ids \cup {NoId}]

Disks == [data: [Inodes -> Settings \cup {Torn}], cfg: Inodes, tmp: Inodes \cup {NoInode}]

PatchJobs ==
    [pc: {"idle", "open", "write", "rename", "store", "done", "failed"},
     next: Settings, inode: Inodes \cup {NoInode}]

TypeOK ==
    /\ profiles \in Files /\ Len(profiles.list) <= MaxProfiles
    /\ disk \in Disks /\ mem \in Settings /\ patch \in [Patches -> PatchJobs]
    /\ up \in BOOLEAN /\ requests \in 0..MaxRequests /\ overlap \in BOOLEAN

NoPatch == [pc |-> "idle", next |-> {}, inode |-> NoInode]

\* The files as installed: one profile, selected.
Init ==
    /\ \E name \in Names :
         profiles = [list |-> <<[id |-> <<name, 1>>, selected |-> TRUE]>>, selected |-> <<name, 1>>]
    /\ disk = [data |-> [i \in Inodes |-> {}], cfg |-> 1, tmp |-> NoInode]
    /\ mem = {}
    /\ patch = [p \in Patches |-> NoPatch]
    /\ up = TRUE /\ requests = 0 /\ overlap = FALSE

Request ==
    /\ up /\ requests < MaxRequests
    /\ requests' = requests + 1
    /\ UNCHANGED up

profileFrame == <<configVars, overlap>>

\* Load, change and save under the mutex; a crash leaves the file of before.
SelectProfile(id) ==
    /\ Request /\ id \in IdsOf(profiles)
    /\ profiles' = Selecting(profiles, id)
    /\ UNCHANGED profileFrame

\* profile/save with an id, of the file or not.
SaveProfile(id, select) ==
    /\ Request /\ (id \in IdsOf(profiles) \/ Len(profiles.list) < MaxProfiles)
    /\ profiles' = upsertProfile(profiles, id, FALSE, select)
    /\ UNCHANGED profileFrame

\* profile/save with a name only.
CreateProfile(name, select) ==
    /\ Request /\ Len(profiles.list) < MaxProfiles
    /\ profiles' = upsertProfile(profiles, uniqueProfileID(profiles, name), TRUE, select)
    /\ UNCHANGED profileFrame

DeleteProfile(id) ==
    /\ Request /\ id \in IdsOf(profiles)
    /\ profiles' = Deleting(profiles, id)
    /\ UNCHANGED profileFrame

-----------------------------------------------------------------------------
(* config.json *)

InFlight(p) == patch[p].pc \in {"open", "write", "rename", "store"}

patchFrame == <<profiles, up>>

\* getConfig and applyConfigPatch: the patch on the configuration of now.  A
\* custom DNS mode without a resolver is refused.
ReadConfig(p) ==
    /\ patch[p].pc = "idle" /\ Request
    /\ \/ patch' = [patch EXCEPT ![p].pc = "open", ![p].next = mem \cup {p}]
       \/ patch' = [patch EXCEPT ![p].pc = "failed"]
    /\ overlap' = (overlap \/ \E o \in Patches : InFlight(o))
    /\ UNCHANGED <<profiles, disk, mem>>

\* Mutation: the file is rewritten in place.
OpenTmpInPlace(p) ==
    /\ up /\ patch[p].pc = "open"
    /\ disk' = [disk EXCEPT !.data[disk.cfg] = Torn, !.tmp = disk.cfg]
    /\ patch' = [patch EXCEPT ![p].pc = "write", ![p].inode = disk.cfg]
    /\ UNCHANGED <<patchFrame, mem, requests, overlap>>

\* os.WriteFile opens the one temporary path: what is there is truncated.
OpenTmp(p) ==
    /\ up /\ patch[p].pc = "open"
    /\ LET i == IF disk.tmp # NoInode THEN disk.tmp
                ELSE CHOOSE n \in Inodes :
                       n # disk.cfg /\ \A o \in Patches : InFlight(o) => patch[o].inode # n
       IN  /\ disk' = [disk EXCEPT !.data[i] = Torn, !.tmp = i]
           /\ patch' = [patch EXCEPT ![p].pc = "write", ![p].inode = i]
    /\ UNCHANGED <<patchFrame, mem, requests, overlap>>

\* It writes to the inode it opened, wherever that has been renamed to; of two
\* texts in one inode the decoder reads the one written last.
WriteTmp(p) ==
    /\ up /\ patch[p].pc = "write"
    /\ \/ /\ disk' = [disk EXCEPT !.data[patch[p].inode] = patch[p].next]
          /\ patch' = [patch EXCEPT ![p].pc = "rename"]
       \/ /\ patch' = [patch EXCEPT ![p].pc = "failed"]
          /\ UNCHANGED disk
    /\ UNCHANGED <<patchFrame, mem, requests, overlap>>

\* Whoever comes second finds no temporary file.
Rename(p) ==
    /\ up /\ patch[p].pc = "rename"
    /\ disk' = IF disk.tmp = NoInode THEN disk ELSE [disk EXCEPT !.cfg = disk.tmp, !.tmp = NoInode]
    /\ patch' = [patch EXCEPT ![p].pc = IF disk.tmp = NoInode THEN "failed" ELSE "store"]
    /\ UNCHANGED <<patchFrame, mem, requests, overlap>>

\* Mutation: the setting goes to memory only by way of a restart.
StoreConfigSkipped(p) ==
    /\ up /\ patch[p].pc = "store"
    /\ patch' = [patch EXCEPT ![p].pc = "done"]
    /\ UNCHANGED <<patchFrame, disk, mem, requests, overlap>>

StoreConfig(p) ==
    /\ up /\ patch[p].pc = "store"
    /\ mem' = patch[p].next
    /\ patch' = [patch EXCEPT ![p].pc = "done"]
    /\ UNCHANGED <<patchFrame, disk, requests, overlap>>

-----------------------------------------------------------------------------
(* The daemon *)

\* What was in progress is gone.
Crash ==
    /\ up /\ requests < MaxRequests
    /\ requests' = requests + 1
    /\ up' = FALSE
    /\ patch' = [p \in Patches |-> IF InFlight(p) THEN [patch[p] EXCEPT !.pc = "failed"] ELSE patch[p]]
    /\ UNCHANGED <<profiles, disk, mem, overlap>>

\* run: an unreadable configuration, or no profile, is fatal.
Start ==
    /\ ~up /\ disk.data[disk.cfg] # Torn /\ selectedProfile(profiles) # 0
    /\ up' = TRUE
    /\ mem' = disk.data[disk.cfg]
    /\ UNCHANGED <<profiles, disk, patch, requests, overlap>>

Next ==
    \/ \E id \in Ids : SelectProfile(id) \/ DeleteProfile(id)
    \/ \E id \in Ids, select \in BOOLEAN : SaveProfile(id, select)
    \/ \E name \in Names, select \in BOOLEAN : CreateProfile(name, select)
    \/ \E p \in Patches :
         ReadConfig(p) \/ OpenTmp(p) \/ WriteTmp(p) \/ Rename(p) \/ StoreConfig(p)
    \/ Crash \/ Start

Spec == Init /\ [][Next]_vars

-----------------------------------------------------------------------------
(* Properties *)

\* The store of profiles stays coherent, whatever was created, saved, deleted
\* and selected before: no two profiles share an id, the selected one exists
\* and is the only one flagged, and when none is selected none is flagged.
SelectionCoherent ==
    /\ \A i, j \in DOMAIN profiles.list :
         profiles.list[i].id = profiles.list[j].id => i = j
    /\ profiles.selected # NoId => profiles.selected \in IdsOf(profiles)
    /\ \A i \in DOMAIN profiles.list :
         profiles.list[i].selected <=> profiles.list[i].id = profiles.selected

\* config.json is replaced as a whole: it is unreadable (and the daemon unable to
\* start) only if two patches were in progress at once, wherever it crashes.
ConfigWhole == disk.data[disk.cfg] = Torn => overlap

\* As long as patches do not overlap, the file and the memory agree between them
\* and contain every patch that was answered with success; an error or a crash
\* of one loses no other.
PatchesLand ==
    ~overlap =>
        /\ up /\ (\A p \in Patches : ~InFlight(p)) => mem = disk.data[disk.cfg]
        /\ \A p \in Patches : patch[p].pc = "done" => p \in disk.data[disk.cfg]

\* A selected profile stays in use until another one is selected or it is
\* deleted: editing it or adding and removing others does not switch the tunnel.
SelectionStable ==
    [][LET old == profiles.selected
       IN  old # NoId /\ InUse(profiles') # old =>
             \/ old \notin IdsOf(profiles')
             \/ \E id \in Ids : SelectProfile(id) \/ SaveProfile(id, TRUE)
             \/ \E name \in Names : CreateProfile(name, TRUE)]_vars
=============================================================================
