--------------------------- MODULE SharedPath_proofs --------------------------
(***************************************************************************)
(* Theorems about StateFile, for any number of savers and states: it       *)
(* implements StateStore; and about SharedPath, for any number of calls    *)
(* that share a path, any number of versions and any size.                 *)
(***************************************************************************)
EXTENDS SharedPath, TLAPS

(***************************************************************************)
(* The state file.                                                         *)
(***************************************************************************)
\* A save that overlaps no other owns the temporary file: it holds what that
\* save wrote, and nothing else survives a loss of power once it is synced.
OwnsTmp(w) ==
  /\ handle[w] = "tmp"
  /\ step[w] = "created" => disk.tmp = Empty
  /\ step[w] \in {"written", "synced"} => disk.tmp = saving[w]
  /\ step[w] = "synced" => kept.tmp = {saving[w]}

\* Saves that overlap write nothing but what one of them saves, and none renames
\* a file that may bring back anything else.
Mixes ==
  /\ \A w \in Busy : saving[w] \in mixed
  /\ disk.tmp \in mixed \cup {None, Empty, Torn}
  /\ \/ kept.tmp \subseteq mixed \cup {None}
     \/ \A w \in Busy : handle[w] = "tmp" /\ step[w] \in {"created", "written"}

Alone == \A v, w \in Busy : v = w

\* What is read now may be read after a loss of power.
DiskInv ==
  /\ disk \in [{"file", "tmp"} -> States \cup {None, Empty, Torn}]
  /\ kept \in [{"file", "tmp"} -> SUBSET (States \cup {None})]
  /\ past \subseteq States \cup {None}
  /\ \A f \in {"file", "tmp"} : Parsed(disk[f]) \in kept[f]

TypeInv ==
  /\ FileTypeOK
  /\ DiskInv
  /\ \A w \in Savers : step[w] = "idle" <=> saving[w] = None

FileInv ==
  /\ TypeInv
  /\ mixed = {} => Alone /\ \A w \in Busy : OwnsTmp(w)
  /\ mixed # {} => Mixes

LEMMA ParsedType ==
  /\ None \notin States /\ Parsed(None) = None /\ Parsed(Empty) = None /\ Parsed(Torn) = None
  /\ \A s \in States : Parsed(s) = s
  /\ \A content : Parsed(content) \in States \cup {None}
  BY FileAssumption DEF Parsed

LEMMA EntriesType ==
  ASSUME TypeInv
  PROVE  /\ Loaded \in Entries /\ kept.file \subseteq Entries /\ past \subseteq Entries
         /\ Entries \subseteq States \cup {None}
  BY DEF Loaded, Entries, TypeInv, DiskInv

LEMMA TypeStart == FileInit => TypeInv
  BY ParsedType DEF FileInit, TypeInv, DiskInv, FileTypeOK, AllIdle, AllGone, NoStates

LEMMA HoldsType ==
  ASSUME DiskInv, NEW f \in {"file", "tmp"}, NEW content \in States \cup {None, Empty, Torn},
         Holds(f, content), UNCHANGED past
  PROVE  DiskInv'
<1>1. Parsed(content) \in States \cup {None}
  BY ParsedType
<1>2. \A g \in {"file", "tmp"} : /\ disk'[g] = IF g = f THEN content ELSE disk[g]
                                /\ kept'[g] = IF g = f THEN kept[g] \cup {Parsed(content), None} ELSE kept[g]
  BY DEF Holds, DiskInv
<1>3. \A g \in {"file", "tmp"} : Parsed(disk'[g]) \in kept'[g]
  BY <1>2 DEF DiskInv
<1>4. /\ disk' \in [{"file", "tmp"} -> States \cup {None, Empty, Torn}]
      /\ kept' \in [{"file", "tmp"} -> SUBSET (States \cup {None})]
  BY <1>1 DEF Holds, DiskInv
<1> QED
  BY <1>3, <1>4 DEF DiskInv

LEMMA LeavesType ==
  ASSUME TypeInv, NEW w \in Savers, NEW content \in States \cup {None, Torn},
         Leaves(w, content)
  PROVE  DiskInv'
<1>1. CASE handle[w] = "gone"
  <2>1. Parsed(content) \in States \cup {None}
    BY ParsedType
  <2> QED
    BY <1>1, <2>1 DEF Leaves, TypeInv, DiskInv
<1>2. CASE handle[w] # "gone"
  <2>1. handle[w] \in {"file", "tmp"}
    BY <1>2 DEF TypeInv, FileTypeOK
  <2> QED
    BY <1>2, <2>1, HoldsType DEF Leaves, TypeInv
<1> QED
  BY <1>1, <1>2

LEMMA SyncType ==
  ASSUME TypeInv, NEW w \in Savers, Sync(w)
  PROVE  DiskInv'
<1>1. CASE handle[w] = "gone"
  BY <1>1 DEF Sync, TypeInv, DiskInv
<1>2. CASE handle[w] \in {"file", "tmp"}
  <2>1. disk' = disk /\ past' = past /\ kept' = [kept EXCEPT ![handle[w]] = {Parsed(disk[handle[w]])}]
    BY <1>2 DEF Sync
  <2>2. Parsed(disk[handle[w]]) \in States \cup {None}
    BY ParsedType
  <2> QED
    BY <1>2, <2>1, <2>2 DEF TypeInv, DiskInv
<1> QED
  BY <1>1, <1>2 DEF TypeInv, FileTypeOK

LEMMA RenameType ==
  ASSUME TypeInv, NEW w \in Savers, Rename(w)
  PROVE  DiskInv'
<1>1. /\ disk' = [file |-> disk.tmp, tmp |-> None] /\ kept' = [file |-> kept.tmp, tmp |-> {None}]
      /\ past' = Entries
  BY DEF Rename
<1> QED
  BY <1>1, EntriesType, ParsedType DEF TypeInv, DiskInv

LEMMA DeleteType ==
  ASSUME TypeInv, Delete
  PROVE  DiskInv'
<1>1. CASE UNCHANGED <<disk, kept, past>>
  BY <1>1 DEF TypeInv, DiskInv
<1>2. CASE /\ disk' = [disk EXCEPT !.file = None] /\ kept' = [kept EXCEPT !.file = {None}]
           /\ past' = Entries
  BY <1>2, EntriesType, ParsedType DEF TypeInv, DiskInv
<1> QED
  BY <1>1, <1>2 DEF Delete

LEMMA TypeStep == TypeInv /\ [FileNext]_fileVars => TypeInv'
<1> SUFFICES ASSUME TypeInv, [FileNext]_fileVars PROVE TypeInv'
  OBVIOUS
<1>t. FileTypeOK /\ DiskInv
  BY DEF TypeInv
<1>s. \A w \in Savers : saving[w] \in States \cup {None, Torn}
  BY <1>t DEF FileTypeOK
\* What ends a save.
<1>d. ASSUME NEW w \in Savers, SaveEnds(w), handle' \in [Savers -> {"file", "tmp", "gone"}], DiskInv'
      PROVE  TypeInv'
  BY <1>d DEF SaveEnds, TypeInv, DiskInv, FileTypeOK
<1>1. ASSUME NEW w \in Savers, NEW s \in States, Create(w, s) PROVE TypeInv'
  <2>1. \A v \in Busy : saving[v] \in States
    BY DEF TypeInv, FileTypeOK, Busy
  <2>2. mixed' \subseteq States
    BY <1>1, <1>t, <2>1 DEF Create, FileTypeOK
  <2>3. DiskInv'
    BY <1>1, <1>t, HoldsType DEF Create
  <2> QED
    BY <2>2, <2>3, <1>1, FileAssumption DEF Create, DiskInv, FileTypeOK, TypeInv
<1>2. ASSUME NEW w \in Savers, Write(w) PROVE TypeInv'
  <2>1. DiskInv'
    BY <1>2, <1>s, LeavesType DEF Write
  <2> QED
    BY <1>2, <2>1 DEF Write, DiskInv, FileTypeOK, TypeInv
<1>3. ASSUME NEW w \in Savers, Sync(w) PROVE TypeInv'
  <2>1. DiskInv'
    BY <1>3, SyncType
  <2> QED
    BY <1>3, <2>1 DEF Sync, DiskInv, FileTypeOK, TypeInv
<1>4. ASSUME NEW w \in Savers, Rename(w) PROVE TypeInv'
  <2>1. DiskInv'
    BY <1>4, RenameType
  <2> QED
    BY <1>4, <2>1, <1>d DEF Rename, Moved, Unlinked, FileTypeOK, TypeInv
<1>5. ASSUME NEW w \in Savers, SaveFailed(w) PROVE TypeInv'
  <2>1. DiskInv'
    BY <1>5, <1>t, LeavesType DEF SaveFailed, DiskInv
  <2> QED
    BY <1>5, <1>t, <1>d, <2>1 DEF SaveFailed, FileTypeOK
<1>6. CASE Delete
  <2>1. \A h \in {"file", "tmp", "gone"} : Unlinked(h) \in {"file", "tmp", "gone"}
    BY DEF Unlinked
  <2>2. handle' \in [Savers -> {"file", "tmp", "gone"}]
    BY <1>6, <1>t, <2>1 DEF Delete, FileTypeOK
  <2>3. DiskInv'
    BY <1>6, DeleteType
  <2> QED
    BY <1>6, <2>2, <2>3 DEF Delete, DiskInv, FileTypeOK, TypeInv
<1>7. CASE Killed
  BY <1>7 DEF Killed, SaversEnd, AllIdle, AllGone, NoStates, DiskInv, FileTypeOK, TypeInv
<1>8. CASE PowerLost
  <2>1. PICK s \in Entries : /\ disk' = [file |-> s, tmp |-> None]
                            /\ kept' = [file |-> {s}, tmp |-> {None}]
    BY <1>8 DEF PowerLost
  <2>2. s \in States \cup {None} /\ Parsed(s) = s
    BY EntriesType, ParsedType
  <2>3. DiskInv'
    BY <1>8, <2>1, <2>2, ParsedType DEF PowerLost, DiskInv
  <2> QED
    BY <1>8, <2>3 DEF PowerLost, SaversEnd, AllIdle, AllGone, NoStates, DiskInv, FileTypeOK, TypeInv
<1>9. CASE UNCHANGED fileVars
  BY <1>9 DEF fileVars, saverVars, DiskInv, FileTypeOK, TypeInv
<1> QED
  BY <1>1, <1>2, <1>3, <1>4, <1>5, <1>6, <1>7, <1>8, <1>9 DEF FileNext, SaveStep

-------------------------------------------------------------------------------
\* The end of a save, by rename or failure, leaves the rest of the savers as
\* they were, but for the name of the file they hold.
LEMMA OtherSavers ==
  ASSUME FileInv, NEW w \in Busy, SaveEnds(w)
  PROVE  /\ Busy' = Busy \ {w}
         /\ \A v \in Busy' : saving'[v] = saving[v] /\ step'[v] = step[v]
         /\ mixed = {} => mixed' = {} /\ Busy' = {}
         /\ mixed' # {} => mixed' = mixed
         /\ mixed # {} /\ mixed' = {} => Busy' = {}
<1>1. Busy' = Busy \ {w}
  BY DEF SaveEnds, Busy, FileInv, TypeInv, FileTypeOK
<1>2. \A v \in Busy' : saving'[v] = saving[v] /\ step'[v] = step[v]
  BY <1>1 DEF SaveEnds, Busy, FileInv, TypeInv, FileTypeOK
<1>3. mixed = {} => mixed' = {} /\ Busy' = {}
  BY <1>1 DEF SaveEnds, FileInv, Alone
<1>4. (mixed' # {} => mixed' = mixed) /\ (mixed # {} /\ mixed' = {} => Busy' = {})
  BY <1>1 DEF SaveEnds
<1> QED
  BY <1>1, <1>2, <1>3, <1>4

\* A write goes to the temporary file, or to one that overlapping saves share.
LEMMA LeavesTmp ==
  ASSUME FileInv, NEW w \in Busy, NEW content, Leaves(w, content)
  PROVE  /\ disk'.tmp \in {disk.tmp, content}
         /\ mixed = {} => disk'.tmp = content
         /\ kept'.tmp \subseteq kept.tmp \cup {Parsed(content), None}
  BY DEF Leaves, Holds, FileInv, TypeInv, FileTypeOK, OwnsTmp, Busy

LEMMA InvStart == FileInit => FileInv
  BY TypeStart DEF FileInit, FileInv, AllIdle, Busy, Alone

LEMMA InvStep == FileInv /\ [FileNext]_fileVars => FileInv'
<1> SUFFICES ASSUME FileInv, [FileNext]_fileVars PROVE FileInv'
  OBVIOUS
<1>t. TypeInv /\ TypeInv' /\ FileTypeOK /\ DiskInv
  BY TypeStep DEF FileInv, TypeInv
\* Nobody saves any more.
<1>i. ASSUME Busy' = {}, mixed' = {} PROVE FileInv'
  BY <1>t, <1>i DEF FileInv, Alone
\* A save that overlaps others goes on, or ends.
<1>m. ASSUME mixed' = mixed, mixed # {}, Busy' \subseteq Busy,
             \A v \in Busy' : saving'[v] = saving[v],
             disk'.tmp \in mixed \cup {None, Empty, Torn},
             \/ kept'.tmp \subseteq mixed \cup {None}
             \/ /\ \A v \in Busy : handle[v] = "tmp" /\ step[v] \in {"created", "written"}
                /\ \A v \in Busy' : handle'[v] = "tmp" /\ step'[v] \in {"created", "written"}
      PROVE  FileInv'
  BY <1>t, <1>m DEF FileInv, Mixes
<1>d. ASSUME NEW w \in Busy, SaveEnds(w),
             mixed # {} => /\ disk'.tmp \in mixed \cup {None, Empty, Torn}
                           /\ \/ kept'.tmp \subseteq mixed \cup {None}
                              \/ /\ \A v \in Busy : handle[v] = "tmp" /\ step[v] \in {"created", "written"}
                                 /\ \A v \in Busy \ {w} : handle'[v] = handle[v]
      PROVE  FileInv'
  <2>1. CASE mixed' = {}
    BY <1>d, <1>i, <2>1, OtherSavers
  <2>2. CASE mixed' # {}
    BY <1>d, <1>m, <2>2, OtherSavers
  <2> QED
    BY <2>1, <2>2
<1>1. ASSUME NEW w \in Savers, NEW s \in States, Create(w, s) PROVE FileInv'
  <2>1. /\ step[w] = "idle" /\ step'[w] = "created" /\ handle'[w] = "tmp"
        /\ saving'[w] = s /\ disk'.tmp = Empty /\ kept'.tmp = kept.tmp \cup {None}
        /\ \A v \in Savers \ {w} : step'[v] = step[v] /\ saving'[v] = saving[v] /\ handle'[v] = handle[v]
    BY <1>1, <1>t, ParsedType DEF Create, Holds, FileTypeOK, DiskInv
  <2>2. Busy' = Busy \cup {w} /\ w \notin Busy
    BY <2>1 DEF Busy
  <2>3. CASE Busy = {}
    <3>1. mixed' = {} /\ Busy' = {w}
      BY <1>1, <2>2, <2>3 DEF Create
    <3> QED
      BY <1>t, <2>1, <3>1 DEF FileInv, Alone, OwnsTmp
  <2>4. CASE Busy # {}
    <3>1. mixed' = mixed \cup {s} \cup { saving[v] : v \in Busy }
      BY <1>1, <2>4 DEF Create
    <3>2. \A v \in Busy' : saving'[v] \in mixed'
      BY <2>1, <2>2, <3>1 DEF Busy
    <3>3. \/ kept'.tmp \subseteq mixed' \cup {None}
          \/ \A v \in Busy' : handle'[v] = "tmp" /\ step'[v] \in {"created", "written"}
      <4>1. CASE mixed # {}
        BY <2>1, <2>2, <3>1, <4>1 DEF FileInv, Mixes, Busy
      <4>2. CASE mixed = {} /\ \E v \in Busy : step[v] = "synced"
        <5>1. PICK v \in Busy : step[v] = "synced"
          BY <4>2
        <5>2. kept.tmp = {saving[v]}
          BY <4>2, <5>1 DEF FileInv, OwnsTmp
        <5> QED
          BY <2>1, <3>1, <5>1, <5>2
      <4>3. CASE mixed = {} /\ \A v \in Busy : step[v] # "synced"
        <5>1. \A v \in Busy : handle[v] = "tmp" /\ step[v] \in {"created", "written"}
          BY <4>3, <1>t DEF FileInv, OwnsTmp, Busy, FileTypeOK
        <5> QED
          BY <2>1, <2>2, <5>1 DEF Busy
      <4> QED
        BY <4>1, <4>2, <4>3
    <3> QED
      BY <1>t, <2>1, <3>1, <3>2, <3>3 DEF FileInv, Mixes
  <2> QED
    BY <2>3, <2>4
<1>2. ASSUME NEW w \in Savers, Write(w) PROVE FileInv'
  <2>1. /\ step[w] = "created" /\ step' = [step EXCEPT ![w] = "written"]
        /\ UNCHANGED <<handle, saving, mixed>>
        /\ w \in Busy
    BY <1>2 DEF Write, Busy
  <2>2. Busy' = Busy
    BY <1>t, <2>1 DEF Busy, FileTypeOK
  <2>3. CASE mixed = {}
    <3>1. handle[w] = "tmp" /\ disk.tmp = Empty
      BY <2>1, <2>3 DEF FileInv, OwnsTmp
    <3>2. disk'.tmp = saving[w]
      BY <1>2, <2>1, <2>3, <3>1, LeavesTmp DEF Write
    <3>3. \A v \in Busy : v = w
      BY <2>1, <2>3 DEF FileInv, Alone
    <3>4. OwnsTmp(w)'
      BY <1>t, <2>1, <3>1, <3>2 DEF OwnsTmp, FileTypeOK
    <3> QED
      BY <1>t, <2>1, <2>2, <2>3, <3>3, <3>4 DEF FileInv, Alone
  <2>4. CASE mixed # {}
    <3>1. saving[w] \in mixed /\ mixed \subseteq States /\ disk.tmp \in mixed \cup {None, Empty, Torn}
      BY <1>t, <2>1, <2>4 DEF FileInv, Mixes, FileTypeOK
    <3>2. PICK content \in {saving[w], Torn} : Leaves(w, content)
      BY <1>2 DEF Write
    <3>3. Parsed(content) \in mixed \cup {None}
      BY <3>1, <3>2, ParsedType
    <3>4. /\ disk'.tmp \in mixed \cup {None, Empty, Torn}
          /\ kept'.tmp \subseteq kept.tmp \cup mixed \cup {None}
      BY <2>1, <3>1, <3>2, <3>3, LeavesTmp
    <3>5. \A v \in Busy : handle[v] = "tmp" /\ step[v] \in {"created", "written"}
            => handle'[v] = "tmp" /\ step'[v] \in {"created", "written"}
      BY <1>t, <2>1 DEF Busy, FileTypeOK
    <3> QED
      BY <1>m, <2>1, <2>2, <2>4, <3>4, <3>5 DEF FileInv, Mixes
  <2> QED
    BY <2>3, <2>4
<1>3. ASSUME NEW w \in Savers, Sync(w) PROVE FileInv'
  <2>1. /\ step[w] = "written" /\ step' = [step EXCEPT ![w] = "synced"]
        /\ UNCHANGED <<disk, handle, saving, mixed>>
        /\ w \in Busy
    BY <1>3 DEF Sync, Busy
  <2>2. Busy' = Busy
    BY <1>t, <2>1 DEF Busy, FileTypeOK
  <2>k. IF handle[w] = "tmp" THEN kept'.tmp = {Parsed(disk.tmp)} ELSE kept'.tmp = kept.tmp
    BY <1>3, <1>t DEF Sync, DiskInv, FileTypeOK
  <2>3. CASE mixed = {}
    <3>1. OwnsTmp(w) /\ \A v \in Busy : v = w
      BY <2>1, <2>3 DEF FileInv, Alone
    <3>2. saving[w] \in States
      BY <1>t, <2>1 DEF TypeInv, FileTypeOK, Busy
    <3>3. OwnsTmp(w)'
      BY <1>t, <2>1, <2>k, <3>1, <3>2, ParsedType DEF OwnsTmp, FileTypeOK
    <3> QED
      BY <1>t, <2>1, <2>2, <2>3, <3>1, <3>3 DEF FileInv, Alone
  <2>4. CASE mixed # {}
    <3>1. disk.tmp \in mixed \cup {None, Empty, Torn} /\ mixed \subseteq States
      BY <1>t, <2>4 DEF FileInv, Mixes, FileTypeOK
    <3>2. kept'.tmp \subseteq mixed \cup {None}
      BY <2>1, <2>4, <2>k, <3>1, ParsedType DEF FileInv, Mixes
    <3> QED
      BY <1>m, <2>1, <2>2, <2>4, <3>1, <3>2
  <2> QED
    BY <2>3, <2>4
<1>4. ASSUME NEW w \in Savers, Rename(w) PROVE FileInv'
  <2>1. w \in Busy /\ SaveEnds(w) /\ disk'.tmp = None /\ kept'.tmp = {None}
    BY <1>4 DEF Rename, Renames, Busy
  <2> QED
    BY <1>d, <2>1
<1>5. ASSUME NEW w \in Savers, SaveFailed(w) PROVE FileInv'
  <2>1. /\ w \in Busy /\ SaveEnds(w) /\ disk'.tmp \in {disk.tmp, Torn}
        /\ kept'.tmp \subseteq kept.tmp \cup {None}
        /\ \A v \in Busy \ {w} : handle'[v] = handle[v]
    BY <1>5, <1>t, LeavesTmp, ParsedType DEF SaveFailed, Busy, FileTypeOK
  <2> QED
    BY <1>d, <2>1 DEF FileInv, Mixes
<1>6. CASE Delete
  <2>1. disk'.tmp = disk.tmp /\ kept'.tmp = kept.tmp /\ UNCHANGED <<step, saving, mixed>> /\ Busy' = Busy
    BY <1>6, <1>t DEF Delete, DiskInv, Busy
  <2>2. \A w \in Busy : handle[w] = "tmp" => handle'[w] = "tmp"
    BY <1>6, <1>t DEF Delete, Unlinked, Busy, FileTypeOK
  <2>3. CASE mixed = {}
    <3>1. \A w \in Busy : OwnsTmp(w)'
      BY <2>1, <2>2, <2>3 DEF FileInv, OwnsTmp
    <3> QED
      BY <1>t, <2>1, <2>3, <3>1 DEF FileInv, Alone
  <2>4. CASE mixed # {}
    BY <1>m, <2>1, <2>2, <2>4 DEF FileInv, Mixes
  <2> QED
    BY <2>3, <2>4
<1>7. CASE Killed \/ PowerLost
  <2>1. Busy' = {} /\ mixed' = {}
    BY <1>7 DEF Killed, PowerLost, SaversEnd, AllIdle, Busy
  <2> QED
    BY <2>1, <1>i
<1>8. CASE UNCHANGED fileVars
  BY <1>8, <1>t DEF fileVars, saverVars, FileInv, Alone, OwnsTmp, Mixes, Busy
<1> QED
  BY <1>1, <1>2, <1>3, <1>4, <1>5, <1>6, <1>7, <1>8 DEF FileNext, SaveStep

\* However many tasks save one path, and whatever fails or ends in between, the
\* variables of StateFile (what save and delete in src/src/state.rs leave on
\* disk) have the values its actions are about.
THEOREM FileTypeCorrect == FileSpec => []FileTypeOK
<1>1. TypeInv => FileTypeOK
  BY DEF TypeInv
<1> QED
  BY <1>1, TypeStart, TypeStep, PTL DEF FileSpec

-------------------------------------------------------------------------------
(***************************************************************************)
(* StateFile implements StateStore.                                        *)
(***************************************************************************)
LEMMA BusyInStore == TypeInv => Store!Busy = Busy
  BY DEF TypeInv, Store!Busy, Busy

\* A save ends in the store as it does in the file.
LEMMA EndsInStore ==
  ASSUME TypeInv, NEW w \in Savers, SaveEnds(w)
  PROVE  Store!Ends(w)
  BY BusyInStore DEF SaveEnds, Store!Ends

\* A write shows nothing, or something that overlapping saves save.
LEMMA LeavesShows ==
  ASSUME FileInv, NEW w \in Busy, NEW content \in {saving[w], Torn}, Leaves(w, content)
  PROVE  \/ UNCHANGED <<Loaded, Entries>>
         \/ /\ mixed # {}
            /\ Loaded' \in mixed \cup {Loaded, None}
            /\ Loaded' \in Entries'
            /\ Entries' \subseteq Entries \cup mixed \cup {None}
<1>t. FileTypeOK /\ DiskInv /\ w \in Savers /\ handle[w] \in {"file", "tmp", "gone"}
  BY DEF FileInv, TypeInv, FileTypeOK, Busy
<1>1. CASE handle[w] = "tmp"
  <2>1. disk'.file = disk.file /\ past' = past /\ kept'.file = kept.file
    BY <1>1, <1>t DEF Leaves, Holds, DiskInv
  <2> QED
    BY <2>1 DEF Loaded, Entries
<1>2. CASE handle[w] # "tmp"
  <2>1. mixed # {} /\ saving[w] \in mixed /\ saving[w] \in States
    BY <1>2, <1>t DEF FileInv, OwnsTmp, Mixes, FileTypeOK, Busy
  <2>2. Parsed(content) \in mixed \cup {None}
    BY <2>1, ParsedType
  <2>3. CASE handle[w] = "gone"
    <3>1. Loaded' = Loaded /\ kept' = kept /\ past' = past \cup {Parsed(content), None}
      BY <2>3 DEF Leaves, Loaded
    <3> QED
      BY <1>t, <2>1, <2>2, <3>1 DEF Entries, DiskInv, Loaded
  <2>4. CASE handle[w] = "file"
    <3>1. Loaded' = Parsed(content) /\ past' = past /\ kept'.file = kept.file \cup {Parsed(content), None}
      BY <2>4, <1>t DEF Leaves, Holds, Loaded, DiskInv
    <3> QED
      BY <2>1, <2>2, <3>1 DEF Entries
  <2> QED
    BY <1>2, <1>t, <2>3, <2>4
<1> QED
  BY <1>1, <1>2

LEMMA StoreStep ==
  ASSUME FileInv, TypeInv', [FileNext]_fileVars
  PROVE  [Store!Next]_(Store!vars)
<1>t. FileTypeOK /\ DiskInv /\ TypeInv
  BY DEF FileInv, TypeInv
<1>b. Store!Busy = Busy
  BY <1>t, BusyInStore
<1>0. ASSUME UNCHANGED <<Loaded, Entries, saving, mixed>> PROVE UNCHANGED Store!vars
  BY <1>0 DEF Store!vars
<1>1. ASSUME NEW w \in Savers, NEW s \in States, Create(w, s) PROVE Store!Begin(w)
  <2>1. step[w] = "idle" /\ saving[w] = None /\ w \notin Busy
    BY <1>1, <1>t DEF Create, TypeInv, Busy
  <2>2. saving' = [saving EXCEPT ![w] = s] /\ saving'[w] = s /\ s # None
    BY <1>1, <1>t, ParsedType DEF Create, FileTypeOK
  <2>3. UNCHANGED <<Loaded, Entries>>
    BY <1>1, <1>t DEF Create, Holds, Loaded, Entries, DiskInv
  <2>4. { saving'[v] : v \in Busy \cup {w} } = {s} \cup { saving[v] : v \in Busy }
    <3>1. \A v \in Busy : saving'[v] = saving[v]
      BY <2>1, <2>2, <1>t DEF Busy, FileTypeOK
    <3> QED
      BY <2>2, <3>1
  <2>5. mixed' = IF Busy = {} THEN {} ELSE mixed \cup { saving'[v] : v \in Busy \cup {w} }
    BY <1>1, <2>4 DEF Create
  <2> QED
    BY <1>b, <2>1, <2>2, <2>3, <2>5 DEF Store!Begin
<1>2. ASSUME NEW w \in Savers, Write(w)
      PROVE  Store!Collide(w) \/ UNCHANGED Store!vars
  <2>1. w \in Busy /\ UNCHANGED <<saving, mixed>>
    BY <1>2 DEF Write, Busy
  <2>2. \E content \in {saving[w], Torn} : Leaves(w, content)
    BY <1>2 DEF Write
  <2>3. \/ UNCHANGED <<Loaded, Entries>>
        \/ /\ mixed # {}
           /\ Loaded' \in mixed \cup {Loaded, None}
           /\ Loaded' \in Entries'
           /\ Entries' \subseteq Entries \cup mixed \cup {None}
    BY <2>1, <2>2, LeavesShows
  <2> QED
    BY <1>0, <2>1, <2>3 DEF Store!Collide
<1>3. ASSUME NEW w \in Savers, Sync(w)
      PROVE  Store!Collide(w) \/ UNCHANGED Store!vars
  <2>1. w \in Busy /\ UNCHANGED <<disk, past, saving, mixed>> /\ handle[w] \in {"file", "tmp", "gone"}
    BY <1>3, <1>t DEF Sync, Busy, FileTypeOK
  <2>2. Loaded' = Loaded
    BY <2>1 DEF Loaded
  <2>3. CASE handle[w] = "file"
    <3>1. mixed # {}
      BY <2>1, <2>3 DEF FileInv, OwnsTmp
    <3>2. kept'.file = {Loaded}
      BY <1>3, <1>t, <2>3 DEF Sync, DiskInv, Loaded
    <3>3. Entries' = {Loaded} \cup past /\ Entries' \subseteq Entries
      BY <1>t, <2>1, <3>2 DEF Entries, DiskInv, Loaded
    <3> QED
      BY <2>1, <2>2, <3>1, <3>3 DEF Store!Collide
  <2>4. CASE handle[w] # "file"
    <3>1. kept'.file = kept.file
      BY <1>3, <1>t, <2>1, <2>4 DEF Sync, DiskInv
    <3> QED
      BY <1>0, <2>1, <2>2, <3>1 DEF Entries
  <2> QED
    BY <2>3, <2>4
<1>4. ASSUME NEW w \in Savers, Rename(w) PROVE Store!Put(w) \/ Store!Collide(w)
  <2>1. /\ step[w] = "synced" /\ w \in Busy /\ Store!Ends(w)
        /\ Loaded' = Parsed(disk.tmp) /\ past' = Entries /\ kept'.file = kept.tmp
    BY <1>4, <1>t, EndsInStore DEF Rename, Renames, Loaded, Busy
  <2>2. Entries' = Entries \cup kept.tmp /\ Loaded' \in Entries'
    BY <1>t, <2>1 DEF Entries, DiskInv
  <2>3. CASE mixed = {}
    <3>1. Loaded' = saving[w] /\ kept.tmp = {saving[w]}
      BY <2>1, <2>3, <1>t, ParsedType DEF FileInv, OwnsTmp, FileTypeOK, TypeInv
    <3> QED
      BY <1>b, <2>1, <2>2, <3>1 DEF Store!Put, Store!Shows
  <2>4. CASE mixed # {}
    <3>1. disk.tmp \in mixed \cup {None, Empty, Torn} /\ mixed \subseteq States
      BY <2>4, <1>t DEF FileInv, Mixes, FileTypeOK
    <3>2. Loaded' \in mixed \cup {None}
      BY <2>1, <3>1, ParsedType
    <3>3. kept.tmp \subseteq mixed \cup {None}
      BY <2>1, <2>4 DEF FileInv, Mixes
    <3> QED
      BY <2>1, <2>2, <2>4, <3>2, <3>3 DEF Store!Collide
  <2> QED
    BY <2>3, <2>4
<1>5. ASSUME NEW w \in Savers, SaveFailed(w) PROVE Store!GiveUp(w) \/ Store!Collide(w)
  <2>1. w \in Busy /\ Store!Ends(w)
    BY <1>5, <1>t, EndsInStore DEF SaveFailed
  <2>2. CASE UNCHANGED <<disk, kept, past>>
    BY <1>b, <2>1, <2>2 DEF Store!GiveUp, Loaded, Entries
  <2>3. CASE Leaves(w, Torn)
    <3>1. \/ UNCHANGED <<Loaded, Entries>>
          \/ /\ mixed # {}
             /\ Loaded' \in mixed \cup {Loaded, None}
             /\ Loaded' \in Entries'
             /\ Entries' \subseteq Entries \cup mixed \cup {None}
      BY <2>1, <2>3, LeavesShows
    <3> QED
      BY <1>b, <2>1, <3>1 DEF Store!GiveUp, Store!Collide
  <2> QED
    BY <1>5, <2>2, <2>3 DEF SaveFailed
<1>6. CASE Delete
  <2>1. CASE /\ disk' = [disk EXCEPT !.file = None] /\ kept' = [kept EXCEPT !.file = {None}]
             /\ past' = Entries
    <3>1. Loaded' = None /\ kept'.file = {None}
      BY <1>t, <2>1, ParsedType DEF Loaded, DiskInv
    <3>2. Entries' = {None} \cup Entries
      BY <2>1, <3>1 DEF Entries
    <3> QED
      BY <1>6, <3>1, <3>2 DEF Store!Next, Store!Remove, Store!Shows, Delete
  <2>2. CASE UNCHANGED <<disk, kept, past>>
    BY <1>0, <1>6, <2>2 DEF Delete, Loaded, Entries
  <2> QED
    BY <1>6, <2>1, <2>2 DEF Delete
<1>7. CASE Killed
  BY <1>7 DEF Killed, SaversEnd, NoStates, Loaded, Entries,
              Store!Next, Store!Kill, Store!AllEnd, Store!Idle
<1>8. CASE PowerLost
  <2>1. PICK s \in Entries : /\ disk' = [file |-> s, tmp |-> None]
                            /\ kept' = [file |-> {s}, tmp |-> {None}]
    BY <1>8 DEF PowerLost
  <2>2. Loaded' = s
    BY <1>t, <2>1, EntriesType, ParsedType DEF Loaded
  <2>3. Entries' = {s}
    BY <1>8, <2>1 DEF PowerLost, Entries
  <2> QED
    BY <1>8, <2>2, <2>3 DEF PowerLost, SaversEnd, NoStates,
                            Store!Next, Store!PowerLoss, Store!AllEnd, Store!Idle
<1>9. CASE UNCHANGED fileVars
  BY <1>0, <1>9 DEF fileVars, saverVars, Loaded, Entries
<1> QED
  BY <1>1, <1>2, <1>3, <1>4, <1>5, <1>6, <1>7, <1>8, <1>9 DEF FileNext, SaveStep, Store!Next

\* "Atomically write the state to disk": for any number of savers and states,
\* save and delete, system call by system call, implement StateStore.
THEOREM FileKeepsStore == FileSpec => KeepsStateStore
<1>1. FileInit => Store!Init
  BY ParsedType DEF FileInit, Store!Init, Store!Idle, NoStates, Loaded, Entries
<1>2. FileInv /\ FileInv' /\ [FileNext]_fileVars => [Store!Next]_(Store!vars)
  BY StoreStep DEF FileInv
<1> QED
  BY <1>1, <1>2, InvStart, InvStep, PTL DEF FileSpec, KeepsStateStore, Store!Spec

-------------------------------------------------------------------------------
(***************************************************************************)
(* The states that load may find, now or later, or that are being saved:   *)
(* nothing but a new save adds one.                                        *)
(***************************************************************************)
Held == (kept.file \cup kept.tmp \cup past \cup { saving[w] : w \in Savers }) \ {None}

LEMMA EntriesHeld ==
  ASSUME TypeInv
  PROVE  /\ Held \subseteq States
         /\ Entries \ {None} \subseteq Held
         /\ Loaded # None => Loaded \in Held
<1>1. Held \subseteq States
  BY DEF Held, TypeInv, DiskInv, FileTypeOK
<1> QED
  BY <1>1, EntriesType DEF Held, Entries

\* What Held' is made of.
LEMMA HeldFrom ==
  ASSUME NEW S, kept'.file \subseteq S \cup {None}, kept'.tmp \subseteq S \cup {None},
         past' \subseteq S \cup {None}, \A w \in Savers : saving'[w] \in S \cup {None}
  PROVE  Held' \subseteq S
  BY DEF Held

LEMMA LeavesHeld ==
  ASSUME TypeInv, NEW w \in Savers, NEW content \in {saving[w], Torn}, Leaves(w, content)
  PROVE  /\ kept'.file \subseteq Held \cup {None} /\ kept'.tmp \subseteq Held \cup {None}
         /\ past' \subseteq Held \cup {None}
<1>1. Parsed(content) \in Held \cup {None}
  BY ParsedType DEF Held, TypeInv, FileTypeOK
<1>2. CASE handle[w] = "gone"
  BY <1>1, <1>2 DEF Leaves, Held
<1>3. CASE handle[w] \in {"file", "tmp"}
  <2>1. /\ past' = past
        /\ kept'.file \in {kept.file, kept.file \cup {Parsed(content), None}}
        /\ kept'.tmp \in {kept.tmp, kept.tmp \cup {Parsed(content), None}}
    BY <1>3 DEF Leaves, Holds, TypeInv, DiskInv
  <2> QED
    BY <1>1, <2>1 DEF Held
<1> QED
  BY <1>2, <1>3 DEF TypeInv, FileTypeOK

LEMMA HeldByStep ==
  ASSUME TypeInv, (\E w \in Savers : SaveStep(w)) \/ Delete \/ Killed \/ PowerLost
  PROVE  Held' \subseteq Held
<1>t. FileTypeOK /\ DiskInv
  BY DEF TypeInv
<1>h. /\ kept.file \subseteq Held \cup {None} /\ kept.tmp \subseteq Held \cup {None}
      /\ past \subseteq Held \cup {None} /\ Entries \subseteq Held \cup {None}
      /\ \A w \in Savers : saving[w] \in Held \cup {None}
  BY DEF Held, Entries
<1>d. ASSUME NEW w \in Savers, SaveEnds(w)
      PROVE  \A v \in Savers : saving'[v] \in Held \cup {None}
  BY <1>d, <1>h, <1>t DEF SaveEnds, FileTypeOK
<1>1. ASSUME NEW w \in Savers, Write(w) PROVE Held' \subseteq Held
  <2>1. saving' = saving /\ \E content \in {saving[w], Torn} : Leaves(w, content)
    BY <1>1 DEF Write
  <2> QED
    BY <1>h, <2>1, LeavesHeld, HeldFrom
<1>2. ASSUME NEW w \in Savers, Sync(w) PROVE Held' \subseteq Held
  <2>1. UNCHANGED <<past, saving>>
    BY <1>2 DEF Sync
  <2>2. kept'.file \subseteq kept.file /\ kept'.tmp \subseteq kept.tmp
    BY <1>2, <1>t DEF Sync, DiskInv, FileTypeOK
  <2> QED
    BY <1>h, <2>1, <2>2, HeldFrom
<1>3. ASSUME NEW w \in Savers, Rename(w) PROVE Held' \subseteq Held
  <2>1. SaveEnds(w) /\ kept'.file = kept.tmp /\ kept'.tmp = {None} /\ past' = Entries
    BY <1>3 DEF Rename
  <2> QED
    BY <1>h, <1>d, <2>1, HeldFrom
<1>4. ASSUME NEW w \in Savers, SaveFailed(w) PROVE Held' \subseteq Held
  <2>1. SaveEnds(w) /\ (UNCHANGED <<kept, past>> \/ Leaves(w, Torn))
    BY <1>4 DEF SaveFailed
  <2>2. CASE UNCHANGED <<kept, past>>
    BY <1>h, <1>d, <2>1, <2>2, HeldFrom
  <2>3. CASE Leaves(w, Torn)
    BY <1>d, <2>1, <2>3, LeavesHeld, HeldFrom
  <2> QED
    BY <2>1, <2>2, <2>3
<1>5. CASE Delete
  <2>1. saving' = saving
    BY <1>5 DEF Delete
  <2>2. CASE kept' = [kept EXCEPT !.file = {None}] /\ past' = Entries
    <3>1. kept'.file = {None} /\ kept'.tmp = kept.tmp
      BY <1>t, <2>2 DEF DiskInv
    <3> QED
      BY <1>h, <2>1, <2>2, <3>1, HeldFrom
  <2>3. CASE UNCHANGED <<kept, past>>
    BY <2>1, <2>3 DEF Held
  <2> QED
    BY <1>5, <2>2, <2>3 DEF Delete
<1>6. CASE Killed
  <2>1. UNCHANGED <<kept, past>> /\ \A v \in Savers : saving'[v] = None
    BY <1>6 DEF Killed, SaversEnd, NoStates
  <2> QED
    BY <1>h, <2>1, HeldFrom
<1>7. CASE PowerLost
  <2>1. PICK s \in Entries : kept' = [file |-> {s}, tmp |-> {None}]
    BY <1>7 DEF PowerLost
  <2>2. past' = {} /\ \A v \in Savers : saving'[v] = None
    BY <1>7 DEF PowerLost, SaversEnd, NoStates
  <2> QED
    BY <1>h, <2>1, <2>2, HeldFrom
<1> QED
  BY <1>1, <1>2, <1>3, <1>4, <1>5, <1>6, <1>7 DEF SaveStep

LEMMA HeldByCreate ==
  ASSUME TypeInv, NEW w \in Savers, NEW s \in States, Create(w, s)
  PROVE  Held' \subseteq Held \cup {s}
<1>1. kept'.file = kept.file /\ kept'.tmp = kept.tmp \cup {None} /\ past' = past
  BY ParsedType DEF Create, Holds, TypeInv, DiskInv
<1>2. \A v \in Savers : saving'[v] \in {saving[v], s}
  BY DEF Create, TypeInv, FileTypeOK
<1> QED
  BY <1>1, <1>2 DEF Held

\* After a loss of power nothing is held but what load finds.
LEMMA HeldAfterLoss ==
  ASSUME TypeInv, PowerLost
  PROVE  Held' \subseteq {Loaded'}
<1>1. PICK s \in Entries : disk' = [file |-> s, tmp |-> None] /\ kept' = [file |-> {s}, tmp |-> {None}]
  BY DEF PowerLost
<1>2. past' = {} /\ \A v \in Savers : saving'[v] = None
  BY DEF PowerLost, SaversEnd, NoStates
<1>3. Loaded' = s
  BY <1>1, EntriesType, ParsedType DEF Loaded
<1> QED
  BY <1>1, <1>2, <1>3 DEF Held

-------------------------------------------------------------------------------
(***************************************************************************)
(* Calls that share a path.                                                *)
(***************************************************************************)
Phases == {"new", "run", "stopping", "deleting", "dropping", "abandoned", "left",
           "ok", "failed", "gone"}

CallsType ==
  /\ srv \in Version
  /\ cache \in [Block -> 0 .. MaxVersion]
  /\ platter \in [Block -> SUBSET (0 .. MaxVersion)]
  /\ pending \subseteq [owner : Calls \cup {Dropped}, block : Block, ver : Version]
  /\ doubtful \subseteq Block
  /\ phase \in [Calls -> Phases]
  /\ info \in [Calls -> Version]
  /\ at \in [Calls -> 0 .. Size]
  /\ outcome \in [Calls -> {"none", "done", "changed", "error"}]
  /\ saver \in [Calls -> {"off", "on", "last"}]
  /\ ticks \in [Calls -> Nat]
  /\ snap \in [Calls -> States \cup {None}]

PathType == TypeInv /\ CallsType

LEMMA StateType ==
  ASSUME NEW s \in States
  PROVE  s.ver \in Version /\ s.at \in 0 .. Size
  BY PathAssumption

LEMMA DroppedType == Dropped \notin Calls
  BY PathAssumption DEF Dropped, Calls

\* What the broken stream of a call leaves of the writes under way.
LEMMA BrokenWrites ==
  ASSUME CallsType, NEW c \in Calls, Breaks(c)
  PROVE  /\ pending' \subseteq [owner : Calls \cup {Dropped}, block : Block, ver : Version]
         /\ \A q \in pending' : \/ q.owner = Dropped /\ \E p \in PendingOf(c) : q.block = p.block
                                \/ q \in pending /\ q.owner # c
         /\ \A p \in pending : p.owner # c => p \in pending'
         /\ doubtful' = doubtful \cup BlocksOf(PendingOf(c))
         /\ BlocksOf(PendingOf(c)) \subseteq Block
<1> DEFINE LetGo(p) == [p EXCEPT !.owner = IF @ = c THEN Dropped ELSE @]
<1>1. pending' = { LetGo(p) : p \in pending }
  BY DEF Breaks
<1>2. \A p \in pending : p \in [owner : Calls \cup {Dropped}, block : Block, ver : Version]
  BY DEF CallsType
<1>3. ASSUME NEW p \in pending
      PROVE  /\ LetGo(p) \in [owner : Calls \cup {Dropped}, block : Block, ver : Version]
             /\ p.owner = c => LetGo(p).owner = Dropped /\ LetGo(p).block = p.block
             /\ p.owner # c => LetGo(p) = p
  BY <1>2
<1> HIDE DEF LetGo
<1>4. \A q \in pending' : \/ q.owner = Dropped /\ \E p \in PendingOf(c) : q.block = p.block
                          \/ q \in pending /\ q.owner # c
  BY <1>1, <1>3 DEF PendingOf
<1>5. doubtful' = doubtful \cup BlocksOf(PendingOf(c)) /\ BlocksOf(PendingOf(c)) \subseteq Block
  BY <1>2 DEF Breaks, Doubts, BlocksOf, PendingOf
<1> QED
  BY <1>1, <1>3, <1>4, <1>5

LEMMA PathTypeStart == PathInit => PathType
<1> SUFFICES ASSUME PathInit PROVE PathType
  OBVIOUS
<1>1. 1 \in Version
  BY PathAssumption DEF Version
<1> QED
  BY <1>1, TypeStart, PathAssumption DEF PathInit, PathType, CallsType, Phases

\* Each step of the calls is a step of the file, or leaves it alone.
LEMMA PathStepsFile ==
  ASSUME PathType, [PathNext]_pathVars
  PROVE  [FileNext]_fileVars
<1>1. ASSUME NEW c \in Calls, StartSave(c) PROVE FileNext
  BY <1>1 DEF StartSave, PathType, CallsType, Calls, FileNext
<1>2. ASSUME NEW c \in Calls, Save(c) PROVE FileNext
  BY <1>2 DEF Save, Calls, FileNext
<1>3. ASSUME NEW c \in Calls, DeleteState(c) PROVE FileNext
  BY <1>3 DEF DeleteState, FileNext
<1>4. CASE Kill \/ PowerLoss
  BY <1>4 DEF Kill, PowerLoss, FileNext
<1>5. ASSUME NEW c \in Calls,
             \/ Start(c) \/ Fetch(c) \/ Breaks(c) \/ WorkerEnds(c) \/ Join(c) \/ Snapshot(c)
             \/ Decide(c) \/ Abandon(c)
      PROVE  UNCHANGED fileVars
  BY <1>5 DEF Start, Fetch, Breaks, WorkerEnds, Join, Snapshot, Decide, Abandon
<1>6. CASE ServerPublishes \/ UNCHANGED pathVars
  BY <1>6 DEF ServerPublishes, pathVars
<1>7. ASSUME NEW p \in pending, Land(p) PROVE UNCHANGED fileVars
  BY <1>7 DEF Land
<1> QED
  BY <1>1, <1>2, <1>3, <1>4, <1>5, <1>6, <1>7 DEF PathNext, CallStep

LEMMA PathTypeStep == PathType /\ [PathNext]_pathVars => PathType'
<1> SUFFICES ASSUME PathType, [PathNext]_pathVars PROVE PathType'
  OBVIOUS
<1>t. CallsType /\ TypeInv'
  BY PathStepsFile, TypeStep DEF PathType
<1>a. Size \in Nat \ {0} /\ MaxVersion \in Nat \ {0} /\ Version \subseteq 0 .. MaxVersion
  BY PathAssumption DEF Version
<1>p. \A p \in pending : p.block \in Block /\ p.ver \in Version
  BY <1>t DEF CallsType
<1>b. BlocksOf(pending) \subseteq Block
  BY <1>p DEF BlocksOf
<1>1. ASSUME NEW c \in Calls, Start(c) PROVE CallsType'
  <2>1. Loaded # None => Loaded.at \in 0 .. Size
    BY StateType DEF Loaded, Parsed
  <2>2. platter' \in [Block -> SUBSET (0 .. MaxVersion)] /\ cache' = cache
    BY <1>1, <1>t DEF Start, OpenedFile, CallsType
  <2>3. at' \in [Calls -> 0 .. Size]
    BY <1>1, <1>t, <1>a, <2>1 DEF Start, CallsType
  <2>4. doubtful' \subseteq Block /\ pending' = pending /\ ticks' = ticks
    BY <1>1, <1>t, <1>b DEF Start, Doubts, CallsType
  <2> QED
    BY <1>1, <1>t, <2>2, <2>3, <2>4 DEF Start, Goto, CallsType, Phases
<1>2. ASSUME NEW c \in Calls, Fetch(c) PROVE CallsType'
  <2>1. at[c] \in Block /\ at[c] + 1 \in 0 .. Size
    BY <1>2, <1>t, <1>a DEF Fetch, CallsType, Block
  <2>2. [owner |-> c, block |-> at[c], ver |-> info[c]]
          \in [owner : Calls \cup {Dropped}, block : Block, ver : Version]
    BY <1>t, <2>1 DEF CallsType
  <2> QED
    BY <1>2, <1>t, <2>1, <2>2 DEF Fetch, CallsType
<1>3. ASSUME NEW c \in Calls, WorkerEnds(c) PROVE CallsType'
  BY <1>3, <1>t DEF WorkerEnds, CallsType, dataVars, ioVars
<1>4. ASSUME NEW c \in Calls, Join(c) \/ Abandon(c) PROVE CallsType'
  BY <1>4, <1>t DEF Join, Abandon, Goto, CallsType, dataVars, ioVars, Phases
<1>5. ASSUME NEW c \in Calls, Snapshot(c) PROVE CallsType'
  <2>1. [ver |-> info[c], at |-> at[c]] \in States
    BY <1>t, PathAssumption DEF CallsType
  <2>2. saver' \in [Calls -> {"off", "on", "last"}] /\ ticks' \in [Calls -> Nat]
    BY <1>5, <1>t DEF Snapshot, CallsType
  <2> QED
    BY <1>5, <1>t, <2>1, <2>2 DEF Snapshot, CallsType, dataVars, ioVars
<1>6. ASSUME NEW c \in Calls, StartSave(c) PROVE CallsType'
  BY <1>6, <1>t DEF StartSave, DataSynced, CallsType, ioVars
<1>7. ASSUME NEW c \in Calls, Save(c) PROVE CallsType'
  BY <1>7, <1>t DEF Save, CallsType, dataVars, ioVars, callVars
<1>8. ASSUME NEW c \in Calls, Decide(c) PROVE CallsType'
  <2>1. platter' \in [Block -> SUBSET (0 .. MaxVersion)]
    BY <1>8, <1>t DEF Decide, DataSynced, CallsType
  <2> QED
    BY <1>8, <1>t, <1>a, <2>1 DEF Decide, Over, Goto, CallsType, ioVars, Phases
<1>9. ASSUME NEW c \in Calls, DeleteState(c) PROVE CallsType'
  BY <1>9, <1>t DEF DeleteState, Goto, CallsType, dataVars, ioVars, Phases
<1>10. ASSUME CallsEnd, doubtful' \subseteq Block,
              cache' \in [Block -> 0 .. MaxVersion],
              platter' \in [Block -> SUBSET (0 .. MaxVersion)]
       PROVE  CallsType'
  <2>1. ticks' \in [Calls -> Nat]
    BY <1>10, <1>t DEF CallsEnd, CallsType
  <2> QED
    BY <1>10, <1>t, <1>a, <2>1 DEF CallsEnd, CallsType, Phases
<1>11. ASSUME Kill PROVE CallsType'
  BY <1>10, <1>11, <1>t, <1>b DEF Kill, Doubts, CallsType
<1>12. ASSUME PowerLoss PROVE CallsType'
  <2>1. PICK survives \in [Block -> 0 .. MaxVersion] :
          cache' = survives /\ platter' = [b \in Block |-> {survives[b]}]
    BY <1>12 DEF PowerLoss
  <2>2. doubtful' \subseteq Block
    BY <1>12, <1>t, <1>b DEF PowerLoss, Doubts, LastOf, CallsType
  <2> QED
    BY <1>10, <1>12, <2>1, <2>2 DEF PowerLoss
<1>13. ASSUME ServerPublishes PROVE CallsType'
  BY <1>13, <1>t, <1>a DEF ServerPublishes, callVars, ioVars, CallsType, Version
<1>14. ASSUME UNCHANGED pathVars PROVE CallsType'
  BY <1>14, <1>t DEF pathVars, dataVars, ioVars, callVars, CallsType
<1>15. ASSUME NEW c \in Calls, Breaks(c) PROVE CallsType'
  <2>1. UNCHANGED <<srv, cache, platter, callVars>>
    BY <1>15 DEF Breaks
  <2> QED
    BY <1>15, <1>t, <2>1, BrokenWrites DEF callVars, CallsType
<1>16. ASSUME NEW p \in pending, Land(p) PROVE CallsType'
  BY <1>16, <1>t, <1>p, <1>a DEF Land, callVars, CallsType
<1> QED
  BY <1>1, <1>2, <1>3, <1>4, <1>5, <1>6, <1>7, <1>8, <1>9, <1>11, <1>12, <1>13, <1>14, <1>15,
     <1>16, <1>t DEF PathNext, CallStep, PathType

\* Calls that overlap, are abandoned or killed keep the promise of StateStore:
\* none of their steps does to the state file what StateFile does not.
THEOREM PathKeepsStore == PathSpec => KeepsStateStore
<1>1. PathInit => FileInit
  BY DEF PathInit
<1>2. PathType /\ [PathNext]_pathVars => [FileNext]_fileVars
  BY PathStepsFile
<1>3. PathSpec => FileSpec
  BY <1>1, <1>2, PathTypeStart, PathTypeStep, PTL DEF PathSpec, FileSpec
<1> QED
  BY <1>3, FileKeepsStore

-------------------------------------------------------------------------------
(***************************************************************************)
(* What a call may rely on.  Where no version is published while a call    *)
(* runs, everything alive works for the version served, and what a state   *)
(* says of that version, up to the last write before its position, is on   *)
(* the platter and stays there: but for blocks whose write was not awaited. *)
(***************************************************************************)
Started(c) == phase[c] # "new"

\* Nobody works for a version that is not served.
InfoInv == \A c \in Calls : info[c] <= srv /\ (Alive(c) => info[c] = srv)

OrderInv ==
  \A c, d \in Calls : d < c /\ Started(c) => Started(d) /\ info[d] <= info[c]

DataInv == \A b \in Block : cache[b] \in platter[b]

\* A write under way is the last one of a worker that will wait for it, or it
\* leaves its block in doubt.
PendInv ==
  \A p \in pending :
    \/ p.owner = Dropped /\ p.block \in doubtful
    \/ /\ p.owner \in Calls /\ Works(p.owner)
       /\ p.ver = info[p.owner] /\ p.block = at[p.owner] - 1

\* The block is in the file, or soon will be.
Coming(b) == cache[b] = srv \/ \E p \in pending : p.block = b /\ p.ver = srv

\* Every state that load may find, or that is being saved.
HeldInv ==
  \A s \in Held : s.ver <= srv /\ (s.ver = srv =>
    \A b \in (0 .. s.at - 1) \ doubtful : Coming(b) /\ (b < s.at - 1 => platter[b] = {srv}))

\* What a saver read, and where a worker is.
SnapInv ==
  \A c \in Calls : snap[c] # None =>
    snap[c].ver <= srv /\ (snap[c].ver = srv =>
      \A b \in (0 .. snap[c].at - 1) \ doubtful : Coming(b) /\ (b < snap[c].at - 1 => cache[b] = srv))

WorkInv ==
  \A c \in Calls :
    /\ info[c] = srv => \A b \in (0 .. at[c] - 1) \ doubtful :
         cache[b] = srv \/ \E p \in PendingOf(c) : p.block = b
    /\ outcome[c] = "done" => at[c] = Size
    /\ outcome[c] # "none" => Started(c)

\* The version of a call is still the last one that was called for.
Latest(c) == \A d \in Calls : d > c /\ Started(d) => info[d] = info[c]

OkInv ==
  \A c \in Calls : phase[c] \in {"deleting", "ok"} /\ Latest(c) =>
    \A b \in Block \ doubtful : platter[b] = {info[c]}

PathInv ==
  /\ PathType /\ InfoInv /\ OrderInv /\ DataInv
  /\ PendInv /\ HeldInv /\ SnapInv /\ WorkInv /\ OkInv

LEMMA PathInvStart == PathInit => PathInv
<1> SUFFICES ASSUME PathInit PROVE PathInv
  OBVIOUS
<1>1. PathType
  BY PathTypeStart
<1>2. Held = {}
  BY DEF PathInit, FileInit, NoStates, Held
<1>3. InfoInv /\ OrderInv /\ DataInv /\ OkInv /\ PendInv
  BY PathAssumption DEF PathInit, FileInit, AllIdle, InfoInv, Alive, SaverEnded, OrderInv,
     Started, DataInv, OkInv, PendInv
<1>4. SnapInv /\ WorkInv
  BY PathAssumption DEF PathInit, SnapInv, WorkInv, Started
<1> QED
  BY <1>1, <1>2, <1>3, <1>4 DEF PathInv, HeldInv

Quiet(c) ==
  \/ Fetch(c) \/ Breaks(c) \/ WorkerEnds(c) \/ Join(c) \/ Snapshot(c) \/ StartSave(c)
  \/ Save(c) \/ Decide(c) \/ DeleteState(c) \/ Abandon(c)

\* A step of a call that runs brings nobody to life.
LEMMA QuietStep ==
  ASSUME PathType, NEW c \in Calls, Quiet(c)
  PROVE  /\ srv' = srv /\ info' = info
         /\ \A d \in Calls : (Started(d)' <=> Started(d)) /\ (Alive(d)' => Alive(d))
<1>t. CallsType /\ TypeInv /\ FileTypeOK
  BY DEF PathType, TypeInv
<1>0. srv' = srv /\ info' = info
  BY DEF Quiet, Fetch, Breaks, WorkerEnds, Join, Snapshot, StartSave, Save, Decide, DeleteState,
     Abandon, dataVars, callVars
\* It stays where it is, or ends.
<1>a. ASSUME saver' = saver, \A d \in Calls : SaverIdle(d) => SaverIdle(d)',
             \A d \in Calls : phase'[d] = phase[d]
      PROVE  \A d \in Calls : (Started(d)' <=> Started(d)) /\ (Alive(d)' => Alive(d))
  BY <1>a DEF Started, Alive, SaverEnded
\* How the steps of a save move the saver.
<1>s. /\ Save(c) => UNCHANGED callVars /\ step[c] # "idle" /\ \A d \in Calls \ {c} : step'[d] = step[d]
      /\ StartSave(c) => \A d \in Calls \ {c} : step'[d] = step[d]
      /\ DeleteState(c) => step' = step
  <2>1. Save(c) => UNCHANGED callVars /\ step[c] # "idle" /\ \A d \in Calls \ {c} : step'[d] = step[d]
    BY <1>t DEF Save, SaveStep, Write, Sync, Rename, SaveFailed, SaveEnds, Renames, Busy, FileTypeOK, Calls
  <2> QED
    BY <1>t, <2>1 DEF StartSave, Create, DeleteState, Delete, FileTypeOK, Calls
<1>1. CASE Fetch(c) \/ WorkerEnds(c) \/ Breaks(c)
  BY <1>0, <1>1, <1>a DEF Fetch, WorkerEnds, Breaks, fileVars, saverVars, callVars, SaverIdle
<1>2. CASE Join(c)
  BY <1>0, <1>2, <1>t DEF Join, Goto, fileVars, saverVars, SaverIdle, Started, Alive, SaverEnded, CallsType
<1>3. CASE Snapshot(c)
  BY <1>0, <1>3, <1>t DEF Snapshot, fileVars, saverVars, SaverIdle, Started, Alive, SaverEnded, CallsType
<1>4. CASE StartSave(c)
  BY <1>0, <1>4, <1>a, <1>s, <1>t DEF StartSave, SaverIdle, CallsType
<1>5. CASE Save(c)
  BY <1>0, <1>5, <1>a, <1>s DEF callVars, SaverIdle
<1>6. CASE Decide(c)
  BY <1>0, <1>6, <1>t DEF Decide, Over, Goto, fileVars, saverVars, SaverIdle, Started, Alive, SaverEnded, CallsType
<1>7. CASE DeleteState(c)
  BY <1>0, <1>7, <1>s, <1>t DEF DeleteState, Goto, SaverIdle, Started, Alive, SaverEnded, CallsType
<1>8. CASE Abandon(c)
  BY <1>0, <1>8, <1>t DEF Abandon, Goto, fileVars, saverVars, SaverIdle, Started, Alive, SaverEnded, CallsType
<1> QED
  BY <1>0, <1>1, <1>2, <1>3, <1>4, <1>5, <1>6, <1>7, <1>8 DEF Quiet

\* After a kill or a loss of power nobody is alive.
LEMMA EndStep ==
  ASSUME CallsType, CallsEnd
  PROVE  \A d \in Calls : (Started(d)' <=> Started(d)) /\ ~Alive(d)'
  BY DEF CallsType, CallsEnd, Started, Alive, SaverEnded

LEMMA InfoStep ==
  ASSUME PathInv, PathType', "change" \notin Faults, [PathNext]_pathVars
  PROVE  InfoInv' /\ OrderInv'
<1>t. CallsType /\ CallsType' /\ PathType /\ InfoInv /\ OrderInv
  BY DEF PathInv, PathType
<1>n. srv \in Int /\ \A c \in Calls : c \in Int /\ info[c] \in Int
  BY <1>t, PathAssumption DEF CallsType, Version, Calls
<1>1. ASSUME srv' = srv, info' = info,
             \A d \in Calls : (Started(d)' <=> Started(d)) /\ (Alive(d)' => Alive(d))
      PROVE  InfoInv' /\ OrderInv'
  BY <1>1, <1>t DEF InfoInv, OrderInv
<1>2. ASSUME NEW c \in Calls, Quiet(c) PROVE InfoInv' /\ OrderInv'
  BY <1>1, <1>2, <1>t, QuietStep
<1>3. CASE Kill \/ PowerLoss
  BY <1>1, <1>3, <1>t, EndStep DEF Kill, PowerLoss, CallsEnd
<1>4. CASE UNCHANGED pathVars \/ \E p \in pending : Land(p)
  BY <1>1, <1>4 DEF Land, pathVars, fileVars, saverVars, dataVars, callVars, Started, Alive, SaverEnded, SaverIdle
<1>5. ASSUME NEW c \in Calls, Start(c) PROVE InfoInv' /\ OrderInv'
  <2>1. srv' = srv /\ info'[c] = srv /\ Started(c)' /\ ~Started(c)
    BY <1>5, <1>t DEF Start, Goto, CallsType, Started
  <2>2. \A d \in Calls \ {c} :
          /\ info'[d] = info[d]
          /\ (Started(d)' <=> Started(d))
          /\ Alive(d)' => Alive(d)
    BY <1>5, <1>t DEF Start, Goto, CallsType, Started, Alive, SaverEnded, SaverIdle, fileVars, saverVars
  <2>3. \A d \in Calls : d < c => Started(d)
    BY <1>5 DEF Start, Started
  <2>4. InfoInv'
    BY <1>n, <1>t, <2>1, <2>2 DEF InfoInv
  <2>5. OrderInv'
    BY <1>n, <1>t, <2>1, <2>2, <2>3 DEF OrderInv, InfoInv
  <2> QED
    BY <2>4, <2>5
<1>6. CASE ServerPublishes
  <2>1. srv' = srv + 1 /\ info' = info /\ \A d \in Calls : ~Alive(d)
    BY <1>6 DEF ServerPublishes, callVars
  <2>2. \A d \in Calls : (Started(d)' <=> Started(d)) /\ ~Alive(d)'
    BY <1>6, <2>1 DEF ServerPublishes, callVars, fileVars, saverVars, Started, Alive, SaverEnded, SaverIdle
  <2> QED
    BY <1>n, <1>t, <2>1, <2>2 DEF InfoInv, OrderInv
<1> QED
  BY <1>2, <1>3, <1>4, <1>5, <1>6 DEF PathNext, CallStep, Quiet

LEMMA Widths ==
  ASSUME CallsType
  PROVE  /\ Size \in Nat /\ srv \in Int
         /\ \A c \in Calls : c \in Int /\ info[c] \in Int /\ at[c] \in Int /\ at[c] <= Size
         /\ \A n \in Int : n <= Size => 0 .. n - 1 \subseteq Block
         /\ \A s \in States : s.ver \in Int /\ s.at \in Int /\ s.at <= Size
  BY PathAssumption, StateType DEF CallsType, Version, Calls, Block

LEMMA ServedStep ==
  ASSUME CallsType, [PathNext]_pathVars
  PROVE  srv' = srv \/ (srv' = srv + 1 /\ ServerPublishes)
  BY DEF PathNext, CallStep, Start, Fetch, Breaks, WorkerEnds, Join, Snapshot, StartSave, Save, Decide,
     DeleteState, Abandon, Land, Kill, PowerLoss, CallsEnd, ServerPublishes, pathVars, dataVars

LEMMA DoubtsStay ==
  ASSUME [PathNext]_pathVars
  PROVE  doubtful \subseteq doubtful'
  BY DEF PathNext, CallStep, Start, Fetch, Breaks, WorkerEnds, Join, Snapshot, StartSave, Save, Decide,
     DeleteState, Abandon, Land, Kill, PowerLoss, ServerPublishes, pathVars, dataVars, ioVars, Doubts

\* A write that nobody gave up is of the version served.
LEMMA PendServed ==
  ASSUME PathInv, NEW p \in pending, p.block \notin doubtful
  PROVE  p.owner \in Calls /\ Works(p.owner) /\ Alive(p.owner) /\ p.ver = srv /\ p.block \in Block
  BY DEF PathInv, PathType, CallsType, PendInv, InfoInv, Works, Alive

\* What is of the version served stays so; a loss of power keeps only what is
\* on the platter.
LEMMA DataStep ==
  ASSUME PathInv, [PathNext]_pathVars
  PROVE  /\ DataInv'
         /\ \A b \in Block \ doubtful' : platter[b] = {srv} => platter'[b] = {srv}
         /\ PowerLoss \/ \A b \in Block \ doubtful' : cache[b] = srv => cache'[b] = srv
<1>t. CallsType /\ DataInv /\ InfoInv
  BY DEF PathInv, PathType
<1>1. ASSUME UNCHANGED cache, platter' = platter \/ platter' = DataSynced
      PROVE  /\ DataInv'
             /\ \A b \in Block : platter[b] = {srv} => platter'[b] = {srv}
             /\ \A b \in Block : cache[b] = srv => cache'[b] = srv
  BY <1>1, <1>t DEF DataInv, DataSynced
<1>2. ASSUME NEW p \in pending, Land(p)
      PROVE  /\ DataInv'
             /\ \A b \in Block \ doubtful' : platter[b] = {srv} => platter'[b] = {srv}
             /\ \A b \in Block \ doubtful' : cache[b] = srv => cache'[b] = srv
  <2>1. p.block \in doubtful \/ p.ver = srv
    BY PendServed
  <2>2. /\ doubtful' = doubtful /\ p.block \in Block
        /\ cache' = [cache EXCEPT ![p.block] = p.ver]
        /\ platter' = [platter EXCEPT ![p.block] = @ \cup {p.ver}]
    BY <1>2, <1>t DEF Land, CallsType
  <2> QED
    BY <1>t, <2>1, <2>2 DEF DataInv, CallsType
<1>3. ASSUME NEW c \in Calls, Start(c) PROVE UNCHANGED cache /\ platter' = DataSynced
  BY <1>3 DEF Start, OpenedFile, DataSynced
<1>4. CASE PowerLoss
  <2>1. PICK survives \in [Block -> 0 .. MaxVersion] :
          /\ \A b \in Block : survives[b] \in platter[b]
          /\ cache' = survives /\ platter' = [b \in Block |-> {survives[b]}]
    BY <1>4 DEF PowerLoss
  <2> QED
    BY <1>4, <2>1 DEF DataInv
<1>5. ASSUME NEW c \in Calls, Quiet(c) PROVE UNCHANGED cache /\ (platter' = platter \/ platter' = DataSynced)
  BY <1>5 DEF Quiet, Fetch, Breaks, WorkerEnds, Join, Snapshot, StartSave, Save, Decide, DeleteState,
     Abandon, dataVars
<1>6. Kill \/ ServerPublishes \/ UNCHANGED pathVars => UNCHANGED <<cache, platter>>
  BY DEF Kill, ServerPublishes, pathVars, dataVars
<1> QED
  BY <1>1, <1>2, <1>3, <1>4, <1>5, <1>6 DEF PathNext, CallStep, Quiet

\* A write that nobody gave up stays under way until it is made.
LEMMA PendStep ==
  ASSUME PathInv, [PathNext]_pathVars, ~PowerLoss, NEW p \in pending, p.block \notin doubtful'
  PROVE  p \in pending' \/ cache'[p.block] = p.ver
<1>t. CallsType /\ p.block \in Block
  BY DEF PathInv, PathType, CallsType
<1>1. ASSUME NEW q \in pending, Land(q) PROVE p \in pending' \/ cache'[p.block] = p.ver
  <2>1. pending' = pending \ {q} /\ cache' = [cache EXCEPT ![q.block] = q.ver]
    BY <1>1 DEF Land
  <2> QED
    BY <1>t, <2>1 DEF CallsType
<1>2. ASSUME NEW c \in Calls, Breaks(c) PROVE p \in pending'
  <2>1. p.owner # c
    BY <1>t, <1>2, BrokenWrites DEF PendingOf, BlocksOf
  <2> QED
    BY <1>t, <1>2, <2>1, BrokenWrites
<1>3. ~Kill
  BY DEF Kill, Doubts, BlocksOf
<1>4. ASSUME NEW c \in Calls,
             \/ Start(c) \/ Fetch(c) \/ WorkerEnds(c) \/ Join(c) \/ Snapshot(c) \/ StartSave(c)
             \/ Save(c) \/ Decide(c) \/ DeleteState(c) \/ Abandon(c)
      PROVE  pending \subseteq pending'
  BY <1>4 DEF Start, Fetch, WorkerEnds, Join, Snapshot, StartSave, Save, Decide, DeleteState,
     Abandon, dataVars, ioVars
<1>5. ServerPublishes \/ UNCHANGED pathVars => pending' = pending
  BY DEF ServerPublishes, pathVars, dataVars, ioVars
<1> QED
  BY <1>1, <1>2, <1>3, <1>4, <1>5 DEF PathNext, CallStep

LEMMA ComingStep ==
  ASSUME PathInv, [PathNext]_pathVars, ~PowerLoss, srv' = srv, NEW b \in Block \ doubtful', Coming(b)
  PROVE  Coming(b)'
<1>1. CASE cache[b] = srv
  BY <1>1, DataStep DEF Coming
<1>2. ASSUME NEW p \in pending, p.block = b, p.ver = srv PROVE Coming(b)'
  <2>1. p \in pending' \/ cache'[p.block] = p.ver
    BY <1>2, PendStep
  <2> QED
    BY <1>2, <2>1 DEF Coming
<1> QED
  BY <1>1, <1>2 DEF Coming

LEMMA WritersStep ==
  ASSUME PathInv, [PathNext]_pathVars
  PROVE  PendInv'
<1>t. CallsType /\ PendInv
  BY DEF PathInv, PathType
<1>o. \A p \in pending : p.owner \in Calls \cup {Dropped}
  BY <1>t DEF CallsType
<1>w. /\ Size \in Nat /\ \A c \in Calls : at[c] \in Int
      /\ Dropped \notin Calls
  BY <1>t, DroppedType, PathAssumption DEF CallsType
\* The owners of writes work on.
<1>1. ASSUME pending' \subseteq pending,
             \A d \in Calls : PendingOf(d) # {} => Works(d)' /\ at'[d] = at[d] /\ info'[d] = info[d]
      PROVE  PendInv'
  <2> SUFFICES ASSUME NEW p \in pending'
               PROVE  \/ p.owner = Dropped /\ p.block \in doubtful'
                      \/ /\ p.owner \in Calls /\ Works(p.owner)'
                         /\ p.ver = info'[p.owner] /\ p.block = at'[p.owner] - 1
    BY DEF PendInv
  <2>1. p \in pending /\ PendingOf(p.owner) # {}
    BY <1>1 DEF PendingOf
  <2> QED
    BY <1>1, <1>t, <2>1, DoubtsStay DEF PendInv
<1>2. ASSUME NEW c \in Calls, Start(c) PROVE PendInv'
  <2>1. PendingOf(c) = {} /\ pending' = pending
    BY <1>2, <1>t, <1>w DEF Start, PendInv, PendingOf, Works
  <2>2. \A d \in Calls \ {c} : phase'[d] = phase[d] /\ outcome'[d] = outcome[d] /\ at'[d] = at[d] /\ info'[d] = info[d]
    BY <1>2, <1>t DEF Start, Goto, CallsType
  <2>3. \A d \in Calls : PendingOf(d) # {} => Works(d)
    BY <1>t, <1>w DEF PendInv, PendingOf
  <2> QED
    BY <1>1, <2>1, <2>2, <2>3 DEF Works
<1>3. ASSUME NEW c \in Calls, Fetch(c) PROVE PendInv'
  <2>1. /\ PendingOf(c) = {} /\ Works(c) /\ UNCHANGED <<phase, outcome, info, doubtful>>
        /\ pending' = pending \cup {[owner |-> c, block |-> at[c], ver |-> info[c]]}
        /\ at'[c] = at[c] + 1 /\ \A d \in Calls \ {c} : at'[d] = at[d]
    BY <1>3, <1>t DEF Fetch, CallsType
  <2>2. \A p \in pending : p.owner # c
    BY <2>1 DEF PendingOf
  <2>3. at[c] = at'[c] - 1
    BY <1>w, <2>1
  <2> QED
    BY <1>t, <2>1, <2>2, <2>3 DEF PendInv, Works
<1>4. ASSUME NEW c \in Calls, Breaks(c) PROVE PendInv'
  <2>1. UNCHANGED <<phase, outcome, info, at>>
    BY <1>4 DEF Breaks, callVars
  <2>2. \A q \in pending' : \/ q.owner = Dropped /\ q.block \in doubtful'
                            \/ q \in pending
    BY <1>4, <1>t, BrokenWrites DEF BlocksOf
  <2> QED
    BY <1>t, <2>1, <2>2, DoubtsStay DEF PendInv, Works
<1>5. ASSUME NEW c \in Calls, WorkerEnds(c) PROVE PendInv'
  <2>1. /\ PendingOf(c) = {} /\ UNCHANGED <<phase, info, at, pending>>
        /\ \A d \in Calls \ {c} : outcome'[d] = outcome[d]
    BY <1>5, <1>t DEF WorkerEnds, CallsType, dataVars, ioVars
  <2>2. \A d \in Calls : PendingOf(d) # {} => Works(d)
    BY <1>t, <1>w DEF PendInv, PendingOf
  <2> QED
    BY <1>1, <2>1, <2>2 DEF Works
<1>6. ASSUME NEW c \in Calls, Join(c) \/ Decide(c) \/ DeleteState(c) \/ Abandon(c) PROVE PendInv'
  <2>1. pending' = pending /\ info' = info
    BY <1>6 DEF Join, Decide, DeleteState, Abandon, dataVars, ioVars
  <2>2. \A d \in Calls : Works(d) => Works(d)' /\ at'[d] = at[d]
    BY <1>6, <1>t DEF Join, Decide, DeleteState, Abandon, Over, Goto, Works, CallsType
  <2>3. \A d \in Calls : PendingOf(d) # {} => Works(d)
    BY <1>t, <1>w DEF PendInv, PendingOf
  <2> QED
    BY <1>1, <2>1, <2>2, <2>3
<1>7. ASSUME UNCHANGED <<phase, outcome, info, at>>, pending' \subseteq pending PROVE PendInv'
  <2>1. \A d \in Calls : PendingOf(d) # {} => Works(d)
    BY <1>t, <1>w DEF PendInv, PendingOf
  <2> QED
    BY <1>1, <1>7, <2>1 DEF Works
<1>8. ASSUME NEW c \in Calls, Snapshot(c) \/ StartSave(c) \/ Save(c) PROVE PendInv'
  BY <1>7, <1>8 DEF Snapshot, StartSave, Save, dataVars, ioVars, callVars
<1>9. ASSUME NEW p \in pending, Land(p) PROVE PendInv'
  BY <1>7, <1>9 DEF Land, callVars
<1>10. ServerPublishes \/ UNCHANGED pathVars => PendInv'
  BY <1>7 DEF ServerPublishes, pathVars, dataVars, ioVars, callVars
<1>11. Kill \/ PowerLoss => PendInv'
  BY DEF Kill, PowerLoss, CallsEnd, PendInv
<1> QED
  BY <1>2, <1>3, <1>4, <1>5, <1>6, <1>8, <1>9, <1>10, <1>11 DEF PathNext, CallStep

LEMMA HeldStep ==
  ASSUME PathInv, [PathNext]_pathVars
  PROVE  HeldInv'
<1>t. CallsType /\ TypeInv /\ FileTypeOK /\ HeldInv /\ SnapInv /\ DataInv
  BY DEF PathInv, PathType, TypeInv
<1>w. srv \in Int /\ \A s \in States : s.ver \in Int /\ s.at \in Int /\ 0 .. s.at - 1 \subseteq Block
  BY <1>t, Widths
<1>s. Held \subseteq States
  BY <1>t, EntriesHeld
<1>1. ASSUME ~PowerLoss, NEW s \in Held
      PROVE  s.ver <= srv' /\ (s.ver = srv' =>
               \A b \in (0 .. s.at - 1) \ doubtful' : Coming(b)' /\ (b < s.at - 1 => platter'[b] = {srv'}))
  <2>1. s \in States /\ s.ver <= srv
    BY <1>s, <1>t DEF HeldInv
  <2>2. CASE srv' = srv + 1
    BY <1>w, <2>1, <2>2
  <2>3. CASE srv' = srv
    <3>1. ASSUME NEW b \in (0 .. s.at - 1) \ doubtful', s.ver = srv
          PROVE  Coming(b)' /\ (b < s.at - 1 => platter'[b] = {srv})
      <4>1. b \in Block \ doubtful' /\ b \in (0 .. s.at - 1) \ doubtful
        BY <1>w, <2>1, <3>1, DoubtsStay
      <4>2. Coming(b) /\ (b < s.at - 1 => platter[b] = {srv})
        BY <1>t, <3>1, <4>1 DEF HeldInv
      <4> QED
        BY <1>1, <2>3, <4>1, <4>2, ComingStep, DataStep
    <3> QED
      BY <2>1, <2>3, <3>1
  <2> QED
    BY <1>t, <2>2, <2>3, ServedStep
<1>2. ASSUME ~PowerLoss, Held' \subseteq Held PROVE HeldInv'
  BY <1>1, <1>2 DEF HeldInv
<1>3. ASSUME NEW c \in Calls, StartSave(c), ~PowerLoss PROVE HeldInv'
  <2>1. snap[c] \in States /\ srv' = srv /\ platter' = DataSynced /\ UNCHANGED <<cache, pending, doubtful>>
    BY <1>3, <1>t DEF StartSave, CallsType, ioVars
  <2>2. Held' \subseteq Held \cup {snap[c]}
    BY <1>3, <1>t, <2>1, HeldByCreate DEF StartSave, Calls
  <2>3. ASSUME NEW b \in (0 .. snap[c].at - 1) \ doubtful', snap[c].ver = srv'
        PROVE  Coming(b)' /\ (b < snap[c].at - 1 => platter'[b] = {srv'})
    <3>1. b \in Block /\ Coming(b) /\ (b < snap[c].at - 1 => cache[b] = srv)
      BY <1>3, <1>t, <1>w, <2>1, <2>3 DEF StartSave, SnapInv
    <3> QED
      BY <2>1, <3>1 DEF Coming, DataSynced
  <2>4. snap[c].ver <= srv'
    BY <1>3, <1>t, <2>1 DEF StartSave, SnapInv
  <2> QED
    BY <1>1, <1>3, <2>2, <2>3, <2>4 DEF HeldInv
<1>4. ASSUME NEW c \in Calls, Save(c) \/ DeleteState(c) PROVE Held' \subseteq Held
  BY <1>4, <1>t, HeldByStep DEF Save, DeleteState, Calls
<1>5. Kill => Held' \subseteq Held
  BY <1>t, HeldByStep DEF Kill
<1>6. UNCHANGED fileVars => Held' = Held
  BY DEF fileVars, saverVars, Held
<1>7. ASSUME NEW c \in Calls,
             \/ Start(c) \/ Fetch(c) \/ Breaks(c) \/ WorkerEnds(c) \/ Join(c) \/ Snapshot(c)
             \/ Decide(c) \/ Abandon(c)
      PROVE  UNCHANGED fileVars
  BY <1>7 DEF Start, Fetch, Breaks, WorkerEnds, Join, Snapshot, Decide, Abandon
<1>8. ServerPublishes \/ UNCHANGED pathVars \/ (\E p \in pending : Land(p)) => UNCHANGED fileVars
  BY DEF ServerPublishes, Land, pathVars
\* What remains of the power loss is what was on the platter.
<1>9. CASE PowerLoss
  <2>1. Held' \subseteq {Loaded'} /\ Held' \subseteq Held /\ srv' = srv
    BY <1>9, <1>t, HeldAfterLoss, HeldByStep DEF PowerLoss, CallsEnd
  <2>2. \A b \in Block : \A v : platter[b] = {v} => cache'[b] = v /\ platter'[b] = {v}
    BY <1>9 DEF PowerLoss
  <2>3. ASSUME NEW s \in Held', s.ver = srv, NEW b \in (0 .. s.at - 1) \ doubtful'
        PROVE  cache'[b] = srv /\ platter'[b] = {srv}
    <3>1. s = Loaded' /\ s \in Held /\ s \in States /\ b \in Block
      BY <1>s, <1>w, <2>1, <2>3
    <3>2. s # None /\ LastOf(s) \subseteq doubtful'
      BY <1>9, <3>1, ParsedType DEF PowerLoss, Doubts
    <3>3. b # s.at - 1
      BY <2>3, <3>1, <3>2 DEF LastOf
    <3>4. b < s.at - 1 /\ b \in (0 .. s.at - 1) \ doubtful
      BY <1>w, <2>3, <3>1, <3>3, DoubtsStay
    <3> QED
      BY <1>t, <2>2, <2>3, <3>1, <3>4 DEF HeldInv
  <2>4. \A s \in Held' : s.ver <= srv
    BY <1>t, <2>1 DEF HeldInv
  <2> QED
    BY <2>1, <2>3, <2>4 DEF HeldInv, Coming
<1> QED
  BY <1>2, <1>3, <1>4, <1>5, <1>6, <1>7, <1>8, <1>9 DEF PathNext, CallStep

\* What a saver read, and the positions of a worker, stay where they are, or
\* follow the file.
LEMMA WorkStep ==
  ASSUME PathInv, "change" \notin Faults, [PathNext]_pathVars
  PROVE  SnapInv' /\ WorkInv'
<1>t. /\ CallsType /\ InfoInv /\ SnapInv /\ WorkInv /\ HeldInv /\ DataInv /\ PendInv
      /\ PathType /\ TypeInv /\ FileTypeOK
  BY DEF PathInv, PathType, TypeInv
<1>w. /\ Size \in Nat /\ srv \in Int
      /\ \A c \in Calls : info[c] \in Int /\ at[c] \in Int
      /\ \A s \in States : s.ver \in Int /\ s.at \in Int /\ 0 .. s.at - 1 \subseteq Block
      /\ \A c \in Calls : 0 .. at[c] - 1 \subseteq Block
  BY <1>t, Widths
<1>s. \A c \in Calls : snap[c] # None => snap[c] \in States
  BY <1>t DEF CallsType
<1>1. CASE Kill \/ PowerLoss
  <2>1. CallsEnd
    BY <1>1 DEF Kill, PowerLoss
  <2> QED
    BY <2>1, <1>w DEF CallsEnd, SnapInv, WorkInv
<1>2. CASE ServerPublishes
  <2>1. srv' = srv + 1 /\ UNCHANGED <<cache, info, at, outcome, snap, phase>>
    BY <1>2 DEF ServerPublishes, callVars
  <2>2. SnapInv'
    BY <1>t, <1>w, <1>s, <2>1 DEF SnapInv
  <2>3. WorkInv'
    BY <1>t, <1>w, <2>1 DEF WorkInv, InfoInv, Started
  <2> QED
    BY <2>2, <2>3
<1>d. ASSUME ~PowerLoss, srv' = srv PROVE SnapInv' /\ WorkInv'
  <2>0. doubtful \subseteq doubtful'
    BY DoubtsStay
  \* What neither reads nor fetches.
  <2>1. ASSUME NEW c \in Calls, snap[c] # None, snap[c].ver = srv, NEW b \in (0 .. snap[c].at - 1) \ doubtful'
        PROVE  Coming(b)' /\ (b < snap[c].at - 1 => cache'[b] = srv)
    <3>1. b \in Block /\ Coming(b) /\ (b < snap[c].at - 1 => cache[b] = srv)
      BY <1>t, <1>w, <1>s, <2>0, <2>1 DEF SnapInv
    <3> QED
      BY <1>d, <2>1, <3>1, ComingStep, DataStep
  <2>n. ASSUME \A c \in Calls : snap'[c] \in {snap[c], None} PROVE SnapInv'
    BY <1>d, <1>t, <2>1, <2>n DEF SnapInv
  <2>2. ASSUME NEW c \in Calls, info[c] = srv, NEW b \in (0 .. at[c] - 1) \ doubtful'
        PROVE  cache'[b] = srv \/ \E p \in PendingOf(c)' : p.block = b
    <3>1. b \in Block /\ (cache[b] = srv \/ \E p \in PendingOf(c) : p.block = b)
      BY <1>t, <1>w, <2>0, <2>2 DEF WorkInv
    <3>2. CASE cache[b] = srv
      BY <1>d, <2>2, <3>1, <3>2, DataStep
    <3>3. ASSUME NEW p \in PendingOf(c), p.block = b PROVE cache'[b] = srv \/ \E q \in PendingOf(c)' : q.block = b
      <4>1. p \in pending /\ p.owner = c /\ p.block \notin doubtful /\ p.block \notin doubtful'
        BY <2>0, <2>2, <3>3 DEF PendingOf
      <4>2. p.ver = srv
        BY <4>1, PendServed
      <4>3. p \in pending' \/ cache'[p.block] = p.ver
        BY <1>d, <4>1, PendStep
      <4> QED
        BY <3>3, <4>1, <4>2, <4>3 DEF PendingOf
    <3> QED
      BY <3>1, <3>2, <3>3
  <2>w. ASSUME NEW c \in Calls, info'[c] = info[c], at'[c] \in {at[c], 0},
               outcome'[c] = "none" \/ (outcome'[c] = outcome[c] /\ at'[c] = at[c]),
               Started(c) => Started(c)'
        PROVE  /\ info'[c] = srv' => \A b \in (0 .. at'[c] - 1) \ doubtful' :
                    cache'[b] = srv' \/ \E p \in PendingOf(c)' : p.block = b
               /\ outcome'[c] = "done" => at'[c] = Size
               /\ outcome'[c] # "none" => Started(c)'
    BY <1>d, <1>t, <1>w, <2>2, <2>w DEF WorkInv
  <2>v. ASSUME info' = info, \A c \in Calls :
                 /\ at'[c] \in {at[c], 0}
                 /\ outcome'[c] = "none" \/ (outcome'[c] = outcome[c] /\ at'[c] = at[c])
                 /\ Started(c) => Started(c)'
        PROVE  WorkInv'
    BY <2>w, <2>v DEF WorkInv
  <2>3. ASSUME NEW c \in Calls, Start(c) PROVE SnapInv' /\ WorkInv'
    <3>1. /\ snap' = snap /\ outcome' = outcome /\ cache' = cache /\ pending' = pending
          /\ info'[c] = srv /\ ~Started(c) /\ Started(c)'
          /\ at'[c] = IF Loaded # None /\ Loaded.ver = srv THEN Loaded.at ELSE 0
          /\ \A d \in Calls \ {c} : info'[d] = info[d] /\ at'[d] = at[d] /\ phase'[d] = phase[d]
          /\ \A b \in BlocksOf(pending) : b < at'[c] => b \in doubtful'
      BY <2>3, <1>t DEF Start, OpenedFile, Goto, Doubts, CallsType, Started
    <3>2. ASSUME NEW b \in (0 .. at'[c] - 1) \ doubtful' PROVE cache'[b] = srv
      <4>1. CASE Loaded # None /\ Loaded.ver = srv
        <5>1. Loaded \in Held /\ Loaded \in States /\ at'[c] = Loaded.at
          BY <1>t, <3>1, <4>1, EntriesHeld
        <5>2. Coming(b)
          BY <1>t, <2>0, <3>2, <4>1, <5>1 DEF HeldInv
        <5>3. b \notin BlocksOf(pending)
          BY <1>w, <3>1, <3>2, <5>1
        <5> QED
          BY <3>1, <5>2, <5>3 DEF Coming, BlocksOf
      <4> QED
        BY <3>1, <3>2, <4>1
    <3>3. \A d \in Calls \ {c} : Started(d) => Started(d)'
      BY <3>1 DEF Started
    <3>4. outcome'[c] = "none"
      BY <1>t, <3>1 DEF WorkInv, CallsType
    <3> QED
      BY <1>d, <2>n, <2>w, <3>1, <3>2, <3>3, <3>4 DEF WorkInv
  <2>4. ASSUME NEW c \in Calls, Fetch(c) PROVE SnapInv' /\ WorkInv'
    <3>1. /\ snap' = snap /\ outcome' = outcome /\ phase' = phase /\ info' = info /\ outcome[c] = "none"
          /\ at'[c] = at[c] + 1 /\ at[c] \in Block
          /\ \A d \in Calls \ {c} : at'[d] = at[d]
      BY <2>4, <1>t, <1>w DEF Fetch, Works, CallsType, Block
    <3>2. \E p \in PendingOf(c)' : p.block = at[c]
      <4>1. [owner |-> c, block |-> at[c], ver |-> info[c]] \in pending'
        BY <2>4 DEF Fetch
      <4> QED
        BY <4>1 DEF PendingOf
    <3>3. \A b \in 0 .. at'[c] - 1 : b = at[c] \/ b \in 0 .. at[c] - 1
      BY <1>w, <3>1
    <3>4. \A d \in Calls : Started(d) => Started(d)'
      BY <3>1 DEF Started
    <3> QED
      BY <1>d, <2>2, <2>n, <2>w, <3>1, <3>2, <3>3, <3>4 DEF WorkInv
  <2>5. ASSUME NEW c \in Calls, WorkerEnds(c) PROVE SnapInv' /\ WorkInv'
    <3>1. /\ snap' = snap /\ at' = at /\ info' = info /\ phase' = phase /\ Started(c)
          /\ outcome'[c] = "done" => at[c] = Size
          /\ \A d \in Calls \ {c} : outcome'[d] = outcome[d]
      BY <2>5, <1>t DEF WorkerEnds, Works, Started, CallsType
    <3>2. \A d \in Calls : Started(d) => Started(d)'
      BY <3>1 DEF Started
    <3> QED
      BY <1>d, <2>2, <2>n, <2>w, <3>1, <3>2 DEF WorkInv
  <2>6. ASSUME NEW c \in Calls, Snapshot(c) PROVE SnapInv' /\ WorkInv'
    <3>1. /\ UNCHANGED <<at, info, phase, outcome, cache, pending, doubtful>>
          /\ snap'[c] = [ver |-> info[c], at |-> at[c]]
          /\ \A d \in Calls \ {c} : snap'[d] = snap[d]
      BY <2>6, <1>t DEF Snapshot, dataVars, ioVars, CallsType
    <3>2. ASSUME info[c] = srv, NEW b \in (0 .. at[c] - 1) \ doubtful
          PROVE  Coming(b) /\ (b < at[c] - 1 => cache[b] = srv)
      <4>1. CASE cache[b] = srv
        BY <4>1 DEF Coming
      <4>2. ASSUME NEW p \in PendingOf(c), p.block = b PROVE Coming(b) /\ ~(b < at[c] - 1)
        <5>1. p \in pending /\ p.owner = c /\ p.block \notin doubtful
          BY <3>2, <4>2 DEF PendingOf
        <5>2. p.ver = srv /\ p.block = at[c] - 1
          BY <1>t, <5>1, PendServed DEF PendInv
        <5> QED
          BY <1>w, <4>2, <5>1, <5>2 DEF Coming
      <4> QED
        BY <1>t, <3>2, <4>1, <4>2 DEF WorkInv
    <3>3. SnapInv'
      BY <1>d, <1>t, <2>1, <3>1, <3>2 DEF SnapInv, InfoInv, Coming
    <3> QED
      BY <2>v, <3>1, <3>3 DEF Started
  <2>7. ASSUME NEW c \in Calls, StartSave(c) \/ Save(c) \/ Breaks(c) PROVE SnapInv' /\ WorkInv'
    <3>1. UNCHANGED <<at, info, phase, outcome>> /\ \A d \in Calls : snap'[d] \in {snap[d], None}
      BY <2>7, <1>t DEF StartSave, Save, Breaks, callVars, CallsType
    <3> QED
      BY <2>n, <2>v, <3>1 DEF Started
  <2>8. ASSUME NEW c \in Calls, Join(c) \/ Decide(c) \/ DeleteState(c) \/ Abandon(c)
        PROVE  SnapInv' /\ WorkInv'
    <3>1. info' = info /\ snap' = snap
      BY <2>8 DEF Join, Decide, DeleteState, Abandon
    <3>2. \A d \in Calls : \/ at'[d] = 0 /\ outcome'[d] = "none"
                           \/ at'[d] = at[d] /\ outcome'[d] = outcome[d]
      BY <2>8, <1>t DEF Join, Decide, Over, DeleteState, Abandon, CallsType
    <3>3. Quiet(c)
      BY <2>8 DEF Quiet
    <3> QED
      BY <1>t, <2>n, <2>v, <3>1, <3>2, <3>3, QuietStep
  <2>9. CASE UNCHANGED pathVars \/ \E p \in pending : Land(p)
    BY <2>n, <2>v, <2>9 DEF Land, pathVars, callVars, Started
  <2> QED
    BY <1>1, <1>2, <2>3, <2>4, <2>5, <2>6, <2>7, <2>8, <2>9 DEF PathNext, CallStep
<1> QED
  BY <1>1, <1>2, <1>d, <1>t, ServedStep

LEMMA OkStep ==
  ASSUME PathInv, "change" \notin Faults, [PathNext]_pathVars
  PROVE  OkInv'
<1>t. /\ CallsType /\ PathType /\ InfoInv /\ OrderInv /\ WorkInv /\ DataInv /\ OkInv /\ PendInv
  BY DEF PathInv, PathType
<1>w. /\ Size \in Nat /\ srv \in Int /\ Block = 0 .. Size - 1
      /\ \A c \in Calls : c \in Int /\ info[c] \in Int
  BY <1>t, Widths DEF Block
\* No call becomes ok, and no version is called for.
<1>0. doubtful \subseteq doubtful'
  BY DoubtsStay
<1>1. ASSUME info' = info,
             \A c \in Calls : /\ phase'[c] \in {"deleting", "ok"} => phase[c] \in {"deleting", "ok"}
                              /\ Started(c) => Started(c)',
             \A b \in Block : platter'[b] \subseteq platter[b] /\ platter'[b] # {}
      PROVE  OkInv'
  <2>1. ASSUME NEW c \in Calls, phase'[c] \in {"deleting", "ok"}, Latest(c)', NEW b \in Block \ doubtful'
        PROVE  platter'[b] = {info'[c]}
    <3>1. phase[c] \in {"deleting", "ok"} /\ Latest(c)
      BY <1>1, <2>1 DEF Latest
    <3> QED
      BY <1>0, <1>1, <1>t, <2>1, <3>1 DEF OkInv
  <2> QED
    BY <2>1 DEF OkInv
<1>2. ASSUME UNCHANGED cache, platter' = platter \/ platter' = DataSynced
      PROVE  \A b \in Block : platter'[b] \subseteq platter[b] /\ platter'[b] # {}
  BY <1>2, <1>t DEF DataSynced, DataInv
<1>3. ASSUME NEW c \in Calls, Start(c) PROVE OkInv'
  <2>1. /\ UNCHANGED cache /\ platter' = DataSynced /\ ~Started(c)
        /\ phase'[c] = "run" /\ \A d \in Calls \ {c} : phase'[d] = phase[d] /\ info'[d] = info[d]
    BY <1>3, <1>t DEF Start, OpenedFile, DataSynced, Goto, CallsType, Started
  <2>2. ASSUME NEW d \in Calls, phase'[d] \in {"deleting", "ok"}, Latest(d)', NEW b \in Block \ doubtful'
        PROVE  platter'[b] = {info'[d]}
    <3>1. d # c /\ phase[d] \in {"deleting", "ok"} /\ info'[d] = info[d]
      BY <2>1, <2>2
    <3>2. Latest(d)
      BY <2>1, <2>2, <3>1 DEF Latest, Started
    <3> QED
      BY <1>0, <1>2, <1>t, <2>1, <2>2, <3>1, <3>2 DEF OkInv
  <2> QED
    BY <2>2 DEF OkInv
<1>4. ASSUME NEW p \in pending, Land(p) PROVE OkInv'
  <2>1. UNCHANGED <<phase, info, doubtful>> /\ p.block \in Block
    BY <1>4, <1>t DEF Land, callVars, CallsType
  <2>2. ASSUME NEW d \in Calls, phase[d] \in {"deleting", "ok"}, Latest(d), NEW b \in Block \ doubtful
        PROVE  platter'[b] = {info[d]}
    <3>1. platter[b] = {info[d]} /\ Started(d)
      BY <1>t, <2>2 DEF OkInv, Started
    <3>2. CASE p.block # b
      BY <1>4, <1>t, <2>1, <3>1, <3>2 DEF Land, CallsType
    <3>3. CASE p.block = b
      <4>1. /\ p.owner \in Calls /\ Works(p.owner) /\ Started(p.owner)
            /\ p.ver = srv /\ info[p.owner] = srv
        BY <1>t, <2>2, <3>3, PendServed DEF InfoInv, Works, Started
      <4>2. info[d] = srv
        BY <1>t, <1>w, <2>2, <3>1, <4>1 DEF InfoInv, OrderInv, Latest
      <4> QED
        BY <1>4, <1>t, <2>1, <3>1, <3>3, <4>1, <4>2 DEF Land, CallsType
    <3> QED
      BY <3>2, <3>3
  <2> QED
    BY <2>1, <2>2 DEF OkInv, Latest, Started
<1>5. ASSUME NEW c \in Calls, Decide(c) PROVE OkInv'
  <2>1. UNCHANGED <<cache, info>> /\ (platter' = platter \/ platter' = DataSynced) /\ Started(c)' /\ phase[c] = "stopping"
    BY <1>5, <1>t DEF Decide, Over, Goto, CallsType, Started
  <2>2. CASE phase'[c] = "deleting"
    <3>1. outcome[c] = "done" /\ platter' = DataSynced
      BY <1>5, <1>t, <2>2 DEF Decide, Over, Goto, CallsType
    <3>p. PendingOf(c) = {}
      BY <1>t, <3>1, DroppedType DEF PendInv, PendingOf, Works
    <3>2. info[c] = srv /\ \A b \in Block \ doubtful : cache[b] = srv
      BY <1>t, <1>w, <2>1, <3>1, <3>p DEF InfoInv, Alive, WorkInv
    <3>3. ASSUME NEW d \in Calls, phase'[d] \in {"deleting", "ok"}, Latest(d)', NEW b \in Block \ doubtful'
          PROVE  platter'[b] = {info'[d]}
      <4>1. platter'[b] = {srv}
        BY <1>0, <3>1, <3>2, <3>3 DEF DataSynced
      <4>2. d # c => phase'[d] = phase[d] /\ Started(d)
        BY <1>5, <1>t, <3>3 DEF Decide, Over, Goto, CallsType, Started
      <4>3. d # c => info[d] = srv
        BY <1>t, <1>w, <2>1, <3>2, <3>3, <4>2 DEF Latest, OrderInv, InfoInv, Started
      <4> QED
        BY <2>1, <3>2, <4>1, <4>3
    <3> QED
      BY <3>3 DEF OkInv
  <2>3. CASE phase'[c] \in {"dropping", "failed"}
    <3>1. \A d \in Calls \ {c} : phase'[d] = phase[d]
      BY <1>5, <1>t DEF Decide, Over, Goto, CallsType
    <3> QED
      BY <1>1, <1>2, <2>1, <2>3, <3>1 DEF Started
  <2> QED
    BY <1>5, <1>t, <2>2, <2>3 DEF Decide, Over, Goto, CallsType
<1>6. ASSUME NEW c \in Calls,
             \/ Fetch(c) \/ Breaks(c) \/ WorkerEnds(c) \/ Join(c) \/ Snapshot(c) \/ StartSave(c)
             \/ Save(c) \/ DeleteState(c) \/ Abandon(c)
      PROVE  OkInv'
  <2>1. UNCHANGED <<cache, info>> /\ (platter' = platter \/ platter' = DataSynced)
    BY <1>6 DEF Fetch, Breaks, WorkerEnds, Join, Snapshot, StartSave, Save, DeleteState, Abandon, dataVars, callVars
  <2>2. \A d \in Calls : phase'[d] \in {"deleting", "ok"} => phase[d] \in {"deleting", "ok"}
    BY <1>6, <1>t DEF Fetch, Breaks, WorkerEnds, Join, Snapshot, StartSave, Save, DeleteState, Abandon, callVars, Goto, CallsType
  <2>3. Quiet(c)
    BY <1>6 DEF Quiet
  <2> QED
    BY <1>1, <1>2, <1>t, <2>1, <2>2, <2>3, QuietStep
<1>7. CASE Kill \/ PowerLoss
  <2>1. CallsEnd /\ \A b \in Block : platter'[b] \subseteq platter[b] /\ platter'[b] # {}
    BY <1>7, <1>t DEF Kill, PowerLoss, DataInv
  <2> QED
    BY <1>1, <2>1, <1>t DEF CallsEnd, CallsType, Started
<1>8. CASE ServerPublishes \/ UNCHANGED pathVars
  <2>1. UNCHANGED <<cache, platter, phase, info>>
    BY <1>8 DEF ServerPublishes, pathVars, dataVars, callVars
  <2> QED
    BY <1>1, <1>2, <2>1 DEF Started
<1> QED
  BY <1>3, <1>4, <1>5, <1>6, <1>7, <1>8 DEF PathNext, CallStep

LEMMA PathInvStep ==
  ASSUME "change" \notin Faults
  PROVE  PathInv /\ [PathNext]_pathVars => PathInv'
<1> SUFFICES ASSUME PathInv, [PathNext]_pathVars PROVE PathInv'
  OBVIOUS
<1>1. PathType'
  BY PathTypeStep DEF PathInv
<1> QED
  BY <1>1, InfoStep, DataStep, WritersStep, HeldStep, WorkStep, OkStep DEF PathInv

LEMMA PathInvAlways ==
  ASSUME "change" \notin Faults
  PROVE  PathSpec => []PathInv
<1>1. PathInv /\ [PathNext]_pathVars => PathInv'
  BY PathInvStep
<1> QED
  BY <1>1, PathInvStart, PTL DEF PathSpec

\* Whatever a call finds in the state file, put there by calls that ended, were
\* abandoned or were killed at any of their steps: what it says up to the last
\* write before its position (fetch_range) is on the platter, if that write was
\* awaited; provided the server publishes nothing while a call runs.
THEOREM ClaimsAlwaysHeld ==
  ASSUME "change" \notin Faults
  PROVE  PathSpec => []ClaimsHeld
<1>1. PathInv => ClaimsHeld
  <2> SUFFICES ASSUME PathInv, NEW s \in Entries \ {None}, s.ver = srv, NEW b \in (0 .. s.at - 2) \ doubtful
               PROVE  platter[b] = {s.ver}
    BY DEF ClaimsHeld
  <2>1. s \in Held /\ s \in States
    BY EntriesHeld DEF PathInv, PathType
  <2>2. b \in (0 .. s.at - 1) \ doubtful /\ b < s.at - 1
    BY <2>1, Widths DEF PathInv, PathType
  <2> QED
    BY <2>1, <2>2 DEF PathInv, HeldInv
<1> QED
  BY <1>1, PathInvAlways, PTL

\* No call that shares the path takes back what download() returned Ok for, but
\* for blocks whose write nobody awaited.
THEOREM OkAlwaysIntact ==
  ASSUME "change" \notin Faults
  PROVE  PathSpec => []OkIntact
<1>1. PathInv => OkIntact
  <2> SUFFICES ASSUME PathInv, NEW c \in Calls, phase[c] = "ok",
                      \A d \in Calls : d > c /\ phase[d] # "new" => info[d] = info[c],
                      NEW b \in Block \ doubtful
               PROVE  cache[b] = info[c]
    BY DEF OkIntact
  <2> QED
    BY DEF PathInv, OkInv, DataInv, Latest, Started
<1> QED
  BY <1>1, PathInvAlways, PTL
===============================================================================
