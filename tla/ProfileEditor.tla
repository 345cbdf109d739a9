---------------------------- MODULE ProfileEditor ----------------------------
(***************************************************************************)
(* The tray's configuration (cmd/tray/config.go, menu.go) and the window   *)
(* that edits it (profile_editor_windows.go).                              *)
(*                                                                         *)
(* The tray keeps the configuration in memory and in a file.  Goroutines   *)
(* of the menu and of running targets set the language, store a generated  *)
(* token or reload the file; the editor's window has a goroutine too.  A   *)
(* Config copies like any Go struct: its slices are references to arrays,  *)
(* which copies share and which are kept here in a heap.                   *)
(*                                                                         *)
(* The list of targets stands for both lists, and a profile for what its   *)
(* form says.  An array that is no longer referenced is free.              *)
(*                                                                         *)
(* Names that Tray has too are others here, so that TrayProofs can extend  *)
(* both modules.                                                           *)
(***************************************************************************)
EXTENDS Integers, SequencesExt

CONSTANTS
  Goroutines, \* those that change the configuration, but for the editor's
  Arrays,     \* arrays that the heap has
  Texts,      \* what a user may enter for a profile
  Languages,
  Nil,       \* no array
  MaxLen,     \* bound: profiles
  MaxOps      \* bound: what users do

ASSUME BoundsAssumption == MaxLen \in Nat /\ MaxOps \in Nat
ASSUME NilAssumption == Nil \notin Arrays

VARIABLES
  heap,     \* the arrays
  mem,      \* app.cfg
  lang,     \* the language that is shown
  disk,     \* the file
  win,      \* the editor's window: "saved" between the two steps of a save
  work,     \* workingCfg
  sel,      \* targetSelected, from 1, or 0 for none
  form,     \* the text fields
  at,       \* where each goroutine is
  held,     \* the Config that each has copied
  data,     \* what each is about to write to the file, or has read
  ops,      \* what users have done
  wanted,   \* history: the list as the user has entered it
  saved,    \* history: this window has saved
  reused,   \* history: a window that had saved was used again
  outdated, \* history: the configuration changed behind a window
  astray    \* history: a save has failed, or run beside another

editor == <<win, work, sel, form, wanted, saved>>
goroutines == <<at, held, data>>
flags == <<reused, outdated, astray>>
editVars == <<heap, mem, lang, disk, editor, goroutines, ops, flags>>

Profiles == Texts \cup {"new", "token"}
Lists == BoundedSeq(Profiles, MaxLen)
Configs == [arr : Arrays \cup {Nil}, len : 0..MaxLen, lang : Languages]
Files == [lang : Languages, list : Lists]

\* The list of a Config, in a given heap.
ListIn(h, cfg) == IF cfg.arr = Nil THEN <<>> ELSE SubSeq(h[cfg.arr], 1, cfg.len)
List(cfg) == ListIn(heap, cfg)

EditTypeOK ==
  /\ heap \in [Arrays -> Lists]
  /\ mem \in Configs /\ mem.arr # Nil
  /\ lang \in Languages
  /\ disk \in Files
  /\ win \in {"closed", "open", "saved"}
  /\ work \in Configs
  /\ \A cfg \in {mem, work} : cfg.arr # Nil => cfg.len <= Len(heap[cfg.arr])
  /\ sel \in 0..work.len
  /\ form \in Profiles \cup {Nil}
  /\ at \in [Goroutines -> {"idle", "lang", "marshal", "write", "apply"}]
  /\ held \in [Goroutines -> Configs]
  /\ data \in [Goroutines -> Files]
  /\ ops \in 0..MaxOps
  /\ wanted \in Lists
  /\ {saved, reused, outdated, astray} \subseteq BOOLEAN

NoConfig == [arr |-> Nil, len |-> 0, lang |-> mem.lang]

EditInit ==
  \E a \in Arrays, l \in Languages, list \in BoundedSeq(Texts, MaxLen) :
    /\ heap = [b \in Arrays |-> IF b = a THEN list ELSE <<>>]
    /\ mem = [arr |-> a, len |-> Len(list), lang |-> l]
    /\ lang = l
    /\ disk = [lang |-> l, list |-> list]
    /\ win = "closed"
    /\ work = [arr |-> Nil, len |-> 0, lang |-> l]
    /\ sel = 0
    /\ form = Nil
    /\ at = [g \in Goroutines |-> "idle"]
    /\ held = [g \in Goroutines |-> [arr |-> Nil, len |-> 0, lang |-> l]]
    /\ data = [g \in Goroutines |-> [lang |-> l, list |-> <<>>]]
    /\ ops = 0
    /\ wanted = <<>>
    /\ saved = FALSE /\ reused = FALSE /\ outdated = FALSE /\ astray = FALSE

----------------------------------------------------------------------------
\* The heap.

Used == {mem.arr, work.arr} \cup {held[g].arr : g \in Goroutines}

\* append(list[:i-1], list[i:]...): the last element stays where it was.
Shift(array, i, len) ==
  [j \in DOMAIN array |-> IF j \in i .. len - 1 THEN array[j + 1] ELSE array[j]]

\* What users do.
Op == ops < MaxOps /\ ops' = ops + 1

Saving == win = "saved" \/ \E g \in Goroutines : at[g] # "idle"

----------------------------------------------------------------------------
\* The editor.

\* Mutant of Open: the configuration is not cloned.
OpenShared ==
  /\ Op
  /\ win = "closed"
  /\ win' = "open"
  /\ work' = mem
  /\ sel' = IF mem.len > 0 THEN 1 ELSE 0
  /\ form' = IF mem.len > 0 THEN List(mem)[1] ELSE Nil
  /\ wanted' = List(mem)
  /\ saved' = FALSE
  /\ UNCHANGED <<heap, mem, lang, disk, goroutines, flags>>

\* openProfileEditor and run show a clone of the configuration.
Open ==
  /\ Op
  /\ win = "closed"
  /\ win' = "open"
  /\ \E a \in Arrays \ Used :
       /\ heap' = [heap EXCEPT ![a] = List(mem)]
       /\ work' = [mem EXCEPT !.arr = a]
  /\ sel' = IF mem.len > 0 THEN 1 ELSE 0
  /\ form' = IF mem.len > 0 THEN List(mem)[1] ELSE Nil
  /\ wanted' = List(mem)
  /\ saved' = FALSE
  /\ UNCHANGED <<mem, lang, disk, goroutines, flags>>

\* commitTarget: the heap with the form in the selected place.
Commit == IF sel = 0 THEN heap ELSE [heap EXCEPT ![work.arr][sel] = form]

\* loadTarget, of a given heap and working copy.
Load(h, cfg, i) ==
  /\ sel' = i
  /\ form' = IF i = 0 THEN Nil ELSE h[cfg.arr][i]

Editing ==
  /\ Op
  /\ win = "open"
  /\ reused' = (reused \/ saved)
  /\ UNCHANGED <<mem, lang, disk, win, goroutines, saved, outdated, astray>>

Type(text) ==
  /\ Op
  /\ win = "open"
  /\ sel # 0
  /\ form' = text
  /\ wanted' = [wanted EXCEPT ![sel] = text]
  /\ UNCHANGED <<heap, mem, lang, disk, win, work, sel, saved, goroutines, flags>>

Select(i) ==
  /\ Editing
  /\ i \in 1 .. work.len
  /\ heap' = Commit
  /\ Load(heap', work, i)
  /\ UNCHANGED <<work, wanted>>

\* The new profile goes into the array, where that has room, or into another.
Add ==
  /\ Editing
  /\ work.len < MaxLen
  /\ LET list == Append(ListIn(Commit, work), "new")
     IN \/ /\ heap' = [Commit EXCEPT ![work.arr] =
                         list \o SubSeq(@, Len(list) + 1, Len(@))]
           /\ work' = [work EXCEPT !.len = @ + 1]
        \/ \E a \in Arrays \ Used :
             /\ work.len = Len(heap[work.arr])
             /\ heap' = [Commit EXCEPT ![a] = list]
             /\ work' = [work EXCEPT !.len = @ + 1, !.arr = a]
  /\ Load(heap', work', work'.len)
  /\ wanted' = Append(wanted, "new")

\* Mutant of RemoveTarget: targetSelected is not reset, and the form is committed
\* once more when the list is refreshed.
RemoveTargetStillSelected ==
  /\ Editing
  /\ sel # 0
  /\ heap' = [heap EXCEPT ![work.arr] = [Shift(@, sel, work.len) EXCEPT ![sel] = form]]
  /\ work' = [work EXCEPT !.len = @ - 1]
  /\ Load(heap', work', IF sel < work.len THEN sel ELSE work.len - 1)
  /\ wanted' = RemoveAt(wanted, sel)

\* removeTarget, confirmed.  Nothing is selected when the list is refreshed.
RemoveTarget ==
  /\ Editing
  /\ sel # 0
  /\ heap' = [heap EXCEPT ![work.arr] = Shift(@, sel, work.len)]
  /\ work' = [work EXCEPT !.len = @ - 1]
  /\ Load(heap', work', IF sel < work.len THEN sel ELSE work.len - 1)
  /\ wanted' = RemoveAt(wanted, sel)

\* doSave commits, and what is not valid or cannot be written goes no further.
SaveRefused ==
  /\ Editing
  /\ heap' = Commit
  /\ UNCHANGED <<work, sel, form, wanted>>

\* Otherwise it writes the file ...
Save ==
  /\ Op
  /\ win = "open"
  /\ win' = "saved"
  /\ heap' = Commit
  /\ disk' = [lang |-> work.lang, list |-> ListIn(heap', work)]
  /\ reused' = (reused \/ saved)
  /\ astray' = (astray \/ Saving)
  /\ UNCHANGED <<mem, lang, work, sel, form, wanted, saved, goroutines, outdated>>

\* ... and then makes the working copy the tray's configuration.
Adopt ==
  /\ win = "saved"
  /\ win' = "open"
  /\ mem' = work
  /\ saved' = TRUE
  /\ UNCHANGED <<heap, lang, disk, work, sel, form, wanted, goroutines, ops, flags>>

Close ==
  /\ win = "open"
  /\ win' = "closed"
  /\ work' = NoConfig
  /\ sel' = 0
  /\ form' = Nil
  /\ wanted' = <<>>
  /\ UNCHANGED <<heap, mem, lang, disk, saved, goroutines, ops, flags>>

----------------------------------------------------------------------------
\* The other goroutines.

Proceed(g, label) == at' = [at EXCEPT ![g] = label]

\* One of them begins what changes the configuration.
Begin(g) ==
  /\ Op
  /\ at[g] = "idle"
  /\ astray' = (astray \/ Saving)
  /\ outdated' = (outdated \/ win # "closed")
  /\ UNCHANGED <<editor, disk, reused>>

\* setLang shows the language ...
SetLang(g, l) ==
  /\ Begin(g)
  /\ lang' = l
  /\ data' = [data EXCEPT ![g].lang = l]
  /\ Proceed(g, "lang")
  /\ UNCHANGED <<heap, mem, held>>

\* Mutant of StoreLang: what is saved was copied before the change.
StoreLangLate(g) ==
  /\ at[g] = "lang"
  /\ mem' = [mem EXCEPT !.lang = data[g].lang]
  /\ held' = [held EXCEPT ![g] = mem]
  /\ Proceed(g, "marshal")
  /\ outdated' = (outdated \/ win # "closed")
  /\ UNCHANGED <<heap, lang, disk, editor, data, ops, reused, astray>>

\* ... and puts it into the configuration, of which it takes a copy to save.
StoreLang(g) ==
  /\ at[g] = "lang"
  /\ mem' = [mem EXCEPT !.lang = data[g].lang]
  /\ held' = [held EXCEPT ![g] = mem']
  /\ Proceed(g, "marshal")
  /\ outdated' = (outdated \/ win # "closed")
  /\ UNCHANGED <<heap, lang, disk, editor, data, ops, reused, astray>>

\* saveGeneratedTargetToken: the profile may have another name by now.
SaveToken(g) ==
  /\ Begin(g)
  /\ \E i \in 0 .. mem.len :
       heap' = IF i = 0 THEN heap ELSE [heap EXCEPT ![mem.arr][i] = "token"]
  /\ held' = [held EXCEPT ![g] = mem]
  /\ Proceed(g, "marshal")
  /\ UNCHANGED <<mem, lang, data>>

\* saveConfig, without the mutex.
Marshal(g) ==
  /\ at[g] = "marshal"
  /\ data' = [data EXCEPT ![g] = [lang |-> held[g].lang, list |-> List(held[g])]]
  /\ held' = [held EXCEPT ![g] = NoConfig]
  /\ Proceed(g, "write")
  /\ UNCHANGED <<heap, mem, lang, disk, editor, ops, flags>>

WriteFile(g) ==
  /\ at[g] = "write"
  /\ \/ disk' = data[g] /\ UNCHANGED astray
     \/ astray' = TRUE /\ UNCHANGED disk
  /\ Proceed(g, "idle")
  /\ UNCHANGED <<heap, mem, lang, editor, held, data, ops, reused, outdated>>

\* reloadConfig reads the file and shows its language ...
Reload(g) ==
  /\ Begin(g)
  /\ data' = [data EXCEPT ![g] = disk]
  /\ lang' = disk.lang
  /\ Proceed(g, "apply")
  /\ UNCHANGED <<heap, mem, held>>

\* ... and then makes it the tray's configuration.
ApplyReload(g) ==
  /\ at[g] = "apply"
  /\ \E a \in Arrays \ Used :
       /\ heap' = [heap EXCEPT ![a] = data[g].list]
       /\ mem' = [arr |-> a, len |-> Len(data[g].list), lang |-> data[g].lang]
  /\ Proceed(g, "idle")
  /\ outdated' = (outdated \/ win # "closed")
  /\ UNCHANGED <<lang, disk, editor, held, data, ops, reused, astray>>

----------------------------------------------------------------------------

Editor ==
  \/ Open \/ Add \/ RemoveTarget \/ SaveRefused \/ Save \/ Adopt \/ Close
  \/ \E text \in Texts : Type(text)
  \/ \E i \in 1..MaxLen : Select(i)

Other(g) ==
  \/ \E l \in Languages : SetLang(g, l)
  \/ StoreLang(g) \/ SaveToken(g) \/ Marshal(g) \/ WriteFile(g)
  \/ Reload(g) \/ ApplyReload(g)

EditNext == Editor \/ \E g \in Goroutines : Other(g)

EditSpec == EditInit /\ [][EditNext]_editVars

----------------------------------------------------------------------------
\* "Nothing reaches disk or the running tray's a.cfg until Save" (lines 79-80 of
\* the editor): a step that is neither a save nor of another goroutine changes
\* neither.  The code keeps this until a window is used again after it has
\* saved: by then the two configurations share their array.
NothingBeforeSave ==
  [][UNCHANGED at /\ "saved" \notin {win, win'} /\ ~reused'
       => UNCHANGED disk /\ List(mem)' = List(mem)]_editVars

\* "In-progress edits are never silently lost" (276-280): the working copy, with
\* the form in its place, is the list as the user has entered it, and so is what
\* a save writes, unless the configuration changed behind the window.
EditsKept ==
  win # "closed" /\ ~outdated => ListIn(Commit, work) = wanted

\* Starting again restores what there is now: when nothing is being saved the
\* file has the tray's configuration, and that has the language that is shown,
\* unless a save went astray or a window interfered.
RestartRestores ==
  ~Saving /\ ~astray /\ ~reused =>
    /\ disk = [lang |-> mem.lang, list |-> List(mem)]
    /\ ~outdated => mem.lang = lang

=============================================================================
