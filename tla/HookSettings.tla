---------------------------- MODULE HookSettings ----------------------------
(***************************************************************************)
(* cia/hooks.py: install_hooks and uninstall_hooks change the settings     *)
(* file of one scope, beside each other and beside Claude Code and the     *)
(* user, who change it as well.  Each reads the file, computes and writes  *)
(* it back: cia in place, so that the file is torn between the truncation  *)
(* and the write, the others by renaming a new file over it.               *)
(***************************************************************************)
EXTENDS Integers

CONSTANTS Hooks,     \* the hook events of _HOOK_MAP
          Actors,    \* the processes that change the settings
          MaxChanges \* bound on the changes begun

ASSUME MaxChangesAssumption == MaxChanges \in Nat

VARIABLES file,    \* settings.json
          doing,   \* what each process is doing to it, and the contents it has read
          begun,   \* how many changes were begun
          wanted,  \* history: what is not cia's, as its owner last wrote it
          last,    \* history: the last command of cia that wrote the file
          clash    \* history: two changes overlapped, or one was killed half-way

settings == <<file, doing, begun, wanted, last, clash>>

\* The settings that are not cia's have a version; a bucket of hooks has a number
\* of entries of cia's script, and entries of others or none.  A bucket that is
\* missing is empty.
Nothing == [state |-> "absent", other |-> 0, buckets |-> [h \in Hooks |-> [cia |-> 0, own |-> "none"]]]
Torn == [Nothing EXCEPT !.state = "torn"]
Resting == [op |-> "none", at |-> "rest", read |-> Nothing]

TheirsIn(f) == [other |-> f.other, own |-> [h \in Hooks |-> f.buckets[h].own]]

InitSettings ==
    /\ file = Nothing
    /\ doing = [p \in Actors |-> Resting]
    /\ begun = 0
    /\ wanted = TheirsIn(Nothing)
    /\ last = "uninstall"
    /\ clash = FALSE

\* install writes the scripts first, which changes nothing of the settings.
Begin(p, op) ==
    /\ doing[p] = Resting
    /\ begun < MaxChanges
    /\ begun' = begun + 1
    /\ doing' = [doing EXCEPT ![p] = [op |-> op, read |-> Nothing,
                                      at |-> IF op = "install" THEN "scripts" ELSE "begun"]]
    /\ clash' = (clash \/ \E q \in Actors : doing[q] # Resting)
    /\ UNCHANGED <<file, wanted, last>>

ScriptsWritten(p) ==
    /\ doing[p].at = "scripts"
    /\ doing' = [doing EXCEPT ![p].at = "begun"]
    /\ UNCHANGED <<file, begun, wanted, last, clash>>

\* The file is read.  install takes one that does not parse for an empty one;
\* uninstall leaves one alone that does not parse or is not there, and so do
\* others with one that does not parse.
Read(p) ==
    /\ doing[p].at = "begun"
    /\ doing' = [doing EXCEPT ![p] =
           IF \/ @.op = "uninstall" /\ file.state # "ok"
              \/ @.op = "edit" /\ file.state = "torn"
           THEN Resting
           ELSE [@ EXCEPT !.at = "read", !.read = IF file.state = "ok" THEN file ELSE Nothing]]
    /\ UNCHANGED <<file, begun, wanted, last, clash>>

WithEntry(bucket) == IF bucket.cia > 0 THEN bucket ELSE [bucket EXCEPT !.cia = @ + 1]

\* Mutant: the whole bucket goes.
WithoutEntry_Bucket(bucket) == IF bucket.cia > 0 THEN [cia |-> 0, own |-> "none"] ELSE bucket

WithoutEntry(bucket) == [bucket EXCEPT !.cia = 0]

Computed(p) ==
    [doing[p].read EXCEPT !.state = "ok",
        !.buckets = [h \in Hooks |-> IF doing[p].op = "install" THEN WithEntry(@[h])
                                     ELSE WithoutEntry(@[h])]]

\* write_text opens the file, which empties it, ...
Truncate(p) ==
    /\ doing[p].at = "read" /\ doing[p].op # "edit"
    /\ doing' = [doing EXCEPT ![p].at = "open"]
    /\ file' = Torn
    /\ UNCHANGED <<begun, wanted, last, clash>>

\* ... and then writes it.
WriteText(p) ==
    /\ doing[p].at = "open"
    /\ doing' = [doing EXCEPT ![p] = Resting]
    /\ file' = Computed(p)
    /\ last' = doing[p].op
    /\ UNCHANGED <<begun, wanted, clash>>

\* The user, or Claude Code, writes other settings, and hooks of their own.
Edit(p) ==
    /\ doing[p].at = "read" /\ doing[p].op = "edit"
    /\ doing' = [doing EXCEPT ![p] = Resting]
    /\ \E h \in Hooks, own \in {"none", "some"} :
           file' = [doing[p].read EXCEPT !.state = "ok", !.other = begun, !.buckets[h].own = own]
    /\ wanted' = TheirsIn(file')
    /\ UNCHANGED <<begun, last, clash>>

Kill(p) == /\ doing[p].op # "edit"
           /\ doing[p] # Resting
           /\ doing' = [doing EXCEPT ![p] = Resting]
           /\ clash' = (clash \/ doing[p].at = "open")
           /\ UNCHANGED <<file, begun, wanted, last>>

NextSettings ==
    \E p \in Actors : \/ \E op \in {"install", "uninstall", "edit"} : Begin(p, op)
                      \/ ScriptsWritten(p) \/ Read(p) \/ Truncate(p) \/ WriteText(p)
                      \/ Edit(p) \/ Kill(p)

SpecSettings == InitSettings /\ [][NextSettings]_settings

-----------------------------------------------------------------------------
(* Properties.                                                             *)

\* However many commands ran, and however they overlapped or were killed, no
\* bucket ever lists cia's script twice.  As long as none overlapped and none was
\* killed between truncation and write, the settings and hooks of others are as
\* their owner last wrote them, and cia's script is in every bucket after an
\* install and in none after an uninstall.
SettingsKept ==
    /\ \A h \in Hooks : file.buckets[h].cia <= 1
    /\ ~clash /\ (\A p \in Actors : doing[p].at # "open") =>
           /\ TheirsIn(file) = wanted
           /\ \A h \in Hooks : file.buckets[h].cia = 1 <=> last = "install"
=============================================================================
