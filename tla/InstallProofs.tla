--------------------------- MODULE InstallProofs ----------------------------
(***************************************************************************)
(* What csquad writes into the user's files is given back: the properties  *)
(* of Install for any versions, lines and hooks, and any number of         *)
(* commands, kills and edits.                                              *)
(*                                                                         *)
(* LineNeverLost follows the line: in settings.json, in statusline.json    *)
(* while the wrapper stands for it, and in settings.json.bak, which an     *)
(* uninstall may bring back; IInv holds until one of the two accidents     *)
(* (ever.lost), and where no command was cut short neither has happened,   *)
(* for the wrapper is the one csquad knows of (Named).  EditKept,          *)
(* UserGroupsKept and GivenBack need more: what csquad knows for its own   *)
(* at each step of a command (Ours), that one group of hooks.json at most  *)
(* is csquad's, and that what was hashed and backed up covers              *)
(* settings.json to the byte (Covered).  The groups are a sequence of any  *)
(* length: what Kept does to one is proved by induction over a set of      *)
(* naturals, which follows from the least element that every set of them   *)
(* has.                                                                    *)
(***************************************************************************)
EXTENDS Install, SequenceTheorems, WellFoundedInduction, TLAPS

---------------------------------------------------------------------------
(* What stands where.                                                      *)

(* An install up to the wrapping.                                          *)
Early == {"binary", "skills", "codex", "wrap", "backup", "write"}

Accounts == [relined : BOOLEAN, cut : BOOLEAN, gone : BOOLEAN, recast : BOOLEAN, lost : BOOLEAN]

(* The lines that are told apart.                                          *)
LEMMA LineFacts ==
  /\ ({"none", "legacy"} \union Lines) \intersect Wrappers = {} /\ "none" \notin Lines
  /\ Versions \subseteq Nat \ {0}
  /\ \A v : Command(v) \in Wrappers
BY LinesAssumption, VersionsAssumption DEF Wrappers, Command

(* What the files and what csquad remembers of them may hold.              *)
Written == {NoText} \union {"claude", "codex", "shared"} \X Nat
Groups == Seq({"csquad", "user"} \X Nat)
NoManifestLeft == cmd.op = "uninstall" /\ cmd.pc \in {"saved", "backup", "binary"}

Manifest(m) ==
  /\ m = [exists |-> m.exists, hash |-> m.hash, command |-> m.command, claude |-> m.claude, codex |-> m.codex,
          shared |-> m.shared, hooks |-> m.hooks]
  /\ m.exists => m.command \in Wrappers
  /\ m.claude \in Written /\ m.codex \in Written
  /\ m.exists \in BOOLEAN /\ m.shared \in BOOLEAN
  /\ m.hooks.group \in {"csquad"} \X Nat
  /\ m.shared => m.codex = NoText

(* A command works from the manifest it found, which stands until an      *)
(* uninstall takes it away or an install writes its own.                   *)
Shape ==
  /\ cmd = [op |-> cmd.op, pc |-> cmd.pc, ver |-> cmd.ver, old |-> cmd.old, new |-> cmd.new]
  /\ cmd.op \in {"none", "install", "uninstall"}
  /\ home = [manifest |-> home.manifest, saved |-> home.saved, backup |-> home.backup, binary |-> home.binary]
  /\ ever \in Accounts
  /\ env \in [codex : BOOLEAN, linked : BOOLEAN]
  /\ left \in [commands : Nat, acts : Nat, crashes : Nat]
  /\ Manifest(home.manifest) /\ Manifest(cmd.old) /\ Manifest(cmd.new)
  /\ cmd.ver \in Nat
  /\ cmd.op # "none" => home.manifest = IF NoManifestLeft THEN NoManifest ELSE cmd.old
  /\ cmd.op = "install" => cmd.new.exists /\ cmd.pc \in Early \union {"rewrap", "hook", "manifest"}
  /\ cmd.op = "install" => cmd.ver \in Versions /\ cmd.new.command = Command(cmd.ver)
  /\ cmd.op = "uninstall" => cmd.old.exists
  /\ cmd.op = "install" /\ cmd.pc \in {"binary", "skills", "codex"} => cmd.new.codex = NoText /\ ~cmd.new.shared
  /\ cmd.op = "uninstall" => cmd.pc \in {"line", "skills", "hook", "codex", "manifest", "saved", "backup", "binary"}
  /\ ever.gone /\ ~ever.cut => cmd.op = "none" /\ home.manifest = NoManifest

LEMMA NoManifestFits == Manifest(NoManifest) /\ ~NoManifest.exists
BY DEF Manifest, NoManifest, NoInsert, Group, Written, NoText

(* A text csquad writes.                                                   *)
LEMMA TextsFit ==
  \A v \in Nat : \A host \in {"claude", "codex", "shared"} :
    Text(host, v) \in Written /\ Text(host, v) \notin Theirs
BY DEF Text, Written, NoText, Theirs

LEMMA InitShape == Init => Shape
<1> SUFFICES ASSUME Init PROVE Shape
  OBVIOUS
<1>1. /\ cmd = NoCmd
      /\ home = [manifest |-> NoManifest, saved |-> NoSaved, backup |-> NoFile, binary |-> 0]
      /\ ever \in Accounts /\ ~ever.gone
      /\ env \in [codex : BOOLEAN, linked : {FALSE}]
      /\ left = [commands |-> Commands, acts |-> Acts, crashes |-> Crashes]
  BY DEF Init, Accounts
<1> QED
  BY <1>1, NoManifestFits, BoundsAssumption DEF Shape, NoCmd, NoManifestLeft

(* A step of a command that goes on, and writes none of what csquad keeps  *)
(* but the manifest it will leave.                                         *)
LEMMA GoesOnShape ==
  ASSUME Shape, UNCHANGED <<env, left>>, cmd.op # "none",
         cmd' = [op |-> cmd.op, pc |-> cmd'.pc, ver |-> cmd.ver, old |-> cmd.old, new |-> cmd'.new],
         Manifest(cmd'.new), cmd'.new.exists = cmd.new.exists, cmd'.new.command = cmd.new.command,
         cmd.op = "install" => cmd'.pc \in Early \union {"rewrap", "hook", "manifest"},
         cmd.op = "install" /\ cmd'.pc \in {"binary", "skills", "codex"} =>
           cmd'.new.codex = NoText /\ ~cmd'.new.shared,
         cmd.op = "uninstall" => cmd'.pc \in {"skills", "hook", "codex", "manifest"} /\ ~NoManifestLeft,
         home' = [manifest |-> home.manifest, saved |-> home'.saved, backup |-> home'.backup, binary |-> home'.binary],
         ever' \in Accounts, ever'.gone = ever.gone, ever.cut => ever'.cut
  PROVE  Shape'
BY DEF Shape, NoManifestLeft

(* A command ends: cut short, ...                                          *)
LEMMA CutShape ==
  ASSUME Shape, UNCHANGED env, left' \in [commands : Nat, acts : Nat, crashes : Nat],
         home'.manifest = home.manifest,
         home' = [manifest |-> home'.manifest, saved |-> home'.saved, backup |-> home'.backup, binary |-> home'.binary],
         cmd' = NoCmd, ever' \in Accounts, ever'.cut
  PROVE  Shape'
BY NoManifestFits DEF Shape, NoCmd, NoManifestLeft

(* Every step keeps the shape.                                             *)
LEMMA NextShape == Shape /\ [Next]_vars => Shape'
<1> SUFFICES ASSUME Shape, [Next]_vars PROVE Shape'
  OBVIOUS
<1>0. CASE UNCHANGED vars
  BY <1>0 DEF vars, Shape, NoManifestLeft
<1>1. CASE Install
  <2>1. PICK v \in Versions :
          cmd' = [op |-> "install", pc |-> "binary", ver |-> v, old |-> home.manifest,
                  new |-> [NoManifest EXCEPT !.exists = TRUE, !.hash = home.manifest.hash,
                                             !.command = Command(v)]]
    BY <1>1 DEF Install
  <2>2. UNCHANGED <<home, env>> /\ ever' = [ever EXCEPT !.gone = FALSE] /\ left' = [left EXCEPT !.commands = @ - 1]
        /\ left.commands > 0
    BY <1>1 DEF Install
  <2>3. Manifest(cmd'.new) /\ cmd'.new.exists /\ cmd'.new.command = Command(v)
    BY <2>1, NoManifestFits, LineFacts DEF Manifest, NoManifest
  <2>4. v \in Nat
    BY VersionsAssumption
  <2> QED
    <3>1. cmd'.op = "install" /\ cmd'.pc = "binary" /\ cmd'.ver = v /\ cmd'.old = home.manifest
          /\ cmd'.new.codex = NoText /\ ~cmd'.new.shared
      BY <2>1 DEF NoManifest
    <3>2. cmd' = [op |-> cmd'.op, pc |-> cmd'.pc, ver |-> cmd'.ver, old |-> cmd'.old, new |-> cmd'.new]
      BY <2>1
    <3>3. ever' \in Accounts /\ ~ever'.gone
      BY <2>2 DEF Shape, Accounts
    <3>4. left' \in [commands : Nat, acts : Nat, crashes : Nat]
      BY <2>2 DEF Shape
    <3>5. ~NoManifestLeft'
      BY <3>1 DEF NoManifestLeft
    <3> QED
      BY <2>2, <2>3, <2>4, <3>1, <3>2, <3>3, <3>4, <3>5 DEF Shape, Early
<1>2. CASE Uninstall
  <2>1. UNCHANGED <<home, env>> /\ left' = [left EXCEPT !.commands = @ - 1] /\ left.commands > 0
        /\ home.manifest.exists
        /\ ever' = [ever EXCEPT !.lost = @ \/ (Wrapped /\ settings.line # home.manifest.command)]
        /\ cmd' = [op |-> "uninstall", pc |-> "line", ver |-> 0, old |-> home.manifest, new |-> NoManifest]
    BY <1>2 DEF Uninstall, NoCmd
  <2>2. ever' \in Accounts /\ ever'.cut = ever.cut /\ ever'.gone = ever.gone
    BY <2>1 DEF Shape, Accounts
  <2> QED
    BY <2>1, <2>2, NoManifestFits DEF Shape, NoManifestLeft, NoManifest
<1>3. CASE InstallBinary
  BY <1>3, GoesOnShape DEF InstallBinary, At, Goto, Shape, Early
<1>4. CASE WriteSkills
  <2> DEFINE t == Text(IF Shared THEN "shared" ELSE "claude", cmd.ver)
  <2>1. cmd' = [cmd EXCEPT !.new.claude = t, !.pc = "codex"] /\ UNCHANGED <<home, env, left, ever>>
        /\ cmd.op = "install" /\ cmd.pc = "skills"
    BY <1>4 DEF WriteSkills, At
  <2>2. t \in Written
    BY TextsFit DEF Shape
  <2> HIDE DEF t
  <2>3. cmd'.new = [cmd.new EXCEPT !.claude = t] /\ cmd'.pc = "codex"
    BY <2>1 DEF Shape, Manifest
  <2>4. /\ Manifest(cmd'.new) /\ cmd'.new.exists = cmd.new.exists /\ cmd'.new.command = cmd.new.command
        /\ cmd'.new.codex = NoText /\ ~cmd'.new.shared
    BY <2>1, <2>2, <2>3 DEF Shape, Manifest
  <2>5. cmd' = [op |-> cmd.op, pc |-> cmd'.pc, ver |-> cmd.ver, old |-> cmd.old, new |-> cmd'.new]
    BY <2>1 DEF Shape
  <2> QED
    BY <2>1, <2>3, <2>4, <2>5, GoesOnShape DEF Shape, Early
<1>5. CASE InstallCodex
  <2>0. UNCHANGED <<home, env, left, ever>> /\ cmd.op = "install" /\ cmd.pc = "codex"
    BY <1>5 DEF InstallCodex, At
  <2>1. CASE Goto("wrap")
    BY <2>0, <2>1, GoesOnShape DEF Goto, Shape, Early
  <2>2. CASE Shared /\ cmd' = [cmd EXCEPT !.new.shared = TRUE, !.pc = "wrap"] /\ cmd.new.codex = NoText
    <3>1. cmd'.new = [cmd.new EXCEPT !.shared = TRUE] /\ cmd'.pc = "wrap"
      BY <2>2 DEF Shape, Manifest
    <3>2. Manifest(cmd'.new) /\ cmd'.new.exists = cmd.new.exists /\ cmd'.new.command = cmd.new.command
      BY <2>2, <3>1 DEF Shape, Manifest
    <3> QED
      BY <2>0, <2>2, <3>1, <3>2, GoesOnShape DEF Shape, Early
  <2>3. CASE cmd' = [cmd EXCEPT !.new.codex = Text("codex", cmd.ver), !.pc = "wrap"] /\ ~cmd.new.shared
    <3> DEFINE t == Text("codex", cmd.ver)
    <3>1. t \in Written
      BY TextsFit DEF Shape
    <3> HIDE DEF t
    <3>2. cmd'.new = [cmd.new EXCEPT !.codex = t] /\ cmd'.pc = "wrap"
      BY <2>3 DEF Shape, Manifest, t
    <3>3. Manifest(cmd'.new) /\ cmd'.new.exists = cmd.new.exists /\ cmd'.new.command = cmd.new.command
      BY <2>3, <3>1, <3>2 DEF Shape, Manifest
    <3> QED
      BY <2>0, <2>3, <3>2, <3>3, GoesOnShape DEF Shape, Early
  <2> QED
    BY <1>5, <2>1, <2>2, <2>3 DEF InstallCodex, At, Shape
<1>6. CASE WrapAgain
  <2>1. /\ cmd' = [cmd EXCEPT !.new.hash = IF @ = NoFile THEN settings ELSE @,
                              !.pc = IF settings.line = Command(cmd.ver) THEN "hook" ELSE "rewrap"]
        /\ UNCHANGED <<env, left, ever>> /\ cmd.op = "install" /\ cmd.pc = "wrap"
        /\ \/ home' = home
           \/ home' = [home EXCEPT !.saved = [NoSaved EXCEPT !.exists = TRUE]]
    BY <1>6 DEF WrapAgain, At
  <2>2. PICK h : cmd'.new = [cmd.new EXCEPT !.hash = h]
    BY <2>1 DEF Shape, Manifest
  <2>3. Manifest(cmd'.new) /\ cmd'.new.exists = cmd.new.exists /\ cmd'.new.command = cmd.new.command
        /\ cmd'.pc \in {"hook", "rewrap"}
    BY <2>1, <2>2 DEF Shape, Manifest
  <2> QED
    BY <2>1, <2>3, GoesOnShape DEF Shape
<1>7. CASE SaveLine
  BY <1>7, GoesOnShape DEF SaveLine, At, Goto, Shape, Early
<1>8. CASE Backup
  BY <1>8, GoesOnShape DEF Backup, At, Goto, Shape, Early
<1>9. CASE WrapLine \/ RewrapLine
  <2>1. /\ cmd' = [cmd EXCEPT !.new.hash = settings', !.pc = "hook"]
        /\ UNCHANGED <<env, left, home>> /\ cmd.op = "install"
        /\ ever' = ever \/ ever' = [ever EXCEPT !.recast = @ \/ settings # cmd.old.hash]
    BY <1>9 DEF WrapLine, RewrapLine, At
  <2>0. ever' \in Accounts /\ ever'.cut = ever.cut /\ ever'.gone = ever.gone
    BY <2>1 DEF Shape, Accounts
  <2>2. cmd'.new = [cmd.new EXCEPT !.hash = settings'] /\ cmd'.pc = "hook"
    BY <2>1 DEF Shape, Manifest
  <2>3. Manifest(cmd'.new) /\ cmd'.new.exists = cmd.new.exists /\ cmd'.new.command = cmd.new.command
    BY <2>2 DEF Shape, Manifest
  <2> QED
    BY <2>0, <2>1, <2>2, <2>3, GoesOnShape DEF Shape
<1>10. CASE InstallHook
  <2>0. UNCHANGED <<home, env, left, ever>> /\ cmd.op = "install"
    BY <1>10 DEF InstallHook, At
  <2>1. CASE ~env.codex
    BY <1>10, <2>0, <2>1, GoesOnShape DEF InstallHook, Goto, Shape
  <2>2. CASE env.codex
    <3> DEFINE a == AddedHook(hooks, Group(cmd.ver), cmd.old.hooks)
    <3>1. cmd' = [cmd EXCEPT !.new.hooks = a.text, !.pc = "manifest"]
      BY <1>10, <2>2 DEF InstallHook
    <3>2. a.text.group \in {"csquad"} \X Nat
      <4>1. Group(cmd.ver) \in {"csquad"} \X Nat /\ cmd.old.hooks.group \in {"csquad"} \X Nat
        BY DEF Shape, Manifest, Group
      <4>2. a.text.group \in {Group(cmd.ver), NoInsert.group}
        BY DEF AddedHook
      <4> QED
        BY <4>1, <4>2 DEF NoInsert, Group
    <3> HIDE DEF a
    <3>3. cmd'.new = [cmd.new EXCEPT !.hooks = a.text] /\ cmd'.pc = "manifest"
      BY <3>1 DEF Shape, Manifest
    <3>4. Manifest(cmd'.new) /\ cmd'.new.exists = cmd.new.exists /\ cmd'.new.command = cmd.new.command
      BY <3>2, <3>3 DEF Shape, Manifest
    <3> QED
      BY <2>0, <3>1, <3>3, <3>4, GoesOnShape DEF Shape
  <2> QED
    BY <2>1, <2>2
<1>11. CASE HookFails
  BY <1>11, CutShape DEF HookFails, Shape, Accounts
<1>12. CASE Crash \/ BackupTorn
  <2>1. /\ UNCHANGED env /\ cmd' = NoCmd /\ left.crashes > 0 /\ left' = [left EXCEPT !.crashes = @ - 1]
        /\ home' = home \/ home' = [home EXCEPT !.backup = Torn]
        /\ \/ ever' = [ever EXCEPT !.cut = TRUE]
           \/ ever' = [ever EXCEPT !.cut = TRUE, !.lost = TRUE]
    BY <1>12 DEF Crash, BackupTorn
  <2>2. left' \in [commands : Nat, acts : Nat, crashes : Nat]
    BY <2>1 DEF Shape
  <2>3. ever' \in Accounts /\ ever'.cut
    BY <2>1 DEF Shape, Accounts
  <2>4. /\ home'.manifest = home.manifest
        /\ home' = [manifest |-> home'.manifest, saved |-> home'.saved, backup |-> home'.backup,
                    binary |-> home'.binary]
    BY <2>1 DEF Shape
  <2> QED
    BY <2>1, <2>2, <2>3, <2>4, CutShape
<1>13. CASE WriteManifest
  <2>1. /\ cmd' = NoCmd /\ ever' = [ever EXCEPT !.gone = FALSE] /\ UNCHANGED <<env, left>>
        /\ home' = [home EXCEPT !.manifest = cmd.new]
    BY <1>13 DEF WriteManifest, Ended
  <2>2. home'.manifest = cmd.new /\ ever' \in Accounts /\ ~ever'.gone
    BY <2>1 DEF Shape, Accounts
  <2> QED
    BY <2>1, <2>2, NoManifestFits DEF Shape, NoCmd, NoManifestLeft
<1>14. CASE RestoreLine \/ RemoveSkills \/ UninstallHook \/ UninstallCodex
  <2>1. /\ cmd.op = "uninstall" /\ ~NoManifestLeft
        /\ \E pc \in {"skills", "hook", "codex", "manifest"} : cmd' = [cmd EXCEPT !.pc = pc]
        /\ UNCHANGED <<home, env, left>>
        /\ \/ ever' = ever
           \/ ever' = [ever EXCEPT !.cut = ever.cut \/ ~hooks.valid]
    BY <1>14 DEF RestoreLine, RemoveSkills, UninstallHook, UninstallCodex, At, Goto, NoManifestLeft
  <2>2. ever' \in Accounts /\ ever'.gone = ever.gone /\ (ever.cut => ever'.cut)
    BY <2>1 DEF Shape, Accounts
  <2> QED
    BY <2>1, <2>2, GoesOnShape DEF Shape
<1>15. CASE RemoveOwn
  <2>1. cmd.op = "uninstall" /\ UNCHANGED <<env, left, ever>>
    BY <1>15 DEF RemoveOwn
  <2>2. CASE cmd.pc = "manifest" /\ Goto("saved") /\ home' = [home EXCEPT !.manifest = NoManifest]
    <3>1. NoManifestLeft'
      BY <2>1, <2>2 DEF NoManifestLeft, Goto, Shape
    <3> QED
      BY <2>1, <2>2, <3>1, NoManifestFits DEF Goto, Shape
  <2>3. CASE /\ NoManifestLeft
             /\ \E pc \in {"backup", "binary"} : cmd' = [cmd EXCEPT !.pc = pc]
             /\ home' = [home EXCEPT !.saved = NoSaved] \/ home' = [home EXCEPT !.backup = NoFile]
    <3>1. NoManifestLeft' /\ home'.manifest = home.manifest
      BY <2>1, <2>3 DEF NoManifestLeft, Shape
    <3> QED
      BY <2>1, <2>3, <3>1 DEF Shape
  <2> QED
    BY <1>15, <2>1, <2>2, <2>3 DEF RemoveOwn, Goto, NoManifestLeft
<1>16. CASE RemoveBinary
  <2>1. /\ cmd' = NoCmd /\ ever' = [ever EXCEPT !.gone = TRUE] /\ UNCHANGED <<env, left>>
        /\ home' = [home EXCEPT !.binary = 0] /\ NoManifestLeft
    BY <1>16 DEF RemoveBinary, Ended, At, NoManifestLeft
  <2>2. home'.manifest = NoManifest /\ ever' \in Accounts
    BY <2>1 DEF Shape, NoManifestLeft, Accounts
  <2> QED
    BY <2>1, <2>2, NoManifestFits DEF Shape, NoCmd, NoManifestLeft
<1>17. CASE EditSettings \/ BreakSettings \/ SetLine \/ EditSkill \/ EditHooks \/ ToggleCodex \/ ToggleLink
  <2>1. /\ UNCHANGED <<home, cmd>> /\ left.acts > 0 /\ left' = [left EXCEPT !.acts = @ - 1]
        /\ ever' = ever \/ ever' = [ever EXCEPT !.relined = TRUE]
        /\ env' = env \/ env' = [env EXCEPT !.codex = ~@] \/ env' = [env EXCEPT !.linked = ~@]
    BY <1>17 DEF EditSettings, BreakSettings, SetLine, EditSkill, EditHooks, ToggleCodex, ToggleLink, Acting
  <2>2. env' \in [codex : BOOLEAN, linked : BOOLEAN] /\ left' \in [commands : Nat, acts : Nat, crashes : Nat]
    <3>1. left' \in [commands : Nat, acts : Nat, crashes : Nat]
      BY <2>1 DEF Shape
    <3>2. env \in [codex : BOOLEAN, linked : BOOLEAN] /\ (~env.codex) \in BOOLEAN /\ (~env.linked) \in BOOLEAN
      BY DEF Shape
    <3>3. CASE env' = env
      BY <3>1, <3>2, <3>3
    <3>4. CASE env' = [env EXCEPT !.codex = ~@]
      <4> DEFINE b == ~env.codex
      <4>1. env' = [codex |-> b, linked |-> env.linked]
        BY <3>2, <3>4
      <4> HIDE DEF b
      <4>2. b \in BOOLEAN
        BY DEF b
      <4> QED
        BY <3>1, <3>2, <4>1, <4>2
    <3>5. CASE env' = [env EXCEPT !.linked = ~@]
      <4> DEFINE b == ~env.linked
      <4>1. env' = [codex |-> env.codex, linked |-> b]
        BY <3>2, <3>5
      <4> HIDE DEF b
      <4>2. b \in BOOLEAN
        BY DEF b
      <4> QED
        BY <3>1, <3>2, <4>1, <4>2
    <3> QED
      BY <2>1, <3>1, <3>3, <3>4, <3>5
  <2>3. /\ ever' \in Accounts
        /\ ever'.cut = ever.cut /\ ever'.gone = ever.gone
    <3>1. CASE ever' = ever
      BY <3>1 DEF Shape, Accounts
    <3>2. CASE ever' = [ever EXCEPT !.relined = TRUE]
      BY <3>2 DEF Shape, Accounts
    <3> QED
      BY <2>1, <3>1, <3>2
  <2> QED
    BY <2>1, <2>2, <2>3 DEF Shape, NoManifestLeft
<1> QED
  BY <1>0, <1>1, <1>2, <1>3, <1>4, <1>5, <1>6, <1>7, <1>8, <1>9, <1>10, <1>11, <1>12, <1>13, <1>14, <1>15,
     <1>16, <1>17 DEF Next

(* What was ever cut short or lost stays so.                               *)
LEMMA NextAccounts ==
  ever \in Accounts /\ [Next]_vars => ever' \in Accounts /\ (ever.lost => ever'.lost) /\ (ever.cut => ever'.cut)
<1> SUFFICES ASSUME ever \in Accounts, [Next]_vars
             PROVE  ever' \in Accounts /\ (ever.lost => ever'.lost) /\ (ever.cut => ever'.cut)
  OBVIOUS
<1> USE DEF Accounts
<1>1. \/ ever' = ever
      \/ \E b \in BOOLEAN : ever' = [ever EXCEPT !.gone = b]
      \/ ever' = [ever EXCEPT !.relined = TRUE]
      \/ \E b \in BOOLEAN : ever' = [ever EXCEPT !.recast = b]
      \/ \E b \in BOOLEAN : ever' = [ever EXCEPT !.cut = @ \/ b]
      \/ \E b \in BOOLEAN : ever' = [ever EXCEPT !.lost = @ \/ b]
      \/ ever' = [ever EXCEPT !.cut = TRUE, !.lost = TRUE]
  BY DEF vars, Next, Install, InstallBinary, WriteSkills, InstallCodex, WrapAgain, RewrapLine, SaveLine, Backup,
         BackupTorn, WrapLine, InstallHook, HookFails, WriteManifest, Uninstall, RestoreLine, RemoveSkills,
         UninstallHook, UninstallCodex, RemoveOwn, RemoveBinary, Crash, EditSettings, BreakSettings, SetLine,
         EditSkill, EditHooks, ToggleCodex, ToggleLink, Ended, Acting
<1> QED
  BY <1>1

---------------------------------------------------------------------------
(* The user's status line.                                                 *)

Typed ==
  /\ settings \in Settings /\ mine \in Settings
  /\ home = [manifest |-> home.manifest, saved |-> home.saved, backup |-> home.backup, binary |-> home.binary]
  /\ home.saved \in [exists : BOOLEAN, line : Lines \union {"none", "legacy"}, created : BOOLEAN]
  /\ home.backup \in Settings
  /\ cmd = [op |-> cmd.op, pc |-> cmd.pc, ver |-> cmd.ver, old |-> cmd.old, new |-> cmd.new]
  /\ ever \in Accounts

(* What is saved and backed up is a line of the user's: none where csquad  *)
(* created the file, the one they kept in the backup.                      *)
KeepsMine ==
  /\ ~settings.exists => settings.line = "none"
  /\ home.saved.created => home.saved.line = "none"
  /\ home.backup.line \notin Wrappers
  /\ home.backup.exists /\ ~ever.relined => home.backup.line = mine.line

(* An install has a binary in place before it wraps, takes the line that   *)
(* stands for the user's until then, and writes the wrapper only over one  *)
(* that is saved, or over another wrapper.                                 *)
Installing ==
  cmd.op = "install" =>
    /\ cmd.ver \in Versions
    /\ cmd.pc # "binary" => home.binary # 0
    /\ cmd.pc \in Early /\ ~Wrapped => settings.line = mine.line
    /\ cmd.pc \in {"backup", "write"} => ~Wrapped /\ home.saved.exists /\ home.saved.line = mine.line
    /\ cmd.pc = "rewrap" => Wrapped

(* An uninstall takes away what the wrapper needs after the wrapper, which *)
(* is the one it knows.                                                    *)
Uninstalling ==
  cmd.op = "uninstall" /\ Wrapped => cmd.pc = "line" /\ settings.line = cmd.old.command

NeverLost == WrappedIsSaved /\ LineComesBack

(* What holds until one of the two accidents (ever.lost).                  *)
IInv == Typed /\ KeepsMine /\ Installing /\ Uninstalling /\ NeverLost

---------------------------------------------------------------------------
(* Nothing is installed at first.                                          *)
LEMMA InitIInv == Init => IInv
<1> SUFFICES ASSUME Init PROVE IInv
  OBVIOUS
<1>0. PICK l \in Lines \union {"none", "legacy"} : settings \in {NoFile, File(l, 1)}
  BY DEF Init
<1>1. settings \in Settings /\ (~settings.exists => settings.line = "none") /\ ~Wrapped
  <2>1. l \notin Wrappers
    BY LineFacts
  <2>2. CASE settings = NoFile
    BY <2>2, LineFacts DEF Settings, NoFile, Wrapped
  <2>3. CASE settings = File(l, 1)
    BY <2>1, <2>3 DEF Settings, File, Wrapped
  <2> QED
    BY <1>0, <2>2, <2>3
<1>2. Typed
  BY <1>1 DEF Init, Typed, Settings, NoFile, NoSaved, NoCmd, Accounts
<1>3. KeepsMine
  BY <1>1, LineFacts DEF Init, KeepsMine, NoFile, NoSaved
<1>4. Installing /\ Uninstalling /\ NeverLost
  BY <1>1 DEF Init, Installing, Uninstalling, NeverLost, WrappedIsSaved, LineComesBack, NoCmd
<1> QED
  BY <1>2, <1>3, <1>4 DEF IInv

(* A command that leaves the user's files and csquad's own, and the line   *)
(* of settings.json with them, goes on to the next step or ends.           *)
LEMMA QuietStep ==
  ASSUME IInv, UNCHANGED <<settings, home, mine>>,
         ever' \in Accounts, ever'.relined = ever.relined,
         cmd' = [op |-> cmd'.op, pc |-> cmd'.pc, ver |-> cmd'.ver, old |-> cmd'.old, new |-> cmd'.new],
         \/ cmd'.op = "none"
         \/ /\ cmd'.op = cmd.op /\ cmd'.ver = cmd.ver
            /\ cmd.op # "uninstall" =>
                 /\ cmd.pc # "binary" /\ cmd'.pc \notin {"backup", "write"}
                 /\ cmd'.pc \in Early => cmd.pc \in Early
                 /\ cmd'.pc = "rewrap" => Wrapped
            /\ cmd.op = "uninstall" => cmd.pc # "line"
  PROVE  IInv'
<1>1. Typed'
  BY DEF IInv, Typed
<1>2. KeepsMine' /\ NeverLost'
  BY DEF IInv, KeepsMine, NeverLost, WrappedIsSaved, LineComesBack, Wrapped
<1>3. Installing'
  BY DEF IInv, Installing, Wrapped
<1>4. Uninstalling'
  BY DEF IInv, Uninstalling, Wrapped
<1> QED
  BY <1>1, <1>2, <1>3, <1>4 DEF IInv

(* A command begins: a line that stands in settings.json is the user's.    *)
LEMMA BeginStep == IInv /\ ~ever'.lost /\ (Install \/ Uninstall) => IInv'
<1> SUFFICES ASSUME IInv, ~ever'.lost, Install \/ Uninstall PROVE IInv'
  OBVIOUS
<1> USE DEF IInv
<1>1. CASE Install
  <2>1. PICK v \in Versions :
          cmd' = [op |-> "install", pc |-> "binary", ver |-> v, old |-> home.manifest,
                  new |-> [NoManifest EXCEPT !.exists = TRUE, !.hash = home.manifest.hash,
                                             !.command = Command(v)]]
    BY <1>1 DEF Install
  <2>2. /\ UNCHANGED <<settings, home>> /\ ever' = [ever EXCEPT !.gone = FALSE]
        /\ mine' = IF Wrapped THEN mine ELSE settings
    BY <1>1 DEF Install
  <2>3. Typed'
    BY <2>1, <2>2 DEF Typed, Accounts
  <2>4. mine'.line = mine.line \/ (ever.relined /\ ~Wrapped)
    BY <2>2 DEF NeverLost, LineComesBack
  <2>5. KeepsMine'
    BY <2>2, <2>4 DEF KeepsMine, Typed
  <2>6. NeverLost'
    BY <2>2, <2>4 DEF NeverLost, WrappedIsSaved, LineComesBack, Wrapped, Typed
  <2>7. Installing' /\ Uninstalling'
    BY <2>1, <2>2 DEF Installing, Uninstalling, Wrapped
  <2> QED
    BY <2>3, <2>5, <2>6, <2>7
<1>2. CASE Uninstall
  <2>1. /\ UNCHANGED <<settings, home, mine>>
        /\ ever' = [ever EXCEPT !.lost = @ \/ (Wrapped /\ settings.line # home.manifest.command)]
        /\ cmd' = [op |-> "uninstall", pc |-> "line", ver |-> 0, old |-> home.manifest, new |-> NoManifest]
    BY <1>2 DEF Uninstall, NoCmd
  <2>2. ever' = ever /\ (Wrapped => settings.line = home.manifest.command)
    BY <2>1 DEF Typed, Accounts
  <2> QED
    BY <2>1, <2>2
       DEF Typed, KeepsMine, Installing, Uninstalling, NeverLost, WrappedIsSaved,
           LineComesBack, Wrapped
<1> QED
  BY <1>1, <1>2

(* The steps of an install up to the wrapping.                             *)
LEMMA InstallStep == IInv /\ (InstallBinary \/ WriteSkills \/ InstallCodex) => IInv'
<1> SUFFICES ASSUME IInv, InstallBinary \/ WriteSkills \/ InstallCodex PROVE IInv'
  OBVIOUS
<1>1. CASE InstallBinary
  <2>1. /\ UNCHANGED <<settings, mine, ever>>
        /\ home' = [home EXCEPT !.binary = cmd.ver] /\ cmd' = [cmd EXCEPT !.pc = "skills"]
        /\ cmd.op = "install" /\ cmd.pc = "binary"
    BY <1>1 DEF InstallBinary, At, Goto
  <2>2. cmd.ver \in Versions /\ cmd.ver # 0
    BY <2>1, LineFacts DEF IInv, Installing
  <2>3. home'.saved = home.saved /\ home'.backup = home.backup /\ home'.binary = cmd.ver
    BY <2>1 DEF IInv, Typed
  <2>4. cmd'.op = "install" /\ cmd'.pc = "skills" /\ cmd'.ver = cmd.ver
    BY <2>1 DEF IInv, Typed
  <2>5. Typed'
    BY <2>1, <2>3 DEF IInv, Typed
  <2> QED
    BY <2>1, <2>2, <2>3, <2>4, <2>5
       DEF IInv, KeepsMine, Installing, Uninstalling, NeverLost, WrappedIsSaved,
           LineComesBack, Wrapped, Early
<1>2. CASE WriteSkills
  BY <1>2, QuietStep DEF WriteSkills, At, IInv, Typed, Early
<1>3. CASE InstallCodex
  BY <1>3, QuietStep DEF InstallCodex, At, Goto, IInv, Typed, Early
<1> QED
  BY <1>1, <1>2, <1>3

(* Wrapping: an install that finds the wrapper keeps what is saved, ...    *)
LEMMA WrapAgainStep == IInv /\ WrapAgain => IInv'
<1> SUFFICES ASSUME IInv, WrapAgain PROVE IInv'
  OBVIOUS
<1>1. home' = home
  BY DEF WrapAgain, IInv, NeverLost, WrappedIsSaved
<1> QED
  BY <1>1, QuietStep DEF WrapAgain, At, IInv, Typed, Early

(* ... and writes its own over another, ...                                *)
LEMMA RewrapStep == IInv /\ RewrapLine => IInv'
<1> SUFFICES ASSUME IInv, RewrapLine PROVE IInv'
  OBVIOUS
<1>1. /\ UNCHANGED <<home, mine>> /\ settings' = File(Command(cmd.ver), settings.rest)
      /\ cmd' = [cmd EXCEPT !.new.hash = settings', !.pc = "hook"]
      /\ cmd.op = "install" /\ cmd.pc = "rewrap"
      /\ ever' = [ever EXCEPT !.recast = @ \/ settings # cmd.old.hash]
  BY DEF RewrapLine, At, WriteSettings, WithLine
<1>2. cmd'.op = "install" /\ cmd'.pc = "hook" /\ cmd'.ver = cmd.ver
  BY <1>1 DEF IInv, Typed
<1>3. settings' \in Settings /\ settings'.exists /\ settings'.line \in Wrappers
  BY <1>1, LineFacts DEF IInv, Typed, Settings, File
<1>4. cmd' = [op |-> cmd'.op, pc |-> cmd'.pc, ver |-> cmd'.ver, old |-> cmd'.old, new |-> cmd'.new]
  BY <1>1 DEF IInv, Typed
<1>5. ever' \in Accounts /\ ever'.relined = ever.relined
  BY <1>1 DEF IInv, Typed, Accounts
<1>6. Typed'
  BY <1>1, <1>3, <1>4, <1>5 DEF IInv, Typed
<1>7. Wrapped /\ Wrapped'
  BY <1>1, <1>3 DEF IInv, Installing, Wrapped
<1> QED
  BY <1>1, <1>2, <1>3, <1>5, <1>6, <1>7
     DEF IInv, KeepsMine, Installing, Uninstalling, NeverLost, WrappedIsSaved, LineComesBack, Early

(* ... another one saves the line, backs the file up and writes.           *)
LEMMA WrapStep == IInv /\ (SaveLine \/ Backup \/ WrapLine) => IInv'
<1> SUFFICES ASSUME IInv, SaveLine \/ Backup \/ WrapLine PROVE IInv'
  OBVIOUS
<1>1. CASE SaveLine
  <2>1. /\ UNCHANGED <<settings, mine, ever>> /\ ~Wrapped
        /\ home' = [home EXCEPT !.saved = [exists |-> TRUE, line |-> settings.line, created |-> ~settings.exists]]
        /\ cmd' = [cmd EXCEPT !.pc = "backup"] /\ cmd.op = "install" /\ cmd.pc = "wrap"
    BY <1>1 DEF SaveLine, At, Goto
  <2>2. /\ home'.saved = [exists |-> TRUE, line |-> settings.line, created |-> ~settings.exists]
        /\ home'.backup = home.backup /\ home'.binary = home.binary
    BY <2>1 DEF IInv, Typed
  <2>3. cmd'.op = "install" /\ cmd'.pc = "backup" /\ cmd'.ver = cmd.ver
    BY <2>1 DEF IInv, Typed
  <2>4. Typed'
    BY <2>1, <2>2 DEF IInv, Typed, Settings, Wrapped
  <2>5. /\ home'.saved.exists /\ home'.saved.line = settings.line
        /\ home'.saved.created => settings.line = "none"
    <3>1. settings.exists \in BOOLEAN /\ (~settings.exists => settings.line = "none")
      BY DEF IInv, Typed, Settings, KeepsMine
    <3>2. CASE settings.exists = TRUE
      <4>1. (~settings.exists) = FALSE
        BY <3>2
      <4>2. home'.saved = [exists |-> TRUE, line |-> settings.line, created |-> FALSE]
        BY <2>2, <4>1, Zenon
      <4> QED
        BY <4>2
    <3>3. CASE settings.exists = FALSE
      BY <2>2, <3>1, <3>3
    <3> QED
      BY <3>1, <3>2, <3>3
  <2>6. settings.line = mine.line
    BY <2>1 DEF IInv, Installing, Early
  <2>7. KeepsMine'
    BY <2>1, <2>2, <2>5 DEF IInv, KeepsMine
  <2> QED
    BY <2>1, <2>2, <2>3, <2>4, <2>5, <2>6, <2>7
       DEF IInv, Installing, Uninstalling, NeverLost, WrappedIsSaved, LineComesBack, Wrapped
<1>2. CASE Backup
  <2>1. /\ UNCHANGED <<settings, mine, ever>>
        /\ home' = IF settings.exists /\ ~home.backup.exists THEN [home EXCEPT !.backup = settings] ELSE home
        /\ cmd' = [cmd EXCEPT !.pc = "write"] /\ cmd.op = "install" /\ cmd.pc = "backup"
    BY <1>2 DEF Backup, At, Goto
  <2>2. /\ home'.saved = home.saved /\ home'.binary = home.binary
        /\ home'.backup = home.backup \/ home'.backup = settings
    BY <2>1 DEF IInv, Typed
  <2>3. cmd'.op = "install" /\ cmd'.pc = "write" /\ cmd'.ver = cmd.ver
    BY <2>1 DEF IInv, Typed
  <2>4. Typed'
    BY <2>1, <2>2 DEF IInv, Typed
  <2>5. ~Wrapped /\ settings.line = mine.line
    BY <2>1 DEF IInv, Installing, Early
  <2> QED
    BY <2>1, <2>2, <2>3, <2>4, <2>5
       DEF IInv, KeepsMine, Installing, Uninstalling, NeverLost, WrappedIsSaved,
           LineComesBack, Wrapped, Early
<1>3. CASE WrapLine
  <2>1. /\ UNCHANGED <<home, mine, ever>> /\ settings' = File(Command(cmd.ver), settings.rest)
        /\ cmd' = [cmd EXCEPT !.new.hash = settings', !.pc = "hook"]
        /\ cmd.op = "install" /\ cmd.pc = "write"
    BY <1>3 DEF WrapLine, At, WriteSettings, WithLine
  <2>2. cmd'.op = "install" /\ cmd'.pc = "hook" /\ cmd'.ver = cmd.ver
    BY <2>1 DEF IInv, Typed
  <2>3. settings' \in Settings /\ settings'.exists /\ settings'.line \in Wrappers
    BY <2>1, LineFacts DEF IInv, Typed, Settings, File
  <2>4. cmd' = [op |-> cmd'.op, pc |-> cmd'.pc, ver |-> cmd'.ver, old |-> cmd'.old, new |-> cmd'.new]
    BY <2>1 DEF IInv, Typed
  <2>5. Typed'
    BY <2>1, <2>3, <2>4 DEF IInv, Typed
  <2> QED
    BY <2>1, <2>2, <2>3, <2>5
       DEF IInv, KeepsMine, Installing, Uninstalling, NeverLost, WrappedIsSaved,
           LineComesBack, Wrapped, Early
<1> QED
  BY <1>1, <1>2, <1>3

(* The hook and the manifest.                                              *)
LEMMA InstallEndStep == IInv /\ (InstallHook \/ HookFails \/ WriteManifest) => IInv'
<1> SUFFICES ASSUME IInv, InstallHook \/ HookFails \/ WriteManifest PROVE IInv'
  OBVIOUS
<1>1. CASE InstallHook
  BY <1>1, QuietStep DEF InstallHook, At, Goto, IInv, Typed, Early
<1>2. CASE HookFails
  BY <1>2, QuietStep DEF HookFails, NoCmd, IInv, Typed, Accounts
<1>3. CASE WriteManifest
  <2>1. /\ UNCHANGED <<settings, mine>> /\ home' = [home EXCEPT !.manifest = cmd.new]
        /\ cmd' = NoCmd /\ ever' = [ever EXCEPT !.gone = FALSE]
    BY <1>3 DEF WriteManifest, Ended
  <2>2. home'.saved = home.saved /\ home'.backup = home.backup /\ home'.binary = home.binary
    BY <2>1 DEF IInv, Typed
  <2>3. Typed' /\ ever'.relined = ever.relined
    BY <2>1, <2>2 DEF IInv, Typed, NoCmd, Accounts
  <2> QED
    BY <2>1, <2>2, <2>3
       DEF IInv, KeepsMine, Installing, Uninstalling, NeverLost, WrappedIsSaved,
           LineComesBack, Wrapped, NoCmd
<1> QED
  BY <1>1, <1>2, <1>3

(* An uninstall knows the wrapper it finds, or finds none.                 *)
LEMMA KnownWrapper == Shape /\ IInv /\ RestoreLine => (Wrapped <=> settings.line = cmd.old.command)
BY DEF RestoreLine, At, IInv, Uninstalling, Wrapped, Shape, Manifest

(* It puts the user's line back first: the saved one, or the file csquad   *)
(* backed up.                                                              *)
LEMMA RestoreStep == Shape /\ IInv /\ RestoreLine => IInv'
<1> SUFFICES ASSUME Shape, IInv, RestoreLine PROVE IInv'
  OBVIOUS
<1>1. /\ UNCHANGED <<home, mine, ever>> /\ cmd' = [cmd EXCEPT !.pc = "skills"] /\ cmd.op = "uninstall"
      /\ settings' = IF Wrapped THEN Restored(cmd.old) ELSE settings
  <2>1. /\ UNCHANGED <<home, mine, ever>> /\ cmd' = [cmd EXCEPT !.pc = "skills"]
        /\ cmd.op = "uninstall" /\ cmd.pc = "line"
        /\ settings' = IF settings.line = cmd.old.command THEN Restored(cmd.old) ELSE settings
    BY DEF RestoreLine, At, Goto, WriteSettings
  <2>2. Wrapped <=> settings.line = cmd.old.command
    BY KnownWrapper
  <2> QED
    BY <2>1, <2>2
<1>2. Wrapped => home.saved.line = mine.line /\ home.saved.line \notin Wrappers
  BY LineFacts DEF IInv, Typed, NeverLost, WrappedIsSaved
<1>3. /\ Restored(cmd.old) \in Settings
      /\ ~Restored(cmd.old).exists => Restored(cmd.old).line = "none"
      /\ Wrapped => Restored(cmd.old).line \notin Wrappers /\ (~ever.relined => Restored(cmd.old).line = mine.line)
  <2>1. CASE Restored(cmd.old) = NoFile /\ home.saved.created
    BY <2>1, <1>2 DEF NoFile, Settings, IInv, KeepsMine
  <2>2. CASE Restored(cmd.old) = home.backup /\ home.backup.exists
    BY <2>2 DEF IInv, Typed, KeepsMine
  <2>3. CASE Restored(cmd.old) = File(home.saved.line, settings.rest)
    BY <2>3, <1>2 DEF File, Settings, IInv, Typed
  <2> QED
    BY <2>1, <2>2, <2>3 DEF Restored, WithLine, WithoutLine
<1>4. Typed'
  BY <1>1, <1>3 DEF IInv, Typed
<1>5. ~Wrapped' /\ (~ever.relined => settings'.line = mine.line) /\ (~settings'.exists => settings'.line = "none")
  BY <1>1, <1>3 DEF IInv, KeepsMine, NeverLost, LineComesBack, Wrapped
<1>6. cmd'.op = "uninstall"
  BY <1>1 DEF IInv, Typed
<1> QED
  BY <1>1, <1>4, <1>5, <1>6
     DEF IInv, KeepsMine, Installing, Uninstalling, NeverLost, WrappedIsSaved,
         LineComesBack, Wrapped

(* What it takes away then, no wrapper needs.                              *)
LEMMA RemoveStep == IInv /\ (RemoveSkills \/ UninstallHook \/ UninstallCodex \/ RemoveOwn \/ RemoveBinary) => IInv'
<1> SUFFICES ASSUME IInv, RemoveSkills \/ UninstallHook \/ UninstallCodex \/ RemoveOwn \/ RemoveBinary PROVE IInv'
  OBVIOUS
<1>1. CASE RemoveSkills
  BY <1>1, QuietStep DEF RemoveSkills, At, Goto, IInv, Typed, Early
<1>2. CASE UninstallHook
  BY <1>2, QuietStep DEF UninstallHook, At, Goto, IInv, Typed, Early, Accounts
<1>3. CASE UninstallCodex
  BY <1>3, QuietStep DEF UninstallCodex, At, Goto, IInv, Typed, Early
<1>4. CASE RemoveOwn \/ RemoveBinary
  <2>1. /\ UNCHANGED <<settings, mine>> /\ cmd.op = "uninstall" /\ cmd.pc # "line"
        /\ ever' = ever \/ ever' = [ever EXCEPT !.gone = TRUE]
        /\ cmd' = NoCmd \/ \E pc \in {"saved", "backup", "binary"} : cmd' = [cmd EXCEPT !.pc = pc]
    BY <1>4 DEF RemoveOwn, RemoveBinary, At, Goto, Ended
  <2>2. \/ home' = [home EXCEPT !.manifest = NoManifest] \/ home' = [home EXCEPT !.saved = NoSaved]
        \/ home' = [home EXCEPT !.backup = NoFile] \/ home' = [home EXCEPT !.binary = 0]
    BY <1>4 DEF RemoveOwn, RemoveBinary
  <2>3. ~Wrapped
    BY <2>1 DEF IInv, Uninstalling
  <2>4. home'.saved \in {home.saved, NoSaved} /\ home'.backup \in {home.backup, NoFile}
    BY <2>2 DEF IInv, Typed
  <2>5. cmd'.op \in {"none", "uninstall"} /\ ever'.relined = ever.relined
    BY <2>1 DEF IInv, Typed, NoCmd, Accounts
  <2>6. home' = [manifest |-> home'.manifest, saved |-> home'.saved, backup |-> home'.backup, binary |-> home'.binary]
    BY <2>2 DEF IInv, Typed
  <2>7. cmd' = [op |-> cmd'.op, pc |-> cmd'.pc, ver |-> cmd'.ver, old |-> cmd'.old, new |-> cmd'.new]
    BY <2>1 DEF IInv, Typed, NoCmd
  <2>8. ever' \in Accounts
    BY <2>1 DEF IInv, Typed, Accounts
  <2>9. NoFile \in Settings /\ NoSaved \in [exists : BOOLEAN, line : Lines \union {"none", "legacy"}, created : BOOLEAN]
    BY DEF Settings, NoFile, NoSaved
  <2>10. Typed'
    BY <2>1, <2>4, <2>6, <2>7, <2>8, <2>9 DEF IInv, Typed
  <2> QED
    BY <2>1, <2>3, <2>4, <2>5, <2>10, LineFacts
       DEF IInv, KeepsMine, Installing, Uninstalling, NeverLost, WrappedIsSaved,
           LineComesBack, Wrapped, NoFile, NoSaved
<1> QED
  BY <1>1, <1>2, <1>3, <1>4

(* A command is killed; the user edits between two.                        *)
LEMMA OutsideStep ==
  IInv /\ (Crash \/ EditSettings \/ BreakSettings \/ SetLine \/ EditSkill \/ EditHooks \/ ToggleCodex \/ ToggleLink)
  => IInv'
<1> SUFFICES ASSUME IInv,
                    Crash \/ EditSettings \/ BreakSettings \/ SetLine \/ EditSkill \/ EditHooks \/ ToggleCodex \/ ToggleLink
             PROVE  IInv'
  OBVIOUS
<1>1. CASE Crash
  BY <1>1, QuietStep DEF Crash, NoCmd, IInv, Typed, Accounts
<1>2. CASE EditSkill \/ EditHooks \/ ToggleCodex \/ ToggleLink
  BY <1>2, QuietStep DEF EditSkill, EditHooks, ToggleCodex, ToggleLink, Acting, IInv, Typed, Accounts
<1>3. CASE EditSettings
  <2>1. /\ UNCHANGED <<home, cmd, ever>> /\ cmd.op = "none"
        /\ settings' = File(settings.line, settings.rest + 1) /\ mine' = File(mine.line, mine.rest + 1)
    BY <1>3 DEF EditSettings, Acting
  <2> QED
    BY <2>1
       DEF IInv, Typed, KeepsMine, Installing, Uninstalling, NeverLost, WrappedIsSaved,
           LineComesBack, Wrapped, Settings, File
<1>4. CASE BreakSettings
  <2>1. UNCHANGED <<home, cmd, ever, mine>> /\ cmd.op = "none" /\ settings' = [settings EXCEPT !.valid = ~@]
    BY <1>4 DEF BreakSettings, Acting
  <2>2. settings' \in Settings /\ settings'.line = settings.line /\ settings'.exists = settings.exists
    BY <2>1 DEF IInv, Typed, Settings
  <2> QED
    BY <2>1, <2>2
       DEF IInv, Typed, KeepsMine, Installing, Uninstalling, NeverLost, WrappedIsSaved,
           LineComesBack, Wrapped
<1>5. CASE SetLine
  <2>1. PICK l \in Lines : settings' = File(l, settings.rest) /\ mine' = File(l, mine.rest)
    BY <1>5 DEF SetLine
  <2>2. UNCHANGED <<home, cmd>> /\ cmd.op = "none" /\ ever' = [ever EXCEPT !.relined = TRUE]
    BY <1>5 DEF SetLine, Acting
  <2>3. l \notin Wrappers
    BY LineFacts
  <2>4. Typed' /\ ever'.relined
    BY <2>1, <2>2 DEF IInv, Typed, Settings, File, Accounts
  <2> QED
    BY <2>1, <2>2, <2>3, <2>4
       DEF IInv, KeepsMine, Installing, Uninstalling, NeverLost, WrappedIsSaved,
           LineComesBack, Wrapped, File
<1> QED
  BY <1>1, <1>2, <1>3, <1>4, <1>5

(* The invariant is inductive while nothing is lost.                       *)
LEMMA NextIInv == Shape /\ IInv /\ ~ever'.lost /\ [Next]_vars => IInv'
<1>1. IInv /\ UNCHANGED vars => IInv'
  BY
     DEF vars, IInv, Typed, KeepsMine, Installing, Uninstalling, NeverLost,
         WrappedIsSaved, LineComesBack, Wrapped
<1>2. IInv /\ ~ever'.lost => ~BackupTorn
  BY DEF BackupTorn, IInv, Typed, Accounts
<1> QED
  BY <1>1, <1>2, BeginStep, InstallStep, WrapAgainStep, RewrapStep, WrapStep, InstallEndStep, RestoreStep,
     RemoveStep, OutsideStep
     DEF Next

LineSafe == Shape /\ (~ever.lost => IInv)

---------------------------------------------------------------------------
(* The user's status line is the one saved while csquad's wrapper stands   *)
(* in settings.json, with the binary the wrapper names in place, and else, *)
(* unless they changed it, in settings.json itself: whatever commands run, *)
(* die and follow each other (wrapStatusLine, restoreStatusLine,           *)
(* Uninstall), until a kill in the midst of the backup or an uninstall     *)
(* that meets a wrapper the manifest does not have.                        *)
THEOREM LineIsNeverLost == Spec => []LineNeverLost
<1>1. Init => LineSafe
  BY InitIInv, InitShape DEF LineSafe
<1>2. LineSafe /\ [Next]_vars => LineSafe'
  BY NextIInv, NextShape, NextAccounts DEF LineSafe, Shape
<1>3. LineSafe => LineNeverLost
  BY DEF LineSafe, IInv, NeverLost, LineNeverLost
<1> QED
  BY <1>1, <1>2, <1>3, PTL DEF Spec

---------------------------------------------------------------------------
(* Everything else csquad writes: the invariant.                           *)

(* The text csquad knows for its own in each directory.                    *)
Ours(d) ==
  CASE d = "claude" /\ cmd.op = "none" -> home.manifest.claude
    [] d = "claude" /\ cmd.op = "install" -> IF cmd.pc \in {"binary", "skills"} THEN cmd.old.claude ELSE cmd.new.claude
    [] d = "claude" /\ cmd.op = "uninstall" -> IF cmd.pc \in {"line", "skills"} THEN cmd.old.claude ELSE NoText
    [] d = "agents" /\ cmd.op = "none" -> home.manifest.codex
    [] d = "agents" /\ cmd.op = "install" ->
         IF cmd.pc \in {"binary", "skills", "codex"} THEN cmd.old.codex ELSE cmd.new.codex
    [] d = "agents" /\ cmd.op = "uninstall" ->
         IF cmd.pc \in {"line", "skills", "hook", "codex"} THEN cmd.old.codex ELSE NoText

(* The files of one directory: an edit is kept, and all else is csquad's   *)
(* text or nothing.                                                        *)
Holding(d, sk, ours) ==
  /\ sk[d].text \in {NoText, edits[d], ours}
  /\ edits[d] # NoText => edits[d] \in {sk[d].text, sk[d].bak}

SkillFiles(sk) == sk = [d \in Dirs |-> [text |-> sk[d].text, bak |-> sk[d].bak]]

SkillsTyped ==
  /\ SkillFiles(skills)
  /\ edits \in [Dirs -> {NoText} \union Theirs]
  /\ env.linked => skills["agents"].text = NoText

EditsSafe == ~ever.cut => \A d \in Dirs : Holding(d, skills, Ours(d))

---------------------------------------------------------------------------
OneMarked(s) == \A j, k \in DOMAIN s : Marked(s[j]) /\ Marked(s[k]) => j = k
NoneMarked(s) == \A k \in DOMAIN s : ~Marked(s[k])

HooksFile(h) ==
  /\ h = [exists |-> h.exists, valid |-> h.valid, created |-> h.created, groups |-> h.groups]
  /\ h.groups \in Groups /\ OneMarked(h.groups)
  /\ h.valid \in BOOLEAN
  /\ ~h.exists => h.groups = << >>

(* An uninstall that was not cut short took csquad's group out.            *)
HookGone == ever.gone \/ (cmd.op = "uninstall" /\ cmd.pc \notin {"line", "skills", "hook"})

HooksSafe ==
  /\ HooksFile(hooks)
  /\ ~ever.cut /\ HookGone => NoneMarked(hooks.groups)

---------------------------------------------------------------------------
(* The wrapper covers what the user has: the bytes hashed when it was      *)
(* written are those to give back until an edit is made.                   *)
Covered(h) ==
  /\ Wrapped /\ h = File(settings.line, h.rest) /\ h.rest \in Nat /\ h.rest <= settings.rest /\ settings.exists
  /\ mine.rest = settings.rest
  /\ IF home.saved.created
     THEN /\ home.saved.line = "none"
          /\ mine = NoFile \/ (mine = File("none", mine.rest) /\ mine.rest > h.rest)
     ELSE /\ mine = File(home.saved.line, mine.rest)
          /\ home.backup = File(home.saved.line, h.rest)

(* Nothing of csquad's stands in settings.json.                            *)
Clean == ~Wrapped /\ [settings EXCEPT !.valid = TRUE] = mine

Unwrapped ==
  /\ Clean /\ settings = mine
  /\ cmd.pc # "write" => ~home.backup.exists
  /\ cmd.pc \in {"backup", "write"} =>
       /\ home.saved.line = settings.line /\ (home.saved.created <=> ~settings.exists)
  /\ cmd.pc = "write" /\ settings.exists => home.backup = settings

FilesTyped ==
  /\ settings \in Settings /\ mine \in Settings /\ home.backup \in Settings
  /\ ~settings.exists => settings = NoFile
  /\ ~mine.exists => mine = NoFile
  /\ mine.valid = TRUE

(* How settings.json stands to what the user has, at each step of a        *)
(* command and between two, while they keep their line.                    *)
LineState ==
  /\ cmd.op = "none" =>
       IF home.manifest.exists THEN Covered(home.manifest.hash) ELSE Clean /\ ~home.backup.exists
  /\ cmd.op = "install" =>
       \/ Covered(cmd.new.hash)
       \/ Unwrapped /\ cmd.pc \in Early
  /\ cmd.op = "install" /\ cmd.pc \in Early \union {"rewrap"} => cmd.new.hash = cmd.old.hash
  /\ cmd.op = "uninstall" => IF cmd.pc = "line" THEN Covered(cmd.old.hash) ELSE Clean
  /\ cmd.op = "uninstall" /\ cmd.pc = "binary" => ~home.backup.exists

LinesSafe == ~ever.cut => (ever.gone => ~Wrapped) /\ (~ever.relined /\ ~ever.recast => LineState)

(* The wrapper that stands is the one csquad knows of.                     *)
Named ==
  /\ cmd.op = "none" /\ Wrapped => home.manifest.exists /\ settings.line = home.manifest.command
  /\ cmd.op = "install" /\ Wrapped =>
       IF cmd.pc \in {"hook", "manifest"} THEN settings.line = Command(cmd.ver)
       ELSE cmd.old.exists /\ settings.line = cmd.old.command

(* While no command was cut short.                                         *)
Whole == ~ever.lost /\ IInv /\ Named /\ FilesTyped /\ LinesSafe

---------------------------------------------------------------------------
(* Induction over the naturals, of a set of them: every set of naturals    *)
(* has a least one.                                                        *)
LEMMA NatMin ==
  ASSUME NEW T \in SUBSET Nat, T # {}
  PROVE  \E n \in T : \A m \in T : ~(m < n)
<1> DEFINE R == {ss \in Nat \X Nat : ss[1] < ss[2]}
<1>1. IsWellFoundedOn(R, Nat)
  BY NatLessThanWellFounded DEF OpToRel
<1> HIDE DEF R
<1>2. \E n \in T : \A m \in T : <<m, n>> \notin R
  BY <1>1, WFMin
<1> QED
  BY <1>2 DEF R

(* What holds at 0 and of the next number of each holds of all.            *)
LEMMA SetInduction ==
  ASSUME NEW S, 0 \in S, \A n \in Nat : n \in S => n + 1 \in S
  PROVE  Nat \subseteq S
<1> SUFFICES ASSUME Nat \ S # {} PROVE FALSE
  OBVIOUS
<1>1. PICK n \in Nat \ S : \A m \in Nat \ S : ~(m < n)
  BY NatMin
<1>2. n # 0 /\ n - 1 \in Nat
  BY <1>1
<1>3. n - 1 \in S
  BY <1>1, <1>2
<1> QED
  BY <1>1, <1>2, <1>3

(* The function that Kept computes with.                                   *)
Keeps(k, s, T) ==
  /\ k[0] = << >>
  /\ \A n \in 1..Len(s) : k[n] = IF s[n] \in T THEN Append(k[n - 1], s[n]) ELSE k[n - 1]

(* There is one.                                                           *)
LEMMA KeepsExists ==
  ASSUME NEW A, NEW s \in Seq(A), NEW T
  PROVE  \E k \in [0..Len(s) -> Seq(A)] : Keeps(k, s, T)
<1> DEFINE Upto(k, n) == /\ k[0] = << >>
                         /\ \A i \in 1..n : k[i] = IF s[i] \in T THEN Append(k[i - 1], s[i]) ELSE k[i - 1]
           P(n) == \E k \in [0..n -> Seq(A)] : Upto(k, n)
           S == {n \in Nat : n <= Len(s) => P(n)}
<1>0. Len(s) \in Nat
  OBVIOUS
<1>1. 0 \in S
  <2> DEFINE z == [i \in 0..0 |-> << >>]
  <2>1. z \in [0..0 -> Seq(A)] /\ Upto(z, 0)
    OBVIOUS
  <2> QED
    BY <2>1
<1>2. ASSUME NEW n \in Nat, n \in S PROVE n + 1 \in S
  <2>a. P(n + 1) => n + 1 \in S
    <3> HIDE DEF P
    <3> QED
      OBVIOUS
  <2>b. n + 1 <= Len(s) => P(n)
    <3> HIDE DEF P
    <3> QED
      BY <1>0, <1>2
  <2>c. ~(n + 1 <= Len(s)) => n + 1 \in S
    <3> HIDE DEF P
    <3> QED
      OBVIOUS
  <2> HIDE DEF S
  <2> SUFFICES ASSUME n + 1 <= Len(s) PROVE P(n + 1)
    BY <2>a, <2>c
  <2>1. PICK k \in [0..n -> Seq(A)] : Upto(k, n)
    BY <2>b
  <2> DEFINE x == IF s[n + 1] \in T THEN Append(k[n], s[n + 1]) ELSE k[n]
             g == [i \in 0..(n + 1) |-> IF i = n + 1 THEN x ELSE k[i]]
  <2>2. x \in Seq(A)
    BY <2>1
  <2> HIDE DEF x
  <2>3. g \in [0..(n + 1) -> Seq(A)]
    BY <2>1, <2>2
  <2>4. g[n + 1] = x /\ \A i \in 0..n : g[i] = k[i]
    OBVIOUS
  <2>5. Upto(g, n + 1)
    <3>1. g[0] = << >>
      BY <2>1, <2>4
    <3>2. ASSUME NEW i \in 1..(n + 1)
          PROVE  g[i] = IF s[i] \in T THEN Append(g[i - 1], s[i]) ELSE g[i - 1]
      <4> HIDE DEF g
      <4>0. i - 1 \in 0..n
        OBVIOUS
      <4>1. CASE i = n + 1
        BY <4>1, <4>0, <2>4 DEF x
      <4>2. CASE i \in 1..n
        BY <4>2, <4>0, <2>1, <2>4
      <4> QED
        BY <4>1, <4>2
    <3> QED
      BY <3>1, <3>2
  <2> QED
    BY <2>3, <2>5
<1>3. Nat \subseteq S
  <2> HIDE DEF S
  <2> QED
    BY <1>1, <1>2, SetInduction
<1>4. P(Len(s))
  <2> HIDE DEF P
  <2> QED
    BY <1>0, <1>3
<1>5. PICK k \in [0..Len(s) -> Seq(A)] : Upto(k, Len(s))
  BY <1>4
<1> QED
  BY <1>5 DEF Keeps

(* Kept uses it.                                                           *)
LEMMA KeptIs ==
  ASSUME NEW A, NEW s \in Seq(A), NEW T
  PROVE  \E k \in [0..Len(s) -> Seq(A)] : Keeps(k, s, T) /\ Kept(s, T) = k[Len(s)]
<1> DEFINE Body(g) == [n \in 0..Len(s) |->
                         IF n = 0 THEN << >> ELSE IF s[n] \in T THEN Append(g[n - 1], s[n]) ELSE g[n - 1]]
           F == CHOOSE g : g = Body(g)
<1>1. \E g : g = Body(g)
  <2>1. PICK k \in [0..Len(s) -> Seq(A)] : Keeps(k, s, T)
    BY KeepsExists
  <2>2. k = [n \in 0..Len(s) |-> k[n]]
    OBVIOUS
  <2>3. ASSUME NEW n \in 0..Len(s) PROVE k[n] = Body(k)[n]
    <3>1. n = 0 \/ n \in 1..Len(s)
      OBVIOUS
    <3> QED
      BY <2>1, <3>1 DEF Keeps
  <2>4. k = Body(k)
    BY <2>2, <2>3
  <2> QED
    BY <2>4
<1>2. F = Body(F)
  BY <1>1
<1> HIDE DEF F
<1>3. \A n \in 0..Len(s) : F[n] = Body(F)[n]
  BY <1>2
<1>4. Keeps(F, s, T)
  BY <1>3 DEF Keeps
<1>5. \A n \in 0..Len(s) : F[n] \in Seq(A)
  <2> DEFINE S == {n \in Nat : n <= Len(s) => F[n] \in Seq(A)}
  <2>1. 0 \in S
    <3>1. F[0] = << >> /\ << >> \in Seq(A)
      BY <1>4 DEF Keeps
    <3> QED
      BY <3>1
  <2>2. ASSUME NEW n \in Nat, n \in S PROVE n + 1 \in S
    <3> SUFFICES ASSUME n + 1 <= Len(s) PROVE F[n + 1] \in Seq(A)
      OBVIOUS
    <3>1. F[n] \in Seq(A) /\ n + 1 \in 1..Len(s) /\ (n + 1) - 1 = n /\ s[n + 1] \in A
      BY <2>2
    <3>2. F[n + 1] = IF s[n + 1] \in T THEN Append(F[n], s[n + 1]) ELSE F[n]
      BY <1>4, <3>1 DEF Keeps
    <3> QED
      BY <3>1, <3>2
  <2>3. Nat \subseteq S
    <3> HIDE DEF S
    <3> QED
      BY <2>1, <2>2, SetInduction
  <2> QED
    BY <2>3
<1>6. F \in [0..Len(s) -> Seq(A)]
  BY <1>2, <1>5
<1>7. Kept(s, T) = F[Len(s)]
  BY DEF Kept, F
<1> QED
  BY <1>4, <1>6, <1>7

(* What is kept of an empty sequence, ...                                  *)
LEMMA KeptEmpty == \A T : Kept(<< >>, T) = << >>
<1> SUFFICES ASSUME NEW T PROVE Kept(<< >>, T) = << >>
  OBVIOUS
<1>1. << >> \in Seq({}) /\ Len(<< >>) = 0
  OBVIOUS
<1>2. PICK k \in [0..Len(<< >>) -> Seq({})] : Keeps(k, << >>, T) /\ Kept(<< >>, T) = k[Len(<< >>)]
  BY <1>1, KeptIs
<1> QED
  BY <1>1, <1>2 DEF Keeps

(* ... of one with one more at its end.                                    *)
LEMMA KeptAppend ==
  ASSUME NEW A, NEW s \in Seq(A), NEW T, NEW x \in A
  PROVE  Kept(Append(s, x), T) = IF x \in T THEN Append(Kept(s, T), x) ELSE Kept(s, T)
<1> DEFINE t == Append(s, x)
<1>0. t \in Seq(A) /\ Len(t) = Len(s) + 1 /\ t[Len(s) + 1] = x /\ \A n \in 1..Len(s) : t[n] = s[n]
  OBVIOUS
<1> HIDE DEF t
<1>1. PICK f \in [0..Len(s) -> Seq(A)] : Keeps(f, s, T) /\ Kept(s, T) = f[Len(s)]
  BY KeptIs
<1>2. PICK g \in [0..Len(t) -> Seq(A)] : Keeps(g, t, T) /\ Kept(t, T) = g[Len(t)]
  BY KeptIs, <1>0
<1>3. \A n \in 0..Len(s) : f[n] = g[n]
  <2> DEFINE S == {n \in Nat : n <= Len(s) => f[n] = g[n]}
  <2>1. 0 \in S
    BY <1>1, <1>2 DEF Keeps
  <2>2. ASSUME NEW n \in Nat, n \in S PROVE n + 1 \in S
    <3> SUFFICES ASSUME n + 1 <= Len(s) PROVE f[n + 1] = g[n + 1]
      OBVIOUS
    <3>1. f[n] = g[n] /\ n + 1 \in 1..Len(s) /\ n + 1 \in 1..Len(t) /\ (n + 1) - 1 = n
      BY <2>2, <1>0
    <3>2. t[n + 1] = s[n + 1]
      BY <3>1, <1>0
    <3>3. f[n + 1] = IF s[n + 1] \in T THEN Append(f[n], s[n + 1]) ELSE f[n]
      BY <1>1, <3>1 DEF Keeps
    <3>4. g[n + 1] = IF t[n + 1] \in T THEN Append(g[n], t[n + 1]) ELSE g[n]
      BY <1>2, <3>1 DEF Keeps
    <3> QED
      BY <3>1, <3>2, <3>3, <3>4
  <2>3. Nat \subseteq S
    <3> HIDE DEF S
    <3> QED
      BY <2>1, <2>2, SetInduction
  <2> QED
    BY <2>3
<1>4. Len(s) \in Nat /\ Len(t) \in 1..Len(t) /\ Len(t) - 1 = Len(s)
  BY <1>0
<1>5. g[Len(t)] = IF x \in T THEN Append(g[Len(s)], x) ELSE g[Len(s)]
  BY <1>2, <1>4, <1>0 DEF Keeps
<1>6. g[Len(s)] = f[Len(s)]
  BY <1>3, <1>4
<1> QED
  BY <1>1, <1>2, <1>5, <1>6 DEF t

(* Sequences grow at their end.                                            *)
LEMMA SeqInduction ==
  ASSUME NEW A, NEW P, << >> \in P, \A s \in Seq(A), x \in A : s \in P => Append(s, x) \in P
  PROVE  Seq(A) \subseteq P
<1> DEFINE S == {n \in Nat : \A s \in Seq(A) : Len(s) = n => s \in P}
<1>1. 0 \in S
  <2>1. \A s \in Seq(A) : Len(s) = 0 => s = << >>
    OBVIOUS
  <2> QED
    BY <2>1
<1>2. ASSUME NEW n \in Nat, n \in S PROVE n + 1 \in S
  <2> SUFFICES ASSUME NEW s \in Seq(A), Len(s) = n + 1 PROVE s \in P
    OBVIOUS
  <2> DEFINE t == SubSeq(s, 1, n)
  <2>1. t \in Seq(A) /\ Len(t) = n /\ s[n + 1] \in A
    OBVIOUS
  <2>2. s = Append(t, s[n + 1])
    OBVIOUS
  <2> HIDE DEF t
  <2>3. t \in P
    BY <1>2, <2>1
  <2> QED
    BY <2>1, <2>2, <2>3
<1>3. Nat \subseteq S
  <2> HIDE DEF S
  <2> QED
    BY <1>1, <1>2, SetInduction
<1> QED
  BY <1>3

(* Only what is in T is kept, ...                                          *)
LEMMA KeptIn ==
  ASSUME NEW A, NEW T
  PROVE  \A s \in Seq(A) : Kept(s, T) \in Seq(A \intersect T)
<1> DEFINE P == {s \in Seq(A) : Kept(s, T) \in Seq(A \intersect T)}
<1>1. << >> \in P
  <2>1. Kept(<< >>, T) = << >>
    BY KeptEmpty
  <2>2. << >> \in Seq(A) /\ << >> \in Seq(A \intersect T)
    OBVIOUS
  <2>3. Kept(<< >>, T) \in Seq(A \intersect T)
    BY <2>1, <2>2, Zenon
  <2> QED
    BY <2>2, <2>3
<1>2. ASSUME NEW s \in Seq(A), NEW x \in A, s \in P PROVE Append(s, x) \in P
  <2>1. Append(s, x) \in Seq(A) /\ Kept(s, T) \in Seq(A \intersect T)
    BY <1>2
  <2>2. Kept(Append(s, x), T) = IF x \in T THEN Append(Kept(s, T), x) ELSE Kept(s, T)
    BY KeptAppend
  <2> QED
    BY <2>1, <2>2
<1>3. Seq(A) \subseteq P
  <2> HIDE DEF P
  <2> QED
    BY <1>1, <1>2, SeqInduction
<1> QED
  BY <1>3

(* ... keeping twice keeps what is in both, ...                            *)
LEMMA KeptTwice ==
  ASSUME NEW A, NEW T, NEW U
  PROVE  \A s \in Seq(A) : Kept(Kept(s, T), U) = Kept(s, T \intersect U)
<1> DEFINE P == {s \in Seq(A) : Kept(Kept(s, T), U) = Kept(s, T \intersect U)}
<1>1. << >> \in P
  <2>1. Kept(<< >>, T) = << >> /\ Kept(<< >>, U) = << >> /\ Kept(<< >>, T \intersect U) = << >>
    BY KeptEmpty
  <2>2. Kept(Kept(<< >>, T), U) = Kept(<< >>, T \intersect U)
    BY <2>1, Zenon
  <2> QED
    BY <2>2
<1>2. ASSUME NEW s \in Seq(A), NEW x \in A, s \in P PROVE Append(s, x) \in P
  <2>1. Append(s, x) \in Seq(A) /\ Kept(Kept(s, T), U) = Kept(s, T \intersect U)
    BY <1>2
  <2>2. /\ Kept(Append(s, x), T) = IF x \in T THEN Append(Kept(s, T), x) ELSE Kept(s, T)
        /\ Kept(Append(s, x), T \intersect U) =
             IF x \in T \intersect U THEN Append(Kept(s, T \intersect U), x) ELSE Kept(s, T \intersect U)
    BY KeptAppend
  <2>3. Kept(s, T) \in Seq(A)
    <3>1. Kept(s, T) \in Seq(A \intersect T)
      BY KeptIn
    <3>2. Seq(A \intersect T) \subseteq Seq(A)
      BY SeqMonotonic
    <3> QED
      BY <3>1, <3>2
  <2>4. Kept(Append(Kept(s, T), x), U) = IF x \in U THEN Append(Kept(Kept(s, T), U), x) ELSE Kept(Kept(s, T), U)
    BY <2>3, KeptAppend
  <2>5. Kept(Kept(Append(s, x), T), U) = Kept(Append(s, x), T \intersect U)
    <3>1. CASE x \in T
      <4>1. Kept(Append(s, x), T) = Append(Kept(s, T), x)
        BY <3>1, <2>2
      <4>2. CASE x \in U
        <5>1. Kept(Append(s, x), T \intersect U) = Append(Kept(s, T \intersect U), x)
          BY <2>2, <3>1, <4>2
        <5>2. Kept(Append(Kept(s, T), x), U) = Append(Kept(Kept(s, T), U), x)
          BY <2>4, <4>2
        <5> QED
          BY <4>1, <5>1, <5>2, <2>1, Zenon
      <4>3. CASE x \notin U
        <5>1. Kept(Append(s, x), T \intersect U) = Kept(s, T \intersect U)
          BY <2>2, <4>3
        <5>2. Kept(Append(Kept(s, T), x), U) = Kept(Kept(s, T), U)
          BY <2>4, <4>3
        <5> QED
          BY <4>1, <5>1, <5>2, <2>1, Zenon
      <4> QED
        BY <4>2, <4>3
    <3>2. CASE x \notin T
      BY <3>2, <2>1, <2>2
    <3> QED
      BY <3>1, <3>2
  <2> QED
    BY <2>1, <2>5
<1>3. Seq(A) \subseteq P
  <2> HIDE DEF P
  <2> QED
    BY <1>1, <1>2, SeqInduction
<1> QED
  BY <1>3

(* ... sets that agree on what there is keep the same, ...                 *)
LEMMA KeptSame ==
  ASSUME NEW A, NEW T, NEW U, A \intersect T = A \intersect U
  PROVE  \A s \in Seq(A) : Kept(s, T) = Kept(s, U)
<1> DEFINE P == {s \in Seq(A) : Kept(s, T) = Kept(s, U)}
<1>1. << >> \in P
  BY KeptEmpty
<1>2. ASSUME NEW s \in Seq(A), NEW x \in A, s \in P PROVE Append(s, x) \in P
  <2>1. Append(s, x) \in Seq(A) /\ Kept(s, T) = Kept(s, U) /\ (x \in T <=> x \in U)
    BY <1>2
  <2>2. /\ Kept(Append(s, x), T) = IF x \in T THEN Append(Kept(s, T), x) ELSE Kept(s, T)
        /\ Kept(Append(s, x), U) = IF x \in U THEN Append(Kept(s, U), x) ELSE Kept(s, U)
    BY KeptAppend
  <2> QED
    BY <2>1, <2>2
<1>3. Seq(A) \subseteq P
  <2> HIDE DEF P
  <2> QED
    BY <1>1, <1>2, SeqInduction
<1> QED
  BY <1>3

(* ... and what is not kept may be replaced.                               *)
LEMMA KeptReplaced ==
  ASSUME NEW A, NEW T, NEW g \in A, g \notin T
  PROVE  \A s \in Seq(A) : \A i \in 1..Len(s) : s[i] \notin T => Kept([s EXCEPT ![i] = g], T) = Kept(s, T)
<1> DEFINE Same(s) == \A i \in 1..Len(s) : s[i] \notin T => Kept([s EXCEPT ![i] = g], T) = Kept(s, T)
           P == {s \in Seq(A) : Same(s)}
<1>1. << >> \in P
  OBVIOUS
<1>2. ASSUME NEW s \in Seq(A), NEW x \in A, s \in P PROVE Append(s, x) \in P
  <2> DEFINE t == Append(s, x)
  <2>1. t \in Seq(A) /\ Len(t) = Len(s) + 1 /\ t[Len(s) + 1] = x /\ \A i \in 1..Len(s) : t[i] = s[i]
    OBVIOUS
  <2>2. Kept(t, T) = IF x \in T THEN Append(Kept(s, T), x) ELSE Kept(s, T)
    BY KeptAppend
  <2>3. Same(s)
    BY <1>2
  <2>4. ASSUME NEW i \in 1..Len(t), t[i] \notin T PROVE Kept([t EXCEPT ![i] = g], T) = Kept(t, T)
    <3>1. CASE i = Len(s) + 1
      <4>1. [t EXCEPT ![i] = g] = Append(s, g)
        <5>1. Append(s, g) \in Seq(A) /\ Len(Append(s, g)) = Len(t)
          BY <2>1
        <5>4. Append(s, g)[Len(s) + 1] = g /\ \A j \in 1..Len(s) : Append(s, g)[j] = s[j]
          OBVIOUS
        <5> HIDE DEF t
        <5>5. \A j \in 1..Len(t) : [t EXCEPT ![i] = g][j] = IF j = i THEN g ELSE t[j]
          BY <2>1, <2>4, ExceptSeq
        <5>2. \A j \in 1..Len(t) : [t EXCEPT ![i] = g][j] = Append(s, g)[j]
          BY <2>1, <3>1, <5>4, <5>5
        <5>3. [t EXCEPT ![i] = g] \in Seq(A) /\ Len([t EXCEPT ![i] = g]) = Len(t)
          BY <2>1, ExceptSeq
        <5> QED
          BY <5>1, <5>2, <5>3, SeqEqual
      <4>2. Kept(Append(s, g), T) = Kept(s, T)
        BY KeptAppend
      <4> QED
        BY <4>1, <4>2, <3>1, <2>1, <2>2, <2>4
    <3>2. CASE i \in 1..Len(s)
      <4> DEFINE r == [s EXCEPT ![i] = g]
      <4>a. r \in Seq(A) /\ Len(r) = Len(s) /\ \A j \in 1..Len(s) : r[j] = IF j = i THEN g ELSE s[j]
        BY <3>2, ExceptSeq
      <4>1. [t EXCEPT ![i] = g] = Append(r, x) /\ r \in Seq(A)
        <5> HIDE DEF r
        <5>1. /\ Append(r, x) \in Seq(A) /\ Len(Append(r, x)) = Len(t)
              /\ \A j \in 1..Len(s) : Append(r, x)[j] = r[j]
              /\ Append(r, x)[Len(s) + 1] = x
          BY <2>1, <4>a
        <5> HIDE DEF t
        <5>2. /\ [t EXCEPT ![i] = g] \in Seq(A) /\ Len([t EXCEPT ![i] = g]) = Len(t)
              /\ \A j \in 1..Len(t) : [t EXCEPT ![i] = g][j] = IF j = i THEN g ELSE t[j]
          BY <2>1, <2>4, ExceptSeq
        <5>3. \A j \in 1..Len(t) : [t EXCEPT ![i] = g][j] = Append(r, x)[j]
          BY <2>1, <3>2, <4>a, <5>1, <5>2
        <5> QED
          BY <4>a, <5>1, <5>2, <5>3, SeqEqual
      <4>2. Kept(r, T) = Kept(s, T)
        BY <2>1, <2>3, <2>4, <3>2
      <4> HIDE DEF r
      <4>3. Kept(Append(r, x), T) = IF x \in T THEN Append(Kept(r, T), x) ELSE Kept(r, T)
        BY <4>1, KeptAppend
      <4> QED
        <5>1. Kept(Append(r, x), T) = Kept(t, T)
          <6> HIDE DEF t
          <6>1. CASE x \in T
            BY <6>1, <4>2, <4>3, <2>2, Zenon
          <6>2. CASE x \notin T
            BY <6>2, <4>2, <4>3, <2>2, Zenon
          <6> QED
            BY <6>1, <6>2
        <5> QED
          BY <4>1, <5>1, Zenon
    <3> QED
      BY <3>1, <3>2, <2>1
  <2> HIDE DEF t
  <2>5. Same(t)
    BY <2>4
  <2> HIDE DEF Same
  <2>6. t \in P
    BY <2>1, <2>5
  <2> QED
    BY <2>6 DEF t
<1>3. Seq(A) \subseteq P
  <2> HIDE DEF P
  <2> QED
    BY <1>1, <1>2, SeqInduction
<1> QED
  BY <1>3

(* A sequence of one that is not kept.                                     *)
LEMMA KeptAlone ==
  ASSUME NEW T, NEW g, g \notin T
  PROVE  Kept(<<g>>, T) = << >>
<1> DEFINE s == <<g>>
<1>1. s \in Seq({g}) /\ Len(s) = 1 /\ s[1] = g
  OBVIOUS
<1> HIDE DEF s
<1>2. PICK k \in [0..Len(s) -> Seq({g})] : Keeps(k, s, T) /\ Kept(s, T) = k[Len(s)]
  BY <1>1, KeptIs
<1>3. k[1] = k[0] /\ k[0] = << >>
  BY <1>1, <1>2 DEF Keeps
<1> QED
  BY <1>1, <1>2, <1>3 DEF s

---------------------------------------------------------------------------
(* A group is csquad's or the user's.                                      *)
LEMMA GroupKinds ==
  /\ \A g \in {"csquad", "user"} \X Nat : Marked(g) <=> g \notin Theirs
  /\ \A v \in Nat : Group(v) \in {"csquad", "user"} \X Nat /\ Marked(Group(v)) /\ Group(v) \notin Theirs
BY DEF Marked, Theirs, Group

(* addCodexHook puts one group of csquad's in the file and leaves the      *)
(* user's as they are.                                                     *)
LEMMA AddedGroup ==
  ASSUME NEW h, HooksFile(h), NEW v \in Nat, NEW prev, prev.group \in {"csquad"} \X Nat
  PROVE  LET a == AddedHook(h, Group(v), prev) IN
           /\ HooksFile(a.file) /\ Kept(a.file.groups, Theirs) = Kept(h.groups, Theirs)
           /\ a.text.group \in {"csquad"} \X Nat
<1> DEFINE g == Group(v)
           a == AddedHook(h, g, prev)
           A == {"csquad", "user"} \X Nat
<1>1. g \in A /\ Marked(g) /\ g \notin Theirs /\ g \in {"csquad"} \X Nat
  BY GroupKinds DEF Group
<1>2. h.groups \in Seq(A) /\ OneMarked(h.groups)
  BY DEF HooksFile, Groups
<1> HIDE DEF g
<1>3. CASE ~h.exists
  <2>1. a.file = [exists |-> TRUE, valid |-> TRUE, created |-> TRUE, groups |-> <<g>>] /\ a.text.group = g
    BY <1>3 DEF AddedHook, NoHooks
  <2>3. Kept(<<g>>, Theirs) = << >> /\ Kept(<< >>, Theirs) = << >>
    BY <1>1, KeptAlone, KeptEmpty
  <2>4. h.groups = << >>
    BY <1>3 DEF HooksFile
  <2>5. HooksFile(a.file)
    BY <1>1, <2>1 DEF HooksFile, Groups, OneMarked
  <2> QED
    BY <1>1, <2>1, <2>3, <2>4, <2>5 DEF g
<1>4. CASE h.exists /\ \E k \in DOMAIN h.groups : Marked(h.groups[k])
  <2> DEFINE First(k) == Marked(h.groups[k]) /\ \A j \in 1..(k - 1) : ~Marked(h.groups[j])
             at == CHOOSE k \in DOMAIN h.groups : First(k)
  <2>1. \E k \in DOMAIN h.groups : First(k)
    <3>1. PICK k \in DOMAIN h.groups : Marked(h.groups[k])
      BY <1>4
    <3>2. \A j \in 1..(k - 1) : j \in DOMAIN h.groups /\ j # k
      BY <1>2, <3>1
    <3> QED
      BY <1>2, <3>1, <3>2 DEF OneMarked
  <2>2. at \in DOMAIN h.groups /\ Marked(h.groups[at])
    BY <2>1
  <2>3. /\ a.file = [h EXCEPT !.groups[at] = g]
        /\ a.text.group \in {g, NoInsert.group}
    BY <1>4 DEF AddedHook
  <2> HIDE DEF at
  <2> DEFINE r == [h.groups EXCEPT ![at] = g]
  <2>4. /\ a.file.groups = r /\ a.file.exists /\ a.file.valid = h.valid
        /\ a.file = [exists |-> h.exists, valid |-> h.valid, created |-> h.created, groups |-> r]
    BY <1>4, <2>3 DEF HooksFile
  <2>5. at \in 1..Len(h.groups) /\ h.groups[at] \in A
    BY <1>2, <2>2
  <2>6. r \in Seq(A) /\ Len(r) = Len(h.groups) /\ \A j \in 1..Len(r) : r[j] = IF j = at THEN g ELSE h.groups[j]
    BY <1>1, <1>2, <2>5, ExceptSeq
  <2>7. Kept(r, Theirs) = Kept(h.groups, Theirs)
    <3>1. h.groups[at] \notin Theirs
      BY <2>2, <2>5, GroupKinds
    <3>2. \A s \in Seq(A) : \A i \in 1..Len(s) :
            s[i] \notin Theirs => Kept([s EXCEPT ![i] = g], Theirs) = Kept(s, Theirs)
      <4> HIDE DEF A
      <4> QED
        BY <1>1, KeptReplaced
    <3> QED
      BY <1>2, <2>5, <3>1, <3>2
  <2> HIDE DEF r
  <2>8. OneMarked(r)
    <3>1. DOMAIN r = 1..Len(h.groups) /\ DOMAIN h.groups = 1..Len(h.groups)
      BY <1>2, <2>6
    <3> QED
      BY <1>2, <2>2, <2>6, <3>1 DEF OneMarked
  <2>9. HooksFile(a.file)
    BY <1>4, <2>4, <2>6, <2>8 DEF HooksFile, Groups
  <2>10. NoInsert.group \in {"csquad"} \X Nat
    BY DEF NoInsert, Group
  <2> QED
    BY <1>1, <2>3, <2>4, <2>7, <2>9, <2>10 DEF g
<1>5. CASE h.exists /\ ~\E k \in DOMAIN h.groups : Marked(h.groups[k])
  <2> DEFINE r == Append(h.groups, g)
  <2>1. a.file = [h EXCEPT !.groups = r, !.created = FALSE] /\ a.text.group = g
    BY <1>5 DEF AddedHook
  <2>2. /\ r \in Seq(A) /\ Len(r) = Len(h.groups) + 1 /\ r[Len(h.groups) + 1] = g
        /\ \A j \in 1..Len(h.groups) : r[j] = h.groups[j]
    BY <1>1, <1>2
  <2>3. Kept(r, Theirs) = Kept(h.groups, Theirs)
    BY <1>1, <1>2, KeptAppend
  <2> HIDE DEF r
  <2>4. a.file = [exists |-> h.exists, valid |-> h.valid, created |-> FALSE, groups |-> r]
    BY <2>1 DEF HooksFile
  <2>5. OneMarked(r)
    <3>1. ASSUME NEW j \in 1..Len(r), Marked(r[j]) PROVE j = Len(h.groups) + 1
      <4>1. DOMAIN h.groups = 1..Len(h.groups) /\ Len(h.groups) \in Nat
        BY <1>2
      <4>2. j \in 1..Len(h.groups) \/ j = Len(h.groups) + 1
        BY <2>2, <4>1
      <4>3. j \in 1..Len(h.groups) => r[j] = h.groups[j]
        BY <2>2
      <4> QED
        BY <1>5, <3>1, <4>1, <4>2, <4>3
    <3>2. DOMAIN r = 1..Len(r)
      BY <2>2
    <3> QED
      BY <3>1, <3>2 DEF OneMarked
  <2>6. HooksFile(a.file)
    BY <1>5, <2>2, <2>4, <2>5 DEF HooksFile, Groups
  <2> QED
    BY <1>1, <2>1, <2>3, <2>4, <2>6 DEF g
<1> QED
  BY <1>3, <1>4, <1>5 DEF g

(* Every group but csquad's: none of csquad's, and all of the user's.      *)
LEMMA WithoutOurs ==
  ASSUME NEW s \in Groups, OneMarked(s), NEW T,
         \/ T = Theirs
         \/ \E k \in DOMAIN s : Marked(s[k]) /\ T = Range(s) \ {s[k]}
  PROVE  Kept(s, T) \in Groups /\ NoneMarked(Kept(s, T)) /\ Kept(Kept(s, T), Theirs) = Kept(s, Theirs)
<1> DEFINE A == Range(s)
<1>1. s \in Seq(A) /\ A \subseteq {"csquad", "user"} \X Nat
  BY DEF Groups, Range
<1>2. A \intersect T = A \intersect Theirs
  <2>1. CASE T = Theirs
    BY <2>1
  <2>2. CASE \E k \in DOMAIN s : Marked(s[k]) /\ T = Range(s) \ {s[k]}
    <3>1. PICK k \in DOMAIN s : Marked(s[k]) /\ T = Range(s) \ {s[k]}
      BY <2>2
    <3>2. ASSUME NEW x \in A PROVE x = s[k] <=> Marked(x)
      <4>1. PICK j \in DOMAIN s : x = s[j]
        BY DEF Range
      <4> QED
        BY <3>1, <4>1 DEF OneMarked
    <3>3. \A x \in A : Marked(x) <=> x \notin Theirs
      BY <1>1, GroupKinds
    <3> QED
      BY <3>1, <3>2, <3>3
  <2> QED
    BY <2>1, <2>2
<1>3. Kept(s, T) \in Seq(A \intersect T)
  BY <1>1, KeptIn
<1>4. Seq(A \intersect T) \subseteq Groups
  <2>1. A \intersect T \subseteq {"csquad", "user"} \X Nat
    BY <1>1
  <2> QED
    BY <2>1, SeqMonotonic DEF Groups
<1>5. NoneMarked(Kept(s, T))
  <2>1. \A k \in DOMAIN Kept(s, T) : Kept(s, T)[k] \in A \intersect Theirs
    BY <1>2, <1>3
  <2> QED
    BY <1>1, <2>1, GroupKinds DEF NoneMarked
<1>6. Kept(Kept(s, T), Theirs) = Kept(s, T \intersect Theirs)
  BY <1>1, KeptTwice
<1>7. A \intersect (T \intersect Theirs) = A \intersect Theirs
  BY <1>2
<1>8. Kept(s, T \intersect Theirs) = Kept(s, Theirs)
  BY <1>1, <1>7, KeptSame
<1> QED
  BY <1>3, <1>4, <1>5, <1>6, <1>8

(* removeCodexHook leaves the user's groups as they are, and none of       *)
(* csquad's in a file that can be read.                                    *)
LEMMA RemovedGroup ==
  ASSUME NEW h, HooksFile(h), h.exists, NEW i, i.group \in {"csquad"} \X Nat
  PROVE  LET r == RemovedHook(h, i) IN
           /\ HooksFile(r) /\ Kept(r.groups, Theirs) = Kept(h.groups, Theirs)
           /\ h.valid => NoneMarked(r.groups)
<1> DEFINE A == {"csquad", "user"} \X Nat
           r == RemovedHook(h, i)
<1>1. h.groups \in Seq(A) /\ h.groups \in Groups /\ OneMarked(h.groups)
  BY DEF HooksFile, Groups
<1>2. i.group \in A /\ Marked(i.group) /\ i.group \notin Theirs
  BY GroupKinds DEF Marked, Theirs
<1>3. \A s : NoneMarked(s) => OneMarked(s)
  BY DEF NoneMarked, OneMarked
<1>4. CASE i.as = "file" /\ Holds(h, i)
  <2>1. h.groups = <<i.group>> /\ r = NoHooks
    BY <1>4 DEF Holds, RemovedHook
  <2>3. Kept(<<i.group>>, Theirs) = << >> /\ Kept(<< >>, Theirs) = << >>
    BY <1>2, KeptAlone, KeptEmpty
  <2> QED
    BY <2>1, <2>3 DEF NoHooks, HooksFile, Groups, OneMarked, NoneMarked
<1>5. CASE i.as \in {"first", "after"} /\ Holds(h, i)
  <2> DEFINE T == Range(h.groups) \ {i.group}
             w == Kept(h.groups, T)
  <2>1. \E k \in DOMAIN h.groups : Marked(h.groups[k]) /\ T = Range(h.groups) \ {h.groups[k]}
    <3>1. PICK k \in DOMAIN h.groups : h.groups[k] = i.group
      <4>1. CASE i.as = "first"
        BY <1>5, <4>1 DEF Holds, Range
      <4>2. CASE i.as = "after"
        BY <1>1, <1>5, <4>2 DEF Holds
      <4> QED
        BY <1>5, <4>1, <4>2
    <3> QED
      BY <1>2, <3>1
  <2>2. w \in Groups /\ NoneMarked(w) /\ Kept(w, Theirs) = Kept(h.groups, Theirs)
    <3> HIDE DEF T
    <3> QED
      BY <1>1, <2>1, WithoutOurs
  <2>3. Without(h.groups, i) = w
    BY DEF Without
  <2> HIDE DEF w
  <2>4. \E valid \in BOOLEAN : r = [exists |-> h.exists, valid |-> valid, created |-> h.created, groups |-> w]
    <3>1. h.valid \in BOOLEAN
      BY DEF HooksFile
    <3>2. CASE i.as = "first"
      <4>1. r = [h EXCEPT !.groups = w, !.valid = h.valid /\ Len(h.groups) = 1]
        BY <1>5, <2>3, <3>2 DEF RemovedHook
      <4>2. (h.valid /\ Len(h.groups) = 1) \in BOOLEAN
        OBVIOUS
      <4> DEFINE b == h.valid /\ Len(h.groups) = 1
      <4> HIDE DEF b
      <4>3. r = [exists |-> h.exists, valid |-> b, created |-> h.created, groups |-> w]
        BY <4>1 DEF HooksFile, b
      <4> QED
        BY <4>2, <4>3 DEF b
    <3>3. CASE i.as = "after"
      BY <1>5, <2>3, <3>1, <3>3 DEF RemovedHook, HooksFile
    <3> QED
      BY <1>5, <3>2, <3>3
  <2> QED
    BY <1>3, <2>2, <2>4 DEF HooksFile
<1>6. CASE ~(i.as \in {"file", "first", "after"} /\ Holds(h, i)) /\ h.valid
  <2> DEFINE w == Kept(h.groups, Theirs)
             c == h.created /\ ~\E k \in DOMAIN h.groups : Marked(h.groups[k])
  <2>1. r = [h EXCEPT !.groups = w, !.created = c]
    BY <1>6 DEF RemovedHook
  <2>2. w \in Groups /\ NoneMarked(w) /\ Kept(w, Theirs) = Kept(h.groups, Theirs)
    BY <1>1, WithoutOurs
  <2> HIDE DEF w, c
  <2>3. r = [exists |-> h.exists, valid |-> h.valid, created |-> c, groups |-> w]
    BY <2>1 DEF HooksFile
  <2> QED
    BY <1>3, <2>2, <2>3 DEF HooksFile, w
<1>7. CASE ~(i.as \in {"file", "first", "after"} /\ Holds(h, i)) /\ ~h.valid
  BY <1>7 DEF RemovedHook
<1> QED
  BY <1>4, <1>5, <1>6, <1>7

---------------------------------------------------------------------------
(* hooks.json: the file stays one with at most one group of csquad's, and  *)
(* commands leave the user's groups alone.                                 *)
LEMMA InitHooks == Init => HooksSafe
<1> SUFFICES ASSUME Init PROVE HooksSafe
  OBVIOUS
<1>0. ~HookGone
  BY DEF Init, HookGone, NoCmd
<1>1. CASE hooks = NoHooks
  BY <1>0, <1>1 DEF HooksSafe, HooksFile, NoHooks, Groups, OneMarked
<1>2. CASE \E g \in Hooks : hooks = [NoHooks EXCEPT !.exists = TRUE, !.groups = g]
  <2>1. PICK g \in Hooks : hooks = [exists |-> TRUE, valid |-> TRUE, created |-> FALSE, groups |-> g]
    BY <1>2 DEF NoHooks
  <2>2. g \in Seq(Theirs)
    BY HooksAssumption DEF Theirs
  <2>3. \A k \in DOMAIN g : ~Marked(g[k])
    BY <2>2 DEF Marked, Theirs
  <2>4. Seq(Theirs) \subseteq Groups
    <3>1. Theirs \subseteq {"csquad", "user"} \X Nat
      BY DEF Theirs
    <3> QED
      BY <3>1, SeqMonotonic DEF Groups
  <2> QED
    BY <1>0, <2>1, <2>2, <2>3, <2>4 DEF HooksSafe, HooksFile, OneMarked
<1> QED
  BY <1>1, <1>2 DEF Init

(* What a command does to the file.                                        *)
LEMMA CommandHooks ==
  ASSUME Shape, HooksFile(hooks), InstallHook \/ UninstallHook
  PROVE  /\ HooksFile(hooks') /\ UserGroups(hooks') = UserGroups(hooks)
         /\ UninstallHook /\ ~ever'.cut => NoneMarked(hooks'.groups)
<1>1. CASE InstallHook
  <2>1. cmd.ver \in Nat /\ cmd.old.hooks.group \in {"csquad"} \X Nat /\ cmd.op = "install"
    BY <1>1 DEF Shape, Manifest, InstallHook, At
  <2>2. ~UninstallHook
    BY <2>1 DEF UninstallHook, At
  <2>3. CASE env.codex
    <3>1. hooks' = AddedHook(hooks, Group(cmd.ver), cmd.old.hooks).file
      BY <1>1, <2>3 DEF InstallHook
    <3> QED
      BY <2>1, <2>2, <3>1, AddedGroup DEF UserGroups
  <2>4. CASE ~env.codex
    BY <1>1, <2>2, <2>4 DEF InstallHook
  <2> QED
    BY <2>3, <2>4
<1>2. CASE UninstallHook
  <2>1. cmd.old.hooks.group \in {"csquad"} \X Nat
    BY DEF Shape, Manifest
  <2>2. ever' = [ever EXCEPT !.cut = ever.cut \/ ~hooks.valid]
    BY <1>2 DEF UninstallHook
  <2>3. ~ever'.cut => hooks.valid
    BY <2>2 DEF Shape, Accounts
  <2>4. CASE hooks.exists
    <3>1. hooks' = RemovedHook(hooks, cmd.old.hooks)
      BY <1>2, <2>4 DEF UninstallHook
    <3> QED
      BY <2>1, <2>3, <2>4, <3>1, RemovedGroup DEF UserGroups
  <2>5. CASE ~hooks.exists
    BY <1>2, <2>5 DEF UninstallHook, HooksFile, NoneMarked
  <2> QED
    BY <2>4, <2>5
<1> QED
  BY <1>1, <1>2

(* What the user does to it.                                               *)
LEMMA UserHooks ==
  ASSUME Shape, HooksFile(hooks), EditHooks \/ ToggleCodex
  PROVE  HooksFile(hooks') /\ (NoneMarked(hooks.groups) => NoneMarked(hooks'.groups))
<1> DEFINE A == {"csquad", "user"} \X Nat
<1>0. hooks.groups \in Seq(A) /\ OneMarked(hooks.groups)
  BY DEF HooksFile, Groups
<1>1. CASE hooks' = NoHooks
  BY <1>1 DEF NoHooks, HooksFile, Groups, OneMarked, NoneMarked
<1>2. CASE hooks.exists /\ hooks' = [hooks EXCEPT !.valid = ~@]
  <2> DEFINE b == ~hooks.valid
  <2>1. hooks' = [exists |-> hooks.exists, valid |-> b, created |-> hooks.created, groups |-> hooks.groups]
    BY <1>2 DEF HooksFile
  <2>2. b \in BOOLEAN
    OBVIOUS
  <2> HIDE DEF b
  <2> QED
    BY <1>2, <2>1, <2>2 DEF HooksFile
<1>3. CASE /\ hooks.exists
           /\ \E n \in Nat : hooks' = [hooks EXCEPT !.groups = Append(@, <<"user", n>>), !.created = FALSE]
  <2>1. PICK n \in Nat : hooks' = [hooks EXCEPT !.groups = Append(@, <<"user", n>>), !.created = FALSE]
    BY <1>3
  <2> DEFINE g == <<"user", n>>
             r == Append(hooks.groups, g)
  <2>2. g \in A /\ ~Marked(g)
    BY DEF Marked
  <2> HIDE DEF g
  <2>3. /\ r \in Seq(A) /\ Len(r) = Len(hooks.groups) + 1 /\ r[Len(hooks.groups) + 1] = g
        /\ \A j \in 1..Len(hooks.groups) : r[j] = hooks.groups[j]
    BY <1>0, <2>2
  <2> HIDE DEF r
  <2>4. hooks' = [exists |-> hooks.exists, valid |-> hooks.valid, created |-> FALSE, groups |-> r]
    BY <2>1 DEF HooksFile, r, g
  <2>5. DOMAIN r = 1..Len(r) /\ DOMAIN hooks.groups = 1..Len(hooks.groups) /\ Len(hooks.groups) \in Nat
    BY <1>0, <2>3
  <2>6. \A j \in DOMAIN r : j \in DOMAIN hooks.groups \/ j = Len(hooks.groups) + 1
    BY <2>3, <2>5
  <2>7. \A j \in DOMAIN r : Marked(r[j]) => j \in DOMAIN hooks.groups /\ Marked(hooks.groups[j])
    BY <2>2, <2>3, <2>5, <2>6
  <2>8. OneMarked(r) /\ (NoneMarked(hooks.groups) => NoneMarked(r))
    BY <1>0, <2>7 DEF OneMarked, NoneMarked
  <2> QED
    BY <1>3, <2>3, <2>4, <2>8 DEF HooksFile, Groups
<1>4. CASE hooks.exists /\ \E k \in DOMAIN hooks.groups : hooks' = [hooks EXCEPT !.groups = RemoveAt(@, k)]
  <2>1. PICK k \in DOMAIN hooks.groups : hooks' = [hooks EXCEPT !.groups = RemoveAt(@, k)]
    BY <1>4
  <2> DEFINE s == hooks.groups
             r == RemoveAt(s, k)
  <2>2. s \in Seq(A) /\ Len(s) \in Nat /\ DOMAIN s = 1..Len(s) /\ k \in 1..Len(s)
    BY <1>0
  <2>3. /\ r \in Seq(A) /\ Len(r) = Len(s) - 1
        /\ \A j \in 1..Len(r) : r[j] = IF j < k THEN s[j] ELSE s[j + 1]
    <3> DEFINE u == SubSeq(s, 1, k - 1)
               v == SubSeq(s, k + 1, Len(s))
    <3> HIDE DEF s
    <3>1. u \in Seq(A) /\ Len(u) = k - 1 /\ \A j \in 1..(k - 1) : u[j] = s[j]
      BY <2>2, SubSeqProperties
    <3>2. v \in Seq(A) /\ Len(v) = Len(s) - k /\ \A j \in 1..(Len(s) - k) : v[j] = s[k + j]
      <4>1. \A j \in (k + 1)..Len(s) : s[j] \in A
        BY <2>2
      <4>2. k + 1 \in Int /\ Len(s) \in Int /\ Len(s) - (k + 1) + 1 = Len(s) - k
        BY <2>2
      <4>3. /\ v \in Seq(A) /\ Len(v) = IF k + 1 <= Len(s) THEN Len(s) - (k + 1) + 1 ELSE 0
            /\ \A j \in 1..(Len(s) - (k + 1) + 1) : v[j] = s[(k + 1) + j - 1]
        BY <4>1, <4>2, SubSeqProperties
      <4> HIDE DEF v
      <4>4. Len(v) = Len(s) - k
        <5>1. CASE k + 1 <= Len(s)
          BY <4>2, <4>3, <5>1
        <5>2. CASE ~(k + 1 <= Len(s))
          <6>1. Len(s) - k = 0
            BY <2>2, <5>2
          <6> QED
            BY <4>3, <5>2, <6>1
        <5> QED
          BY <5>1, <5>2
      <4>5. ASSUME NEW j \in 1..(Len(s) - k) PROVE v[j] = s[k + j]
        <5>1. (k + 1) + j - 1 = k + j
          BY <2>2
        <5> QED
          BY <4>2, <4>3, <5>1
      <4> QED
        BY <4>3, <4>4, <4>5
    <3> HIDE DEF u, v
    <3>3. r = u \o v
      BY DEF RemoveAt, u, v
    <3>4. /\ u \o v \in Seq(A) /\ Len(u \o v) = Len(s) - 1
          /\ \A j \in 1..(Len(s) - 1) : (u \o v)[j] = IF j <= k - 1 THEN u[j] ELSE v[j - (k - 1)]
      <4>1. /\ u \o v \in Seq(A) /\ Len(u \o v) = Len(u) + Len(v)
            /\ \A j \in 1..(Len(u) + Len(v)) : (u \o v)[j] = IF j <= Len(u) THEN u[j] ELSE v[j - Len(u)]
        BY <3>1, <3>2, ConcatProperties
      <4>2. Len(u) + Len(v) = Len(s) - 1
        BY <2>2, <3>1, <3>2
      <4> QED
        BY <3>1, <4>1, <4>2
    <3>5. ASSUME NEW j \in 1..(Len(s) - 1) PROVE (u \o v)[j] = IF j < k THEN s[j] ELSE s[j + 1]
      <4>1. CASE j < k
        BY <2>2, <3>1, <3>4, <4>1
      <4>2. CASE ~(j < k)
        <5>1. j - (k - 1) \in 1..(Len(s) - k) /\ k + (j - (k - 1)) = j + 1 /\ ~(j <= k - 1)
          BY <2>2, <4>2
        <5>2. (u \o v)[j] = v[j - (k - 1)]
          BY <3>4, <5>1
        <5> QED
          BY <3>2, <4>2, <5>1, <5>2
      <4> QED
        BY <4>1, <4>2
    <3> QED
      BY <3>3, <3>4, <3>5
  <2>4. hooks' = [exists |-> hooks.exists, valid |-> hooks.valid, created |-> hooks.created, groups |-> r]
    BY <2>1 DEF HooksFile
  <2> HIDE DEF r, s
  <2>5. \A j \in DOMAIN r : j \in 1..Len(r) /\ j \in Nat /\ j + 1 \in 1..Len(s) /\ j \in 1..Len(s)
    <3> SUFFICES ASSUME NEW j \in DOMAIN r
                 PROVE  j \in 1..Len(r) /\ j \in Nat /\ j + 1 \in 1..Len(s) /\ j \in 1..Len(s)
      OBVIOUS
    <3>1. Len(r) = Len(s) - 1 /\ r \in Seq(A)
      BY <2>3
    <3>2. j \in 1..Len(r)
      BY <3>1
    <3>3. Len(s) \in Nat
      BY <2>2
    <3> QED
      BY <3>1, <3>2, <3>3
  <2>6. \A j \in DOMAIN r : (IF j < k THEN j ELSE j + 1) \in DOMAIN s
    BY <2>2, <2>5
  <2>7. OneMarked(s) => OneMarked(r)
    <3> SUFFICES ASSUME OneMarked(s), NEW i \in DOMAIN r, NEW j \in DOMAIN r, Marked(r[i]), Marked(r[j]) PROVE i = j
      BY DEF OneMarked
    <3>1. r[i] = s[IF i < k THEN i ELSE i + 1] /\ r[j] = s[IF j < k THEN j ELSE j + 1]
      BY <2>3, <2>5
    <3>2. (IF i < k THEN i ELSE i + 1) = (IF j < k THEN j ELSE j + 1)
      BY <2>6, <3>1 DEF OneMarked
    <3>3. i \in Nat /\ j \in Nat /\ k \in Nat
      BY <2>2, <2>3, <2>5
    <3> QED
      BY <3>2, <3>3
  <2>8. NoneMarked(s) => NoneMarked(r)
    BY <2>3, <2>5, <2>6 DEF NoneMarked
  <2> QED
    BY <1>0, <1>4, <2>3, <2>4, <2>7, <2>8 DEF HooksFile, Groups, s
<1>5. 10 + left.acts \in Nat
  BY DEF Shape
<1>6. CASE ToggleCodex
  BY <1>1, <1>6 DEF ToggleCodex
<1>7. CASE EditHooks
  BY <1>2, <1>3, <1>4, <1>5, <1>7 DEF EditHooks
<1> QED
  BY <1>6, <1>7

(* Every step keeps hooks.json as it should be ...                         *)
LEMMA NextHooks == Shape /\ Shape' /\ HooksSafe /\ [Next]_vars => HooksSafe'
<1> SUFFICES ASSUME Shape, Shape', HooksSafe, [Next]_vars PROVE HooksSafe'
  OBVIOUS
<1>0. HooksFile(hooks)
  BY DEF HooksSafe
<1>1. CASE InstallHook
  <2>1. HooksFile(hooks') /\ ~(~ever'.cut /\ HookGone')
    <3>1. cmd.op = "install" /\ cmd'.op = "install" /\ UNCHANGED ever
      BY <1>1 DEF InstallHook, At, Goto, Shape
    <3>2. ever.gone => ever.cut
      BY <3>1 DEF Shape
    <3> QED
      BY <1>0, <1>1, <3>1, <3>2, CommandHooks DEF HookGone
  <2> QED
    BY <2>1 DEF HooksSafe
<1>2. CASE UninstallHook
  BY <1>0, <1>2, CommandHooks DEF HooksSafe
<1>3. CASE EditHooks \/ ToggleCodex
  <2>1. UNCHANGED <<ever, cmd>>
    BY <1>3 DEF EditHooks, ToggleCodex, Acting
  <2> QED
    BY <1>0, <1>3, <2>1, UserHooks DEF HooksSafe, HookGone
<1>4. ASSUME UNCHANGED hooks, ~ever'.cut /\ HookGone' => ~ever.cut /\ HookGone PROVE HooksSafe'
  BY <1>4 DEF HooksSafe
<1>5. CASE \/ Install \/ InstallBinary \/ WriteSkills \/ InstallCodex \/ WrapAgain \/ RewrapLine \/ SaveLine
           \/ Backup \/ WrapLine
  <2>1. /\ UNCHANGED hooks /\ cmd'.op = "install"
        /\ ~ever'.gone \/ ever' = ever \/ ever' = [ever EXCEPT !.recast = @ \/ settings # cmd.old.hash]
    <3>1. CASE Install
      BY <3>1 DEF Install, Shape, Accounts
    <3>2. CASE InstallBinary \/ SaveLine \/ Backup
      BY <3>2 DEF InstallBinary, SaveLine, Backup, At, Goto, Shape
    <3>3. CASE WriteSkills \/ WrapAgain \/ RewrapLine \/ WrapLine
      BY <3>3 DEF WriteSkills, WrapAgain, RewrapLine, WrapLine, At, Shape
    <3>4. CASE InstallCodex
      BY <3>4 DEF InstallCodex, At, Goto, Shape
    <3> QED
      BY <1>5, <3>1, <3>2, <3>3, <3>4
  <2>2. ~ever'.cut /\ HookGone' => ~ever.cut /\ HookGone
    BY <2>1 DEF HookGone, Shape, Accounts
  <2> QED
    BY <1>4, <2>1, <2>2
<1>6. CASE HookFails \/ Crash \/ BackupTorn
  <2>1. /\ UNCHANGED hooks
        /\ ever' = [ever EXCEPT !.cut = TRUE] \/ ever' = [ever EXCEPT !.cut = TRUE, !.lost = TRUE]
    BY <1>6 DEF HookFails, Crash, BackupTorn
  <2>2. ever'.cut
    BY <2>1 DEF Shape, Accounts
  <2> QED
    BY <1>4, <2>1, <2>2
<1>7. CASE WriteManifest
  <2>1. UNCHANGED hooks /\ ever' = [ever EXCEPT !.gone = FALSE] /\ cmd' = NoCmd
    BY <1>7 DEF WriteManifest, Ended
  <2>2. ~HookGone'
    BY <2>1 DEF HookGone, NoCmd, Shape, Accounts
  <2> QED
    BY <1>4, <2>1, <2>2
<1>8. CASE Uninstall \/ RestoreLine \/ RemoveSkills \/ UninstallCodex \/ RemoveOwn
  <2>1. UNCHANGED hooks /\ (ever' = ever \/ \E b : ever' = [ever EXCEPT !.lost = b])
    BY <1>8 DEF Uninstall, RestoreLine, RemoveSkills, UninstallCodex, RemoveOwn
  <2>3. ever'.gone = ever.gone /\ ever'.cut = ever.cut
    BY <2>1 DEF Shape, Accounts
  <2>2. HookGone' => HookGone
    BY <1>8, <2>3
       DEF Uninstall, RestoreLine, RemoveSkills, UninstallCodex, RemoveOwn, HookGone, At, Goto, Shape, NoCmd
  <2> QED
    BY <1>4, <2>1, <2>2, <2>3
<1>9. CASE RemoveBinary
  <2>1. UNCHANGED hooks /\ ever' = [ever EXCEPT !.gone = TRUE] /\ cmd.op = "uninstall" /\ cmd.pc = "binary"
    BY <1>9 DEF RemoveBinary, Ended, At
  <2>2. HookGone /\ (~ever'.cut => ~ever.cut)
    BY <2>1 DEF HookGone, Shape, Accounts
  <2> QED
    BY <1>4, <2>1, <2>2
<1>10. CASE EditSettings \/ BreakSettings \/ SetLine \/ EditSkill \/ ToggleLink
  <2>1. UNCHANGED <<hooks, cmd>> /\ (ever' = ever \/ ever' = [ever EXCEPT !.relined = TRUE])
    BY <1>10 DEF EditSettings, BreakSettings, SetLine, EditSkill, ToggleLink, Acting
  <2>2. ever'.cut = ever.cut /\ ever'.gone = ever.gone
    BY <2>1 DEF Shape, Accounts
  <2> QED
    BY <1>4, <2>1, <2>2 DEF HookGone
<1>11. CASE UNCHANGED vars
  BY <1>11, <1>4 DEF vars, HookGone
<1> QED
  BY <1>1, <1>2, <1>3, <1>5, <1>6, <1>7, <1>8, <1>9, <1>10, <1>11 DEF Next

(* ... and the steps of a command the groups of the user.                  *)
LEMMA NextUserGroups ==
  Shape /\ HooksSafe /\ [Next]_vars => [cmd.op # "none" => UserGroups(hooks') = UserGroups(hooks)]_vars
<1> SUFFICES ASSUME Shape, HooksSafe, Next, cmd.op # "none" PROVE UserGroups(hooks') = UserGroups(hooks)
  OBVIOUS
<1>1. CASE InstallHook \/ UninstallHook
  BY <1>1, CommandHooks DEF HooksSafe
<1>2. CASE UNCHANGED hooks
  BY <1>2
<1> QED
  BY <1>1, <1>2
     DEF Next, Install, InstallBinary, WriteSkills, InstallCodex, WrapAgain, RewrapLine, SaveLine, Backup,
         BackupTorn, WrapLine, HookFails, WriteManifest, Uninstall, RestoreLine, RemoveSkills, UninstallCodex, RemoveOwn, RemoveBinary, Crash,
         EditSettings, BreakSettings, SetLine, EditSkill, EditHooks, ToggleCodex, ToggleLink, Acting

---------------------------------------------------------------------------
(* The skill files.                                                        *)
LEMMA InitSkills == Init => SkillsTyped /\ EditsSafe
<1> SUFFICES ASSUME Init PROVE SkillsTyped /\ EditsSafe
  OBVIOUS
<1>1. /\ skills = [d \in Dirs |-> [text |-> NoText, bak |-> NoText]]
      /\ edits = [d \in Dirs |-> NoText]
  BY DEF Init
<1>2. \A d \in Dirs : skills[d] = [text |-> NoText, bak |-> NoText] /\ edits[d] = NoText
  BY <1>1
<1>3. "agents" \in Dirs
  BY DEF Dirs
<1> QED
  BY <1>1, <1>2, <1>3 DEF SkillsTyped, EditsSafe, SkillFiles, Holding

(* A file that is replaced keeps an edit beside it.                        *)
LEMMA ReplacedKeeps ==
  ASSUME NEW f, f = [text |-> f.text, bak |-> f.bak],
         NEW t \in Written, NEW known \in SUBSET Written, NEW e \in {NoText} \union Theirs,
         NEW ours \in known \union {NoText}, f.text \in {NoText, e, ours}, e # NoText => e \in {f.text, f.bak}
  PROVE  /\ Replaced(f, t, known).text = t
         /\ e # NoText => e = Replaced(f, t, known).bak
<1>1. Written \intersect Theirs = {}
  BY DEF Written, Theirs, NoText
<1>2. CASE f.text \in known \union {NoText, t}
  <2>1. Replaced(f, t, known) = [text |-> t, bak |-> f.bak]
    BY <1>2 DEF Replaced
  <2>2. e # NoText => e # f.text
    BY <1>1, <1>2 DEF Written
  <2> QED
    BY <2>1, <2>2
<1>3. CASE f.text \notin known \union {NoText, t}
  BY <1>3 DEF Replaced
<1> QED
  BY <1>2, <1>3

(* writeManaged and removeFrom change one directory.                       *)
LEMMA PutKeeps ==
  ASSUME SkillFiles(skills), edits \in [Dirs -> {NoText} \union Theirs],
         NEW d \in Dirs, NEW t \in Written, NEW known \in SUBSET Written,
         skills' = [skills EXCEPT ![d] = Replaced(@, t, known)]
  PROVE  /\ SkillFiles(skills') /\ \A o \in Dirs \ {d} : skills'[o] = skills[o]
         /\ skills'[d].text = t
         /\ \A ours \in known \union {NoText} : Holding(d, skills, ours) => Holding(d, skills', t)
<1> DEFINE f == skills[d]
           r == Replaced(f, t, known)
<1>1. f = [text |-> f.text, bak |-> f.bak] /\ edits[d] \in {NoText} \union Theirs
  BY DEF SkillFiles
<1>2. r = [text |-> r.text, bak |-> r.bak]
  BY <1>1 DEF Replaced
<1>3. r.text = t
  BY <1>1 DEF Replaced
<1>4. skills'[d] = r /\ \A o \in Dirs \ {d} : skills'[o] = skills[o]
  BY DEF SkillFiles
<1>5. SkillFiles(skills')
  <2> HIDE DEF r
  <2>1. skills' = [o \in Dirs |-> skills'[o]]
    BY DEF SkillFiles
  <2>2. \A o \in Dirs : skills'[o] = [text |-> skills'[o].text, bak |-> skills'[o].bak]
    BY <1>2, <1>4 DEF SkillFiles
  <2> QED
    BY <2>1, <2>2 DEF SkillFiles
<1>6. ASSUME NEW ours \in known \union {NoText}, Holding(d, skills, ours) PROVE Holding(d, skills', t)
  <2>1. edits[d] # NoText => edits[d] = r.bak
    <3> HIDE DEF r
    <3>1. f.text \in {NoText, edits[d], ours} /\ (edits[d] # NoText => edits[d] \in {f.text, f.bak})
      BY <1>6 DEF Holding
    <3> HIDE DEF f
    <3> QED
      BY <1>1, <3>1, ReplacedKeeps DEF r
  <2> HIDE DEF r
  <2> QED
    BY <1>3, <1>4, <2>1 DEF Holding
<1> QED
  BY <1>3, <1>4, <1>5, <1>6

(* So does a file that is shipped or removed.                              *)
LEMMA ManagedKeeps ==
  ASSUME Shape, SkillFiles(skills), edits \in [Dirs -> {NoText} \union Theirs],
         NEW d \in Dirs, NEW t \in Written, NEW old, WriteManaged(d, t, old, Known(cmd.old)),
         NEW ours \in {cmd.old.claude, cmd.old.codex, NoText}, old = NoText => ours = NoText
  PROVE  /\ SkillFiles(skills') /\ \A o \in Dirs \ {d} : skills'[o] = skills[o]
         /\ Holding(d, skills, ours) => Holding(d, skills', t)
<1>1. Known(cmd.old) \in SUBSET Written /\ ours \in Known(cmd.old) \union {NoText}
  BY DEF Known, Shape, Manifest
<1>2. CASE t # NoText \/ old # NoText
  BY <1>1, <1>2, PutKeeps DEF WriteManaged
<1>3. CASE t = NoText /\ old = NoText
  BY <1>3 DEF WriteManaged, Holding
<1> QED
  BY <1>2, <1>3

(* removeCodex leaves a file that is Claude's too.                         *)
LEMMA CodexKeeps ==
  ASSUME Shape, SkillsTyped, NEW old \in {cmd.old.codex, CodexCopy(cmd.old)}, RemoveCodex(old, Known(cmd.old))
  PROVE  /\ SkillFiles(skills') /\ skills'["claude"] = skills["claude"]
         /\ env.linked => skills'["agents"] = skills["agents"]
         /\ Holding("agents", skills, cmd.old.codex) => Holding("agents", skills', NoText)
<1>1. /\ SkillFiles(skills) /\ edits \in [Dirs -> {NoText} \union Theirs]
      /\ "agents" \in Dirs /\ "claude" \in Dirs \ {"agents"}
  BY DEF SkillsTyped, SkillFiles, Dirs
<1>2. Known(cmd.old) \in SUBSET Written /\ cmd.old.codex \in Known(cmd.old) \union {NoText} /\ NoText \in Written
  BY DEF Known, Shape, Manifest, Written
<1>3. old = NoText => cmd.old.codex = NoText
  BY DEF CodexCopy, Shape, Manifest
<1>4. CASE old # NoText /\ ~env.linked
  BY <1>1, <1>2, <1>4, PutKeeps DEF RemoveCodex
<1>5. CASE ~(old # NoText /\ ~env.linked)
  <2>1. UNCHANGED skills
    BY <1>5 DEF RemoveCodex
  <2>2. Holding("agents", skills, cmd.old.codex) => Holding("agents", skills, NoText)
    BY <1>3, <1>5 DEF Holding, SkillsTyped
  <2> QED
    BY <1>1, <2>1, <2>2 DEF Holding
<1> QED
  BY <1>4, <1>5

(* What touches no skill, and leaves csquad with what it knows.            *)
LEMMA QuietSkills ==
  ASSUME SkillsTyped, EditsSafe, UNCHANGED <<skills, edits>>, env'.linked = env.linked,
         ~ever'.cut => ~ever.cut /\ \A d \in Dirs : Ours(d)' = Ours(d)
  PROVE  SkillsTyped' /\ EditsSafe'
BY DEF SkillsTyped, EditsSafe, SkillFiles, Holding

(* Every step keeps the edits.                                             *)
LEMMA NextSkills == Shape /\ Shape' /\ SkillsTyped /\ EditsSafe /\ [Next]_vars => SkillsTyped' /\ EditsSafe'
<1> SUFFICES ASSUME Shape, Shape', SkillsTyped, EditsSafe, [Next]_vars PROVE SkillsTyped' /\ EditsSafe'
  OBVIOUS
<1>a. Dirs = {"claude", "agents"} /\ "claude" # "agents"
  BY DEF Dirs
<1>b. SkillFiles(skills) /\ edits \in [Dirs -> {NoText} \union Theirs]
  BY DEF SkillsTyped
<1>0. CASE UNCHANGED vars
  BY <1>0, QuietSkills DEF vars, Ours
<1>1. CASE Install \/ Uninstall
  <2>1. CASE Install
    BY <2>1, QuietSkills DEF Install, Ours, Dirs, Shape, Accounts
  <2>2. CASE Uninstall
    BY <2>2, QuietSkills DEF Uninstall, Ours, Dirs, Shape, NoCmd, Accounts
  <2> QED
    BY <1>1, <2>1, <2>2
<1>2. CASE InstallBinary \/ RestoreLine \/ SaveLine \/ Backup
  <2>1. /\ UNCHANGED <<skills, env, edits, ever>> /\ cmd.op \in {"install", "uninstall"}
        /\ \E pc \in {"skills", "backup", "write"} : cmd' = [cmd EXCEPT !.pc = pc]
        /\ cmd.op = "uninstall" => cmd.pc = "line"
        /\ cmd.pc \in {"binary", "line"} => cmd' = [cmd EXCEPT !.pc = "skills"]
        /\ cmd.pc \notin {"binary", "line"} => cmd.op = "install" /\ cmd.pc \in {"wrap", "backup"} /\ cmd'.pc # "skills"
    BY <1>2 DEF InstallBinary, RestoreLine, SaveLine, Backup, At, Goto, Shape
  <2>2. cmd'.op = cmd.op /\ cmd'.old = cmd.old /\ cmd'.new = cmd.new /\ cmd'.pc \in {"skills", "backup", "write"}
    BY <2>1 DEF Shape
  <2>3. CASE cmd.pc \in {"binary", "line"}
    <3>1. cmd'.pc = "skills" /\ (cmd.op = "install" => cmd.pc = "binary") /\ (cmd.op = "uninstall" => cmd.pc = "line")
      BY <2>1, <2>2, <2>3 DEF Shape, Early
    <3>2. \A d \in Dirs : Ours(d)' = Ours(d)
      BY <2>1, <2>2, <3>1 DEF Ours, Dirs
    <3> QED
      BY <2>1, <3>2, QuietSkills
  <2>4. CASE cmd.pc \notin {"binary", "line"}
    <3>1. \A d \in Dirs : Ours(d)' = Ours(d)
      BY <2>1, <2>2, <2>4 DEF Ours, Dirs
    <3> QED
      BY <2>1, <3>1, QuietSkills
  <2> QED
    BY <2>3, <2>4
<1>3. CASE WrapAgain \/ RewrapLine \/ WrapLine \/ InstallHook
  <2>0. /\ UNCHANGED <<skills, env, edits>>
        /\ ever' = ever \/ ever' = [ever EXCEPT !.recast = @ \/ settings # cmd.old.hash]
        /\ cmd.op = "install" /\ cmd.pc \in {"wrap", "rewrap", "write", "hook"}
    BY <1>3 DEF WrapAgain, RewrapLine, WrapLine, InstallHook, At
  <2>1. /\ UNCHANGED <<skills, env, edits>> /\ ever'.cut = ever.cut
        /\ cmd.op = "install" /\ cmd.pc \in {"wrap", "rewrap", "write", "hook"}
    BY <2>0 DEF Shape, Accounts
  <2>2. /\ cmd'.op = "install" /\ cmd'.pc \in {"rewrap", "hook", "manifest"}
        /\ cmd'.new.claude = cmd.new.claude /\ cmd'.new.codex = cmd.new.codex
    <3>1. CASE WrapAgain
      BY <3>1 DEF WrapAgain, At, Shape, Manifest
    <3>2. CASE WrapLine \/ RewrapLine
      <4>1. cmd' = [cmd EXCEPT !.new.hash = settings', !.pc = "hook"]
        BY <3>2 DEF WrapLine, RewrapLine
      <4>2. cmd'.op = "install" /\ cmd'.pc = "hook" /\ cmd'.new = [cmd.new EXCEPT !.hash = settings']
        BY <2>1, <4>1 DEF Shape
      <4> QED
        BY <4>2 DEF Shape, Manifest
    <3>3. CASE InstallHook
      <4>1. \/ cmd' = [cmd EXCEPT !.pc = "manifest"]
            \/ \E x : cmd' = [cmd EXCEPT !.new.hooks = x, !.pc = "manifest"]
        BY <3>3 DEF InstallHook, Goto
      <4>2. CASE cmd' = [cmd EXCEPT !.pc = "manifest"]
        BY <2>1, <4>2 DEF Shape
      <4>3. CASE \E x : cmd' = [cmd EXCEPT !.new.hooks = x, !.pc = "manifest"]
        <5>1. PICK x : cmd' = [cmd EXCEPT !.new.hooks = x, !.pc = "manifest"]
          BY <4>3
        <5>2. cmd'.op = cmd.op /\ cmd'.pc = "manifest" /\ cmd'.new = [cmd.new EXCEPT !.hooks = x]
          BY <5>1 DEF Shape
        <5> QED
          BY <2>1, <5>2 DEF Shape, Manifest
      <4> QED
        BY <4>1, <4>2, <4>3
    <3> QED
      BY <1>3, <3>1, <3>2, <3>3
  <2>3. \A d \in Dirs : Ours(d)' = Ours(d)
    BY <2>1, <2>2 DEF Ours, Dirs
  <2> QED
    BY <2>1, <2>3, QuietSkills
<1>4. CASE WriteManifest
  BY <1>4, QuietSkills DEF WriteManifest, Ended, At, NoCmd, Ours, Dirs, Shape, Accounts
<1>5. CASE HookFails \/ Crash \/ BackupTorn
  BY <1>5, QuietSkills DEF HookFails, Crash, BackupTorn, Shape, Accounts
<1>6. CASE UninstallHook
  <2>1. ~ever'.cut => ~ever.cut
    BY <1>6 DEF UninstallHook, Shape, Accounts
  <2> QED
    BY <1>6, <2>1, QuietSkills DEF UninstallHook, At, Goto, Ours, Dirs, Shape
<1>7. CASE RemoveOwn
  BY <1>7, QuietSkills DEF RemoveOwn, Goto, Ours, Dirs, Shape
<1>8. CASE RemoveBinary
  BY <1>8, QuietSkills DEF RemoveBinary, Ended, At, NoCmd, Ours, Dirs, Shape, NoManifestLeft, NoManifest, Accounts
<1>9. CASE EditSettings \/ BreakSettings \/ SetLine \/ EditHooks \/ ToggleCodex
  BY <1>9, QuietSkills DEF EditSettings, BreakSettings, SetLine, EditHooks, ToggleCodex, Acting, Ours, Shape, Accounts
<1>10. CASE WriteSkills
  <2> DEFINE t == Text(IF Shared THEN "shared" ELSE "claude", cmd.ver)
  <2>1. /\ WriteManaged("claude", t, cmd.old.claude, Known(cmd.old))
        /\ cmd' = [cmd EXCEPT !.new.claude = t, !.pc = "codex"]
        /\ UNCHANGED <<env, edits, ever>> /\ cmd.op = "install" /\ cmd.pc = "skills"
    BY <1>10 DEF WriteSkills, At
  <2>2. t \in Written
    BY TextsFit DEF Shape
  <2> HIDE DEF t
  <2>3. /\ SkillFiles(skills') /\ skills'["agents"] = skills["agents"]
        /\ Holding("claude", skills, cmd.old.claude) => Holding("claude", skills', t)
    BY <1>a, <1>b, <2>1, <2>2, ManagedKeeps
  <2>4. /\ Ours("claude") = cmd.old.claude /\ Ours("agents") = cmd.old.codex
        /\ Ours("claude")' = t /\ Ours("agents")' = cmd.old.codex
    BY <2>1 DEF Ours, Shape, Manifest
  <2>5. SkillsTyped'
    BY <2>1, <2>3 DEF SkillsTyped
  <2>6. EditsSafe'
    BY <1>a, <2>1, <2>3, <2>4 DEF EditsSafe, Holding
  <2> QED
    BY <2>5, <2>6
<1>11. CASE InstallCodex
  <2>1. UNCHANGED <<env, edits, ever>> /\ cmd.op = "install" /\ cmd.pc = "codex"
    BY <1>11 DEF InstallCodex, At
  <2>2. Ours("claude") = cmd.new.claude /\ Ours("agents") = cmd.old.codex
    BY <2>1 DEF Ours
  <2>3. ASSUME NEW old \in {cmd.old.codex, CodexCopy(cmd.old)}, RemoveCodex(old, Known(cmd.old)),
               cmd'.op = "install", cmd'.pc = "wrap", cmd'.new.claude = cmd.new.claude, cmd'.new.codex = NoText
        PROVE  SkillsTyped' /\ EditsSafe'
    <3>1. /\ SkillFiles(skills') /\ skills'["claude"] = skills["claude"]
          /\ env.linked => skills'["agents"] = skills["agents"]
          /\ Holding("agents", skills, cmd.old.codex) => Holding("agents", skills', NoText)
      BY <2>3, CodexKeeps
    <3>2. Ours("claude")' = cmd.new.claude /\ Ours("agents")' = NoText
      BY <2>3 DEF Ours
    <3>3. SkillsTyped'
      BY <2>1, <3>1 DEF SkillsTyped
    <3>4. EditsSafe'
      BY <1>a, <2>1, <2>2, <3>1, <3>2 DEF EditsSafe, Holding
    <3> QED
      BY <3>3, <3>4
  <2>4. CASE RemoveCodex(CodexCopy(cmd.old), Known(cmd.old)) /\ Goto("wrap")
    BY <2>1, <2>3, <2>4 DEF Goto, Shape
  <2>5. CASE RemoveCodex(cmd.old.codex, Known(cmd.old)) /\ cmd' = [cmd EXCEPT !.new.shared = TRUE, !.pc = "wrap"]
    BY <2>1, <2>3, <2>5 DEF Shape, Manifest
  <2>6. CASE /\ ~env.linked
             /\ WriteManaged("agents", Text("codex", cmd.ver), CodexCopy(cmd.old), Known(cmd.old))
             /\ cmd' = [cmd EXCEPT !.new.codex = Text("codex", cmd.ver), !.pc = "wrap"]
    <3> DEFINE t == Text("codex", cmd.ver)
    <3>1. t \in Written
      BY TextsFit DEF Shape
    <3>2. CodexCopy(cmd.old) = NoText => cmd.old.codex = NoText
      BY DEF CodexCopy, Shape, Manifest
    <3> HIDE DEF t
    <3>3. /\ SkillFiles(skills') /\ skills'["claude"] = skills["claude"]
          /\ Holding("agents", skills, cmd.old.codex) => Holding("agents", skills', t)
      BY <1>a, <1>b, <2>6, <3>1, <3>2, ManagedKeeps DEF t
    <3>4. Ours("claude")' = cmd.new.claude /\ Ours("agents")' = t
      BY <2>1, <2>6 DEF Ours, Shape, Manifest, t
    <3>5. SkillsTyped'
      BY <2>1, <2>6, <3>3 DEF SkillsTyped
    <3>6. EditsSafe'
      BY <1>a, <2>1, <2>2, <3>3, <3>4 DEF EditsSafe, Holding
    <3> QED
      BY <3>5, <3>6
  <2> QED
    BY <1>11, <2>4, <2>5, <2>6 DEF InstallCodex
<1>12. CASE RemoveSkills
  <2>1. /\ WriteManaged("claude", NoText, cmd.old.claude, Known(cmd.old))
        /\ cmd' = [cmd EXCEPT !.pc = "hook"]
        /\ UNCHANGED <<env, edits, ever>> /\ cmd.op = "uninstall" /\ cmd.pc = "skills"
    BY <1>12 DEF RemoveSkills, At, Goto
  <2>2. NoText \in Written
    BY DEF Written
  <2>3. /\ SkillFiles(skills') /\ skills'["agents"] = skills["agents"]
        /\ Holding("claude", skills, cmd.old.claude) => Holding("claude", skills', NoText)
    BY <1>a, <1>b, <2>1, <2>2, ManagedKeeps
  <2>4. /\ Ours("claude") = cmd.old.claude /\ Ours("agents") = cmd.old.codex
        /\ Ours("claude")' = NoText /\ Ours("agents")' = cmd.old.codex
    BY <2>1 DEF Ours, Shape
  <2>5. SkillsTyped'
    BY <2>1, <2>3 DEF SkillsTyped
  <2>6. EditsSafe'
    BY <1>a, <2>1, <2>3, <2>4 DEF EditsSafe, Holding
  <2> QED
    BY <2>5, <2>6
<1>13. CASE UninstallCodex
  <2>1. /\ RemoveCodex(CodexCopy(cmd.old), Known(cmd.old)) /\ cmd' = [cmd EXCEPT !.pc = "manifest"]
        /\ UNCHANGED <<env, edits, ever>> /\ cmd.op = "uninstall" /\ cmd.pc = "codex"
    BY <1>13 DEF UninstallCodex, At, Goto
  <2>2. /\ SkillFiles(skills') /\ skills'["claude"] = skills["claude"]
        /\ env.linked => skills'["agents"] = skills["agents"]
        /\ Holding("agents", skills, cmd.old.codex) => Holding("agents", skills', NoText)
    BY <2>1, CodexKeeps
  <2>3. /\ Ours("claude") = NoText /\ Ours("agents") = cmd.old.codex
        /\ Ours("claude")' = NoText /\ Ours("agents")' = NoText
    BY <2>1 DEF Ours, Shape
  <2>4. SkillsTyped'
    BY <2>1, <2>2 DEF SkillsTyped
  <2>5. EditsSafe'
    BY <1>a, <2>1, <2>2, <2>3 DEF EditsSafe, Holding
  <2> QED
    BY <2>4, <2>5
<1>14. CASE EditSkill
  <2>1. PICK d \in Dirs : /\ Place(d) = d
                         /\ skills' = [skills EXCEPT ![d].text = Edit(left.acts)]
                         /\ edits' = [edits EXCEPT ![d] = Edit(left.acts)]
    BY <1>14 DEF EditSkill
  <2>2. UNCHANGED <<cmd, home, env, ever>> /\ Edit(left.acts) \in Theirs
    BY <1>14 DEF EditSkill, Acting, Edit, Theirs, Shape
  <2>3. /\ skills'[d] = [text |-> Edit(left.acts), bak |-> skills[d].bak] /\ edits'[d] = Edit(left.acts)
        /\ \A o \in Dirs \ {d} : skills'[o] = skills[o] /\ edits'[o] = edits[o]
    BY <1>b, <2>1 DEF SkillFiles
  <2>4. SkillFiles(skills') /\ edits' \in [Dirs -> {NoText} \union Theirs]
    <3>1. skills' = [o \in Dirs |-> skills'[o]] /\ edits' \in [Dirs -> {NoText} \union Theirs]
      BY <1>b, <2>1, <2>2 DEF SkillFiles
    <3>2. \A o \in Dirs : skills'[o] = [text |-> skills'[o].text, bak |-> skills'[o].bak]
      BY <1>b, <2>3 DEF SkillFiles
    <3> QED
      BY <3>1, <3>2 DEF SkillFiles
  <2>5. env.linked => d = "claude"
    BY <1>a, <2>1 DEF Place
  <2>6. SkillsTyped'
    BY <1>a, <2>2, <2>3, <2>4, <2>5 DEF SkillsTyped
  <2>7. \A o \in Dirs : Ours(o)' = Ours(o)
    BY <2>2 DEF Ours
  <2>8. EditsSafe'
    BY <2>2, <2>3, <2>7 DEF EditsSafe, Holding
  <2> QED
    BY <2>6, <2>8
<1>15. CASE ToggleLink
  <2>1. /\ skills' = [skills EXCEPT !["agents"] = [text |-> NoText, bak |-> NoText]]
        /\ edits' = [edits EXCEPT !["agents"] = NoText] /\ UNCHANGED <<cmd, home, ever>>
    BY <1>15 DEF ToggleLink, Acting
  <2>2. /\ skills'["agents"] = [text |-> NoText, bak |-> NoText] /\ edits'["agents"] = NoText
        /\ skills'["claude"] = skills["claude"] /\ edits'["claude"] = edits["claude"]
    BY <1>a, <1>b, <2>1 DEF SkillFiles
  <2>3. SkillFiles(skills') /\ edits' \in [Dirs -> {NoText} \union Theirs]
    <3>1. skills' = [o \in Dirs |-> skills'[o]] /\ edits' \in [Dirs -> {NoText} \union Theirs]
      BY <1>b, <2>1 DEF SkillFiles
    <3>2. \A o \in Dirs : skills'[o] = [text |-> skills'[o].text, bak |-> skills'[o].bak]
      BY <1>a, <1>b, <2>2 DEF SkillFiles
    <3> QED
      BY <3>1, <3>2 DEF SkillFiles
  <2>4. SkillsTyped'
    BY <2>2, <2>3 DEF SkillsTyped
  <2>5. \A o \in Dirs : Ours(o)' = Ours(o)
    BY <2>1 DEF Ours
  <2>6. EditsSafe'
    BY <1>a, <2>1, <2>2, <2>5 DEF EditsSafe, Holding
  <2> QED
    BY <2>4, <2>6
<1> QED
  BY <1>0, <1>1, <1>2, <1>3, <1>4, <1>5, <1>6, <1>7, <1>8, <1>9, <1>10, <1>11, <1>12, <1>13, <1>14, <1>15 DEF Next

---------------------------------------------------------------------------
(* settings.json, byte for byte.                                           *)
LEMMA InitLines == Init => FilesTyped /\ LinesSafe
<1> SUFFICES ASSUME Init PROVE FilesTyped /\ LinesSafe
  OBVIOUS
<1>1. PICK l \in Lines \union {"none", "legacy"} : settings \in {NoFile, File(l, 1)}
  BY DEF Init
<1>2. l \notin Wrappers
  BY LineFacts
<1>3. settings \in Settings /\ (~settings.exists => settings = NoFile) /\ settings.valid = TRUE /\ ~Wrapped
  <2>1. CASE settings = NoFile
    BY <2>1, LineFacts DEF Settings, NoFile, Wrapped
  <2>2. CASE settings = File(l, 1)
    BY <1>2, <2>2 DEF Settings, File, Wrapped
  <2> QED
    BY <1>1, <2>1, <2>2
<1>4. mine = settings /\ home.backup = NoFile /\ home.manifest = NoManifest /\ cmd = NoCmd /\ ~ever.gone
  BY DEF Init
<1>5. NoFile \in Settings /\ ~NoFile.exists /\ ~NoManifest.exists /\ NoCmd.op = "none"
  BY DEF NoFile, Settings, NoManifest, NoCmd
<1>6. [settings EXCEPT !.valid = TRUE] = settings
  BY <1>3 DEF Settings
<1> QED
  BY <1>3, <1>4, <1>5, <1>6 DEF FilesTyped, LinesSafe, LineState, Clean

(* What does not touch the line, and goes on.                              *)
LEMMA QuietLines ==
  ASSUME FilesTyped, LinesSafe, UNCHANGED <<settings, mine>>,
         home'.saved = home.saved, home'.backup = home.backup,
         ~ever'.cut => ~ever.cut /\ (ever'.gone => ever.gone) /\ (~ever'.relined /\ ~ever'.recast => ~ever.relined /\ ~ever.recast /\ LineState')
  PROVE  FilesTyped' /\ LinesSafe'
BY DEF FilesTyped, LinesSafe, Wrapped

(* A command begins.                                                       *)
LEMMA BeginLines == Shape /\ IInv /\ FilesTyped /\ LinesSafe /\ (Install \/ Uninstall) => FilesTyped' /\ LinesSafe'
<1> SUFFICES ASSUME Shape, IInv, FilesTyped, LinesSafe, Install \/ Uninstall PROVE FilesTyped' /\ LinesSafe'
  OBVIOUS
<1>1. CASE Install
  <2>1. PICK v \in Versions :
          cmd' = [op |-> "install", pc |-> "binary", ver |-> v, old |-> home.manifest,
                  new |-> [NoManifest EXCEPT !.exists = TRUE, !.hash = home.manifest.hash,
                                             !.command = Command(v)]]
    BY <1>1 DEF Install
  <2>2. /\ UNCHANGED <<settings, home>> /\ ever' = [ever EXCEPT !.gone = FALSE] /\ Loads(settings)
        /\ mine' = (IF Wrapped THEN mine ELSE settings) /\ cmd.op = "none"
    BY <1>1 DEF Install
  <2>3. /\ cmd'.op = "install" /\ cmd'.pc = "binary" /\ cmd'.new.hash = home.manifest.hash
        /\ cmd'.old = home.manifest
        /\ ever'.cut = ever.cut /\ ever'.relined = ever.relined /\ ever'.recast = ever.recast /\ ~ever'.gone
    BY <2>1, <2>2 DEF NoManifest, Shape, Accounts
  <2>4. settings.valid = TRUE
    BY <2>2 DEF Loads, Parses, FilesTyped, NoFile, Settings
  <2>5. [settings EXCEPT !.valid = TRUE] = settings
    BY <2>4 DEF FilesTyped, Settings
  <2>6. FilesTyped'
    BY <2>2, <2>4 DEF FilesTyped
  <2>7. ASSUME ~ever.cut, ~ever.relined, ~ever.recast PROVE LineState'
    <3>0. LineState
      BY <2>7 DEF LinesSafe
    <3>1. CASE home.manifest.exists
      <4>1. Covered(home.manifest.hash)
        BY <2>2, <3>0, <3>1 DEF LineState
      <4>2. UNCHANGED <<settings, mine, home>>
        BY <2>2, <4>1 DEF Covered
      <4>3. Covered(cmd.new.hash)'
        BY <2>3, <4>1, <4>2 DEF Covered, Wrapped
      <4> QED
        BY <2>3, <4>3 DEF LineState
    <3>2. CASE ~home.manifest.exists
      <4>1. Clean /\ ~home.backup.exists
        BY <2>2, <3>0, <3>2 DEF LineState
      <4>2. Unwrapped'
        BY <2>2, <2>3, <2>5, <4>1 DEF Clean, Unwrapped, Wrapped
      <4> QED
        BY <2>3, <4>2 DEF LineState, Early
    <3> QED
      BY <3>1, <3>2
  <2> QED
    BY <2>3, <2>6, <2>7 DEF LinesSafe
<1>2. CASE Uninstall
  <2>1. /\ UNCHANGED <<settings, home, mine>> /\ home.manifest.exists /\ cmd.op = "none"
        /\ cmd'.op = "uninstall" /\ cmd'.pc = "line" /\ cmd'.old = home.manifest
        /\ ever'.cut = ever.cut /\ ever'.relined = ever.relined /\ ever'.recast = ever.recast
        /\ ever'.gone = ever.gone
    BY <1>2 DEF Uninstall, NoCmd, Shape, Accounts
  <2>2. LineState => Covered(cmd'.old.hash)
    BY <2>1 DEF LineState
  <2>3. LineState => LineState'
    BY <2>1, <2>2 DEF LineState, Covered, Wrapped
  <2> QED
    BY <2>1, <2>3, QuietLines DEF LinesSafe
<1> QED
  BY <1>1, <1>2

(* An install up to the wrapping, ...                                      *)
LEMMA InstallLines ==
  Shape /\ IInv /\ FilesTyped /\ LinesSafe /\ (InstallBinary \/ WriteSkills \/ InstallCodex \/ InstallHook \/ WriteManifest)
  => FilesTyped' /\ LinesSafe'
<1> SUFFICES ASSUME Shape, IInv, FilesTyped, LinesSafe,
                    InstallBinary \/ WriteSkills \/ InstallCodex \/ InstallHook \/ WriteManifest
             PROVE  FilesTyped' /\ LinesSafe'
  OBVIOUS
<1>1. CASE InstallBinary \/ WriteSkills \/ InstallCodex \/ InstallHook
  <2>1. /\ UNCHANGED <<settings, mine, ever>> /\ cmd.op = "install"
        /\ home'.saved = home.saved /\ home'.backup = home.backup
    BY <1>1 DEF InstallBinary, WriteSkills, InstallCodex, InstallHook, At, Shape
  <2>2. /\ cmd'.op = "install" /\ cmd'.new.hash = cmd.new.hash /\ cmd'.pc # "backup" /\ cmd'.pc # "write"
        /\ cmd'.old = cmd.old /\ cmd'.pc # "rewrap"
        /\ (cmd.pc \in Early <=> cmd'.pc \in Early)
        /\ cmd.pc # "write"
    <3>1. CASE InstallBinary
      BY <3>1 DEF InstallBinary, At, Goto, Shape, Early
    <3>2. CASE WriteSkills
      <4>1. \E x : cmd' = [cmd EXCEPT !.new.claude = x, !.pc = "codex"]
        BY <3>2 DEF WriteSkills
      <4> QED
        BY <3>2, <4>1 DEF WriteSkills, At, Shape, Manifest, Early
    <3>3. CASE InstallCodex
      <4>1. cmd.pc = "codex" /\ cmd.op = "install"
        BY <3>3 DEF InstallCodex, At
      <4>2. CASE cmd' = [cmd EXCEPT !.pc = "wrap"]
        BY <4>1, <4>2 DEF Shape, Early
      <4>3. CASE cmd' = [cmd EXCEPT !.new.shared = TRUE, !.pc = "wrap"]
        BY <4>1, <4>3 DEF Shape, Manifest, Early
      <4>4. CASE cmd' = [cmd EXCEPT !.new.codex = Text("codex", cmd.ver), !.pc = "wrap"]
        BY <4>1, <4>4 DEF Shape, Manifest, Early
      <4> QED
        BY <3>3, <4>2, <4>3, <4>4 DEF InstallCodex, Goto
    <3>4. CASE InstallHook
      <4>1. cmd.pc = "hook" /\ cmd.op = "install"
        BY <3>4 DEF InstallHook, At
      <4>2. CASE cmd' = [cmd EXCEPT !.pc = "manifest"]
        BY <4>1, <4>2 DEF Shape, Early
      <4>3. CASE cmd' = [cmd EXCEPT !.new.hooks = AddedHook(hooks, Group(cmd.ver), cmd.old.hooks).text, !.pc = "manifest"]
        <5> DEFINE x == AddedHook(hooks, Group(cmd.ver), cmd.old.hooks).text
        <5> HIDE DEF x
        <5>1. cmd' = [cmd EXCEPT !.new.hooks = x, !.pc = "manifest"]
          BY <4>3 DEF x
        <5> QED
          BY <4>1, <5>1 DEF Shape, Manifest, Early
      <4> QED
        BY <3>4, <4>2, <4>3 DEF InstallHook, Goto
    <3> QED
      BY <1>1, <3>1, <3>2, <3>3, <3>4
  <2>3. Covered(cmd.new.hash) => Covered(cmd.new.hash)'
    BY <2>1, <2>2 DEF Covered, Wrapped
  <2>4. Unwrapped => Unwrapped'
    BY <2>1, <2>2 DEF Unwrapped, Clean, Wrapped
  <2>5. LineState => LineState'
    BY <2>1, <2>2, <2>3, <2>4 DEF LineState
  <2> QED
    BY <2>1, <2>5, QuietLines DEF LinesSafe
<1>2. CASE WriteManifest
  <2>1. /\ UNCHANGED <<settings, mine>> /\ cmd.op = "install" /\ cmd.pc = "manifest"
        /\ home' = [home EXCEPT !.manifest = cmd.new] /\ cmd' = NoCmd /\ ever' = [ever EXCEPT !.gone = FALSE]
    BY <1>2 DEF WriteManifest, Ended, At
  <2>2. /\ home'.saved = home.saved /\ home'.backup = home.backup /\ home'.manifest = cmd.new /\ cmd.new.exists
        /\ cmd'.op = "none" /\ ever'.cut = ever.cut /\ ever'.relined = ever.relined /\ ~ever'.gone
        /\ ever'.recast = ever.recast
    BY <2>1 DEF Shape, NoCmd, Accounts
  <2>3. LineState => Covered(cmd.new.hash)
    BY <2>1 DEF LineState, Early
  <2>4. LineState => Covered(home.manifest.hash)'
    BY <2>1, <2>2, <2>3 DEF Covered, Wrapped
  <2>5. LineState => LineState'
    BY <2>2, <2>4 DEF LineState
  <2> QED
    BY <2>1, <2>2, <2>5, QuietLines DEF LinesSafe
<1> QED
  BY <1>1, <1>2

(* ... the wrapping, ...                                                   *)
LEMMA WrapLines ==
  Shape /\ IInv /\ FilesTyped /\ LinesSafe /\ (WrapAgain \/ RewrapLine \/ SaveLine \/ Backup \/ WrapLine)
  => FilesTyped' /\ LinesSafe'
<1> SUFFICES ASSUME Shape, IInv, FilesTyped, LinesSafe, WrapAgain \/ RewrapLine \/ SaveLine \/ Backup \/ WrapLine
             PROVE  FilesTyped' /\ LinesSafe'
  OBVIOUS
<1>1. CASE WrapAgain
  <2>1. home' = home
    BY <1>1 DEF WrapAgain, IInv, NeverLost, WrappedIsSaved
  <2>2. /\ UNCHANGED <<settings, mine, ever>> /\ Wrapped /\ cmd.op = "install" /\ cmd.pc = "wrap"
        /\ cmd' = [cmd EXCEPT !.new.hash = IF cmd.new.hash = NoFile THEN settings ELSE cmd.new.hash,
                              !.pc = IF settings.line = Command(cmd.ver) THEN "hook" ELSE "rewrap"]
    BY <1>1 DEF WrapAgain, At
  <2>3. LineState => Covered(cmd.new.hash)
    BY <2>2 DEF LineState, Unwrapped, Clean
  <2>4. Covered(cmd.new.hash) => cmd.new.hash # NoFile
    <3>1. ASSUME Covered(cmd.new.hash) PROVE cmd.new.hash.exists = TRUE
      <4> DEFINE h == cmd.new.hash
      <4>1. h = File(settings.line, h.rest)
        BY <3>1 DEF Covered
      <4> HIDE DEF h
      <4>2. h.exists = TRUE
        BY <4>1 DEF File
      <4> QED
        BY <4>2 DEF h
    <3>2. NoFile.exists = FALSE
      BY DEF NoFile
    <3> QED
      BY <3>1, <3>2
  <2>5. /\ cmd'.op = "install" /\ (cmd.new.hash # NoFile => cmd'.new.hash = cmd.new.hash)
        /\ cmd'.old = cmd.old
    BY <2>2 DEF Shape, Manifest
  <2>6. LineState => LineState'
    BY <2>1, <2>2, <2>3, <2>4, <2>5 DEF LineState, Covered, Wrapped, Early
  <2> QED
    BY <2>1, <2>2, <2>6, QuietLines DEF LinesSafe
<1>2. CASE SaveLine
  <2>1. /\ UNCHANGED <<settings, mine, ever>> /\ ~Wrapped /\ cmd.op = "install" /\ cmd.pc = "wrap"
        /\ home' = [home EXCEPT !.saved = [exists |-> TRUE, line |-> settings.line, created |-> ~settings.exists]]
        /\ cmd' = [cmd EXCEPT !.pc = "backup"]
    BY <1>2 DEF SaveLine, At, Goto
  <2>2. cmd'.op = "install" /\ cmd'.pc = "backup" /\ home'.backup = home.backup
        /\ cmd'.new = cmd.new /\ cmd'.old = cmd.old
        /\ home'.saved = [exists |-> TRUE, line |-> settings.line, created |-> ~settings.exists]
    BY <2>1 DEF Shape
  <2>3. home'.saved.line = settings.line /\ (home'.saved.created <=> ~settings.exists)
    <3> DEFINE c == ~settings.exists
    <3>1. home'.saved = [exists |-> TRUE, line |-> settings.line, created |-> c]
      BY <2>2
    <3> HIDE DEF c
    <3>2. home'.saved.line = settings.line /\ home'.saved.created = c
      BY <3>1
    <3> QED
      BY <3>2 DEF c
  <2>4. LineState => Unwrapped
    BY <2>1 DEF LineState, Covered
  <2>5. Unwrapped => Unwrapped'
    BY <2>1, <2>2, <2>3 DEF Unwrapped, Clean, Wrapped
  <2>6. LineState => LineState'
    BY <2>1, <2>2, <2>4, <2>5 DEF LineState, Early
  <2>7. FilesTyped'
    BY <2>1, <2>2 DEF FilesTyped
  <2> QED
    BY <2>1, <2>6, <2>7 DEF LinesSafe, Wrapped
<1>3. CASE Backup
  <2>1. /\ UNCHANGED <<settings, mine, ever>> /\ cmd.op = "install" /\ cmd.pc = "backup"
        /\ home' = IF settings.exists /\ ~home.backup.exists THEN [home EXCEPT !.backup = settings] ELSE home
        /\ cmd' = [cmd EXCEPT !.pc = "write"]
    BY <1>3 DEF Backup, At, Goto
  <2>2. /\ cmd'.op = "install" /\ cmd'.pc = "write" /\ home'.saved = home.saved
        /\ cmd'.new = cmd.new /\ cmd'.old = cmd.old
        /\ home'.backup = IF settings.exists /\ ~home.backup.exists THEN settings ELSE home.backup
    BY <2>1 DEF Shape
  <2>3. ~Wrapped
    BY <2>1 DEF IInv, Installing
  <2>4. LineState => Unwrapped
    BY <2>1, <2>3 DEF LineState, Covered
  <2>5. Unwrapped => Unwrapped'
    BY <2>1, <2>2 DEF Unwrapped, Clean, Wrapped
  <2>6. LineState => LineState'
    BY <2>1, <2>2, <2>4, <2>5 DEF LineState, Early
  <2>7. FilesTyped'
    BY <2>1, <2>2 DEF FilesTyped
  <2> QED
    BY <2>1, <2>3, <2>6, <2>7 DEF LinesSafe, Wrapped
<1>4. CASE WrapLine
  <2>1. /\ UNCHANGED <<home, mine, ever>> /\ settings' = File(Command(cmd.ver), settings.rest)
        /\ cmd' = [cmd EXCEPT !.new.hash = settings', !.pc = "hook"]
        /\ cmd.op = "install" /\ cmd.pc = "write"
    BY <1>4 DEF WrapLine, At, WriteSettings, WithLine
  <2>2. cmd'.op = "install" /\ cmd'.new.hash = settings' /\ cmd'.pc = "hook"
    BY <2>1 DEF Shape, Manifest
  <2>3. ~Wrapped /\ home.saved.line = mine.line
    BY <2>1 DEF IInv, Installing
  <2>4. LineState => Unwrapped
    BY <2>1, <2>3 DEF LineState, Covered
  <2>5. settings.rest \in Nat /\ settings'.rest = settings.rest /\ settings'.exists /\ settings'.line \in Wrappers
    BY <2>1, LineFacts DEF FilesTyped, Settings, File
  <2>6. Unwrapped => Covered(cmd.new.hash)'
    <3> SUFFICES ASSUME Unwrapped PROVE Covered(cmd.new.hash)'
      OBVIOUS
    <3>1. /\ settings = mine /\ home.saved.line = settings.line /\ (home.saved.created <=> ~settings.exists)
          /\ settings.exists => home.backup = settings
      BY <2>1 DEF Unwrapped
    <3>2. /\ settings'.line \in Wrappers /\ settings' = File(settings'.line, settings'.rest)
          /\ settings'.rest \in Nat
          /\ settings'.rest <= settings'.rest /\ settings'.exists /\ mine'.rest = settings'.rest
      BY <2>1, <2>5, <3>1 DEF File
    <3>3. CASE home.saved.created
      <4>1. mine = NoFile /\ home.saved.line = "none"
        BY <3>1, <3>3 DEF FilesTyped, NoFile
      <4> QED
        BY <2>1, <2>2, <3>2, <3>3, <4>1 DEF Covered, Wrapped
    <3>4. CASE ~home.saved.created
      <4>1. mine = File(home.saved.line, mine.rest)
        BY <3>1, <3>4 DEF FilesTyped, Settings, File
      <4>2. home.backup = File(home.saved.line, settings'.rest)
        BY <2>5, <3>1, <3>4, <4>1
      <4> QED
        BY <2>1, <2>2, <3>2, <3>4, <4>1, <4>2 DEF Covered, Wrapped
    <3> QED
      BY <3>3, <3>4
  <2>7. LineState => LineState'
    BY <2>2, <2>4, <2>6 DEF LineState, Early
  <2>8. FilesTyped'
    BY <2>1, LineFacts DEF FilesTyped, Settings, File
  <2>9. ever.gone => ever.cut
    BY <2>1 DEF Shape
  <2> QED
    BY <2>1, <2>7, <2>8, <2>9 DEF LinesSafe
<1>5. CASE RewrapLine
  <2>1. /\ UNCHANGED <<home, mine>> /\ settings' = File(Command(cmd.ver), settings.rest)
        /\ cmd' = [cmd EXCEPT !.new.hash = settings', !.pc = "hook"]
        /\ cmd.op = "install" /\ cmd.pc = "rewrap"
        /\ ever' = [ever EXCEPT !.recast = @ \/ settings # cmd.old.hash]
    BY <1>5 DEF RewrapLine, At, WriteSettings, WithLine
  <2>2. cmd'.op = "install" /\ cmd'.new.hash = settings' /\ cmd'.pc = "hook"
    BY <2>1 DEF Shape, Manifest
  <2>3. /\ ever'.cut = ever.cut /\ ever'.gone = ever.gone /\ ever'.relined = ever.relined
        /\ ~ever'.recast => ~ever.recast /\ settings = cmd.old.hash
    BY <2>1 DEF Shape, Accounts
  <2>4. /\ settings.rest \in Nat /\ settings'.rest = settings.rest /\ settings'.exists /\ settings'.line \in Wrappers
        /\ settings' = File(settings'.line, settings'.rest)
    BY <2>1, LineFacts DEF FilesTyped, Settings, File
  <2>5. LineState /\ settings = cmd.old.hash => Covered(cmd.new.hash)'
    <3> SUFFICES ASSUME LineState, settings = cmd.old.hash PROVE Covered(settings)'
      BY <2>2
    <3>1. Covered(settings)
      BY <2>1 DEF LineState, Early
    <3>2. mine.rest = settings.rest /\ ~(mine.rest > settings.rest)
      BY <2>4, <3>1 DEF Covered
    <3> QED
      BY <2>1, <2>4, <3>1, <3>2 DEF Covered, Wrapped
  <2>6. LineState /\ settings = cmd.old.hash => LineState'
    BY <2>2, <2>5 DEF LineState, Early
  <2>7. FilesTyped'
    BY <2>1, LineFacts DEF FilesTyped, Settings, File
  <2>8. ever.gone => ever.cut
    BY <2>1 DEF Shape
  <2> QED
    BY <2>3, <2>6, <2>7, <2>8 DEF LinesSafe
<1> QED
  BY <1>1, <1>2, <1>3, <1>4, <1>5

(* An uninstall gives back what the wrapper covers: the bytes while they   *)
(* are those that were hashed, the line alone once they are not.           *)
LEMMA Uncovered ==
  ASSUME FilesTyped, NEW m, Covered(m.hash)
  PROVE  Restored(m) = mine
<1> DEFINE h == m.hash
<1>1. /\ h = File(settings.line, h.rest) /\ h.rest \in Nat /\ h.rest <= settings.rest
      /\ mine.rest = settings.rest
  BY DEF Covered, Wrapped
<1>2. settings.rest \in Nat
  BY DEF FilesTyped, Settings
<1>3. CASE home.saved.created
  <2>1. home.saved.line = "none" /\ (mine = NoFile \/ (mine = File("none", mine.rest) /\ mine.rest > h.rest))
    BY <1>3 DEF Covered
  <2>2. CASE settings = h
    <3>1. mine = NoFile
      BY <1>1, <1>2, <2>1, <2>2
    <3> QED
      BY <1>3, <2>2, <3>1 DEF Restored
  <2>3. CASE settings # h
    <3>1. Restored(m) = IF Empty(WithoutLine(settings)) THEN NoFile ELSE WithoutLine(settings)
      BY <1>3, <2>1, <2>3 DEF Restored
    <3>2. Empty(WithoutLine(settings)) <=> settings.rest = 0
      BY DEF Empty, WithoutLine, File
    <3>3. mine = IF settings.rest = 0 THEN NoFile ELSE File("none", settings.rest)
      <4> HIDE DEF h
      <4>1. NoFile.rest = 0
        BY DEF NoFile
      <4> QED
        BY <1>1, <1>2, <2>1, <4>1
    <3> QED
      BY <3>1, <3>2, <3>3 DEF WithoutLine
  <2> QED
    BY <2>2, <2>3
<1>4. CASE ~home.saved.created
  <2>1. mine = File(home.saved.line, settings.rest) /\ home.backup = File(home.saved.line, h.rest)
    BY <1>1, <1>4 DEF Covered
  <2>2. CASE settings = h
    <3>1. home.backup.exists
      BY <2>1 DEF File
    <3> QED
      BY <1>4, <2>1, <2>2, <3>1 DEF Restored
  <2>3. CASE settings # h
    BY <1>4, <2>1, <2>3 DEF Restored, WithLine, WithoutLine
  <2> QED
    BY <2>2, <2>3
<1> QED
  BY <1>3, <1>4

(* So an uninstall gives back what is the user's.                          *)
LEMMA RestoreLines == Shape /\ IInv /\ IInv' /\ FilesTyped /\ LinesSafe /\ RestoreLine => FilesTyped' /\ LinesSafe'
<1> SUFFICES ASSUME Shape, IInv, IInv', FilesTyped, LinesSafe, RestoreLine PROVE FilesTyped' /\ LinesSafe'
  OBVIOUS
<1>1. /\ UNCHANGED <<home, mine, ever>> /\ cmd' = [cmd EXCEPT !.pc = "skills"] /\ cmd.op = "uninstall"
      /\ settings' = (IF Wrapped THEN Restored(cmd.old) ELSE settings) /\ cmd.pc = "line"
  BY KnownWrapper DEF RestoreLine, At, Goto, WriteSettings
<1>2. cmd'.op = "uninstall" /\ cmd'.pc = "skills"
  BY <1>1 DEF Shape
<1>3. settings' \in Settings /\ ~Wrapped'
  BY <1>2 DEF IInv, Typed, Uninstalling
<1>4. ~settings'.exists => settings' = NoFile
  <2>1. CASE settings' = NoFile \/ settings' = settings
    BY <2>1 DEF FilesTyped
  <2>2. CASE settings' = home.backup /\ home.backup.exists
    BY <2>2
  <2>3. CASE \E l : settings' = File(l, settings.rest)
    BY <2>3 DEF File
  <2> QED
    BY <1>1, <2>1, <2>2, <2>3 DEF Restored, WithLine, WithoutLine
<1>5. FilesTyped'
  BY <1>1, <1>3, <1>4 DEF FilesTyped
<1>6. LineState => settings' = mine
  <2>1. LineState => Covered(cmd.old.hash)
    BY <1>1 DEF LineState
  <2>2. Covered(cmd.old.hash) => Wrapped
    BY DEF Covered
  <2> QED
    BY <1>1, <2>1, <2>2, Uncovered
<1>7. LineState => Clean'
  <2>1. [mine EXCEPT !.valid = TRUE] = mine
    BY DEF FilesTyped, Settings
  <2> QED
    BY <1>1, <1>3, <1>6, <2>1 DEF Clean
<1>8. LineState => LineState'
  BY <1>2, <1>7 DEF LineState
<1> QED
  BY <1>1, <1>3, <1>5, <1>8 DEF LinesSafe

(* The rest of an uninstall takes what no wrapper needs.                   *)
LEMMA RemoveLines ==
  Shape /\ IInv /\ FilesTyped /\ LinesSafe /\ (RemoveSkills \/ UninstallHook \/ UninstallCodex \/ RemoveOwn \/ RemoveBinary)
  => FilesTyped' /\ LinesSafe'
<1> SUFFICES ASSUME Shape, IInv, FilesTyped, LinesSafe,
                    RemoveSkills \/ UninstallHook \/ UninstallCodex \/ RemoveOwn \/ RemoveBinary
             PROVE  FilesTyped' /\ LinesSafe'
  OBVIOUS
<1>0. UNCHANGED <<settings, mine>> /\ cmd.op = "uninstall" /\ cmd.pc # "line"
  BY DEF RemoveSkills, UninstallHook, UninstallCodex, RemoveOwn, RemoveBinary, At
<1>1. ~Wrapped /\ ~Wrapped' /\ (LineState => Clean /\ Clean')
  BY <1>0 DEF IInv, Uninstalling, LineState, Clean, Wrapped
<1>2. NoFile \in Settings /\ ~NoFile.exists
  BY DEF NoFile, Settings
<1>3. CASE RemoveSkills \/ UninstallHook \/ UninstallCodex
  <2>1. /\ home' = home /\ \E pc \in {"hook", "codex", "manifest"} : cmd' = [cmd EXCEPT !.pc = pc]
        /\ \E b \in BOOLEAN : ever' = [ever EXCEPT !.cut = ever.cut \/ b] \/ ever' = ever
    <3>1. CASE RemoveSkills \/ UninstallCodex
      BY <3>1 DEF RemoveSkills, UninstallCodex, Goto
    <3>2. CASE UninstallHook
      <4>1. (~hooks.valid) \in BOOLEAN
        OBVIOUS
      <4>2. ever' = [ever EXCEPT !.cut = ever.cut \/ ~hooks.valid] /\ home' = home /\ cmd' = [cmd EXCEPT !.pc = "codex"]
        BY <3>2 DEF UninstallHook, Goto
      <4> QED
        BY <4>1, <4>2
    <3> QED
      BY <1>3, <3>1, <3>2
  <2>2. cmd'.op = "uninstall" /\ cmd'.pc \in {"hook", "codex", "manifest"}
    BY <1>0, <2>1 DEF Shape
  <2>3. /\ ~ever'.cut => ~ever.cut
        /\ ever'.gone = ever.gone /\ ever'.relined = ever.relined /\ ever'.recast = ever.recast
    BY <2>1 DEF Shape, Accounts
  <2>4. LineState => LineState'
    BY <1>1, <2>2 DEF LineState
  <2>5. FilesTyped'
    BY <1>0, <2>1 DEF FilesTyped
  <2> QED
    BY <1>1, <2>3, <2>4, <2>5 DEF LinesSafe
<1>4. CASE RemoveOwn
  <2>1. /\ ever' = ever /\ \E pc \in {"saved", "backup", "binary"} : cmd' = [cmd EXCEPT !.pc = pc]
        /\ \/ home' = [home EXCEPT !.manifest = NoManifest] /\ cmd' = [cmd EXCEPT !.pc = "saved"]
           \/ home' = [home EXCEPT !.saved = NoSaved] /\ cmd' = [cmd EXCEPT !.pc = "backup"]
           \/ home' = [home EXCEPT !.backup = NoFile]
    BY <1>4 DEF RemoveOwn, Goto
  <2>2. /\ cmd'.op = "uninstall" /\ cmd'.pc \in {"saved", "backup", "binary"}
        /\ home'.backup \in {home.backup, NoFile} /\ (cmd'.pc = "binary" => home'.backup = NoFile)
    BY <1>0, <2>1 DEF Shape
  <2>3. LineState => LineState'
    BY <1>1, <1>2, <2>2 DEF LineState
  <2>4. FilesTyped'
    BY <1>0, <1>2, <2>2 DEF FilesTyped
  <2> QED
    BY <1>1, <2>1, <2>3, <2>4 DEF LinesSafe
<1>5. CASE RemoveBinary
  <2>1. /\ cmd.pc = "binary" /\ home' = [home EXCEPT !.binary = 0] /\ cmd' = NoCmd /\ ever' = [ever EXCEPT !.gone = TRUE]
    BY <1>5 DEF RemoveBinary, At, Ended
  <2>2. /\ cmd'.op = "none" /\ home'.backup = home.backup /\ home'.manifest = NoManifest /\ ~NoManifest.exists
        /\ ever'.cut = ever.cut /\ ever'.relined = ever.relined /\ ever'.recast = ever.recast
    BY <1>0, <2>1 DEF Shape, NoCmd, NoManifestLeft, NoManifest, Accounts
  <2>3. LineState => ~home.backup.exists
    BY <1>0, <2>1 DEF LineState
  <2>4. LineState => LineState'
    BY <1>1, <2>2, <2>3 DEF LineState
  <2>5. FilesTyped'
    BY <1>0, <2>2 DEF FilesTyped
  <2> QED
    BY <1>1, <2>2, <2>4, <2>5 DEF LinesSafe
<1> QED
  BY <1>3, <1>4, <1>5

(* What the user does to settings.json between two commands.               *)
LEMMA UserLines ==
  Shape /\ FilesTyped /\ LinesSafe /\ (EditSettings \/ BreakSettings \/ SetLine)
  => FilesTyped' /\ LinesSafe'
<1> SUFFICES ASSUME Shape, FilesTyped, LinesSafe, EditSettings \/ BreakSettings \/ SetLine
             PROVE  FilesTyped' /\ LinesSafe'
  OBVIOUS
<1>0. UNCHANGED <<home, cmd>> /\ cmd.op = "none"
  BY DEF EditSettings, BreakSettings, SetLine, Acting
<1>1. CASE EditSettings
  <2>1. settings' = File(settings.line, settings.rest + 1) /\ mine' = File(mine.line, mine.rest + 1) /\ ever' = ever
    BY <1>1 DEF EditSettings
  <2>2. /\ settings'.line = settings.line /\ settings'.rest = settings.rest + 1 /\ settings'.exists
        /\ mine'.line = mine.line /\ mine'.rest = mine.rest + 1 /\ settings.rest \in Nat /\ mine.rest \in Nat
    BY <2>1 DEF File, FilesTyped, Settings
  <2>3. FilesTyped'
    BY <1>0, <2>1 DEF FilesTyped, File, Settings
  <2>4. ASSUME NEW h, Covered(h) PROVE Covered(h)'
    <3>1. /\ Wrapped' /\ h = File(settings.line, h.rest) /\ h.rest \in Nat /\ h.rest <= settings.rest + 1
          /\ h.rest < mine.rest + 1 /\ mine.rest = settings.rest
      BY <2>2, <2>4 DEF Covered, Wrapped
    <3>2. CASE home.saved.created
      <4>1. home.saved.line = "none" /\ mine.line = "none"
        BY <2>4, <3>2 DEF Covered, NoFile, File
      <4> QED
        BY <1>0, <2>1, <2>2, <3>1, <3>2, <4>1 DEF Covered
    <3>3. CASE ~home.saved.created
      <4>1. mine = File(home.saved.line, mine.rest) /\ home.backup = File(home.saved.line, h.rest)
        BY <2>4, <3>3 DEF Covered
      <4>2. mine.line = home.saved.line
        <5> DEFINE f == File(home.saved.line, mine.rest)
        <5>1. f.line = home.saved.line
          BY DEF File
        <5> HIDE DEF f
        <5> QED
          BY <4>1, <5>1 DEF f
      <4> QED
        BY <1>0, <2>1, <2>2, <3>1, <3>3, <4>1, <4>2 DEF Covered
    <3> QED
      BY <3>2, <3>3
  <2>5. Clean => Clean'
    <3>1. Clean => settings.line = mine.line /\ settings.rest = mine.rest
      BY DEF Clean, FilesTyped, Settings
    <3>2. settings'.valid = TRUE
      BY <2>1 DEF File
    <3>3. [settings' EXCEPT !.valid = TRUE] = settings'
      BY <2>3, <3>2 DEF FilesTyped, Settings
    <3> QED
      BY <2>1, <2>2, <3>1, <3>3 DEF Clean, Wrapped
  <2>6. LineState => LineState'
    BY <1>0, <2>4, <2>5 DEF LineState
  <2> QED
    BY <2>1, <2>2, <2>3, <2>6 DEF LinesSafe, Wrapped
<1>2. CASE BreakSettings
  <2>1. settings' = [settings EXCEPT !.valid = ~settings.valid] /\ settings.exists /\ mine' = mine /\ ever' = ever
    BY <1>2 DEF BreakSettings
  <2>2. /\ settings' \in Settings /\ settings'.line = settings.line /\ settings'.rest = settings.rest /\ settings'.exists
        /\ [settings' EXCEPT !.valid = TRUE] = [settings EXCEPT !.valid = TRUE]
    <3> DEFINE b == ~settings.valid
    <3>1. b \in BOOLEAN /\ settings' = [settings EXCEPT !.valid = b]
      BY <2>1
    <3> HIDE DEF b
    <3> QED
      BY <2>1, <3>1 DEF FilesTyped, Settings
  <2>3. FilesTyped'
    BY <1>0, <2>1, <2>2 DEF FilesTyped
  <2>4. \A h : Covered(h) => Covered(h)'
    BY <1>0, <2>1, <2>2 DEF Covered, Wrapped
  <2>5. Clean => Clean'
    BY <2>1, <2>2 DEF Clean, Wrapped
  <2>6. LineState => LineState'
    BY <1>0, <2>4, <2>5 DEF LineState
  <2> QED
    BY <2>1, <2>2, <2>3, <2>6 DEF LinesSafe, Wrapped
<1>3. CASE SetLine
  <2>1. PICK l \in Lines : settings' = File(l, settings.rest) /\ mine' = File(l, mine.rest)
    BY <1>3 DEF SetLine
  <2>2. ever' = [ever EXCEPT !.relined = TRUE]
    BY <1>3 DEF SetLine
  <2>3. ever'.relined /\ (~ever'.cut => ~ever.cut)
    BY <2>2 DEF Shape, Accounts
  <2>4. ~Wrapped' /\ FilesTyped'
    BY <1>0, <2>1, LineFacts DEF FilesTyped, File, Settings, Wrapped
  <2> QED
    BY <2>3, <2>4 DEF LinesSafe
<1> QED
  BY <1>1, <1>2, <1>3

(* Every step keeps settings.json as it should be, ...                     *)
LEMMA NextLines ==
  Shape /\ IInv /\ IInv' /\ FilesTyped /\ LinesSafe /\ ~ever'.cut /\ [Next]_vars => FilesTyped' /\ LinesSafe'
<1> SUFFICES ASSUME Shape, IInv, IInv', FilesTyped, LinesSafe, ~ever'.cut, [Next]_vars PROVE FilesTyped' /\ LinesSafe'
  OBVIOUS
<1>1. CASE UNCHANGED vars
  <2>1. LineState => LineState'
    BY <1>1 DEF vars, LineState, Covered, Clean, Unwrapped, Wrapped
  <2> QED
    BY <1>1, <2>1, QuietLines DEF vars, LinesSafe
<1>2. ~(HookFails \/ Crash \/ BackupTorn)
  BY DEF HookFails, Crash, BackupTorn, Shape, Accounts
<1>3. CASE EditSkill \/ EditHooks \/ ToggleCodex \/ ToggleLink
  <2>1. UNCHANGED <<settings, mine, home, cmd, ever>>
    BY <1>3 DEF EditSkill, EditHooks, ToggleCodex, ToggleLink, Acting
  <2>2. LineState => LineState'
    BY <2>1 DEF LineState, Covered, Clean, Unwrapped, Wrapped
  <2> QED
    BY <2>1, <2>2, QuietLines DEF LinesSafe
<1> QED
  BY <1>1, <1>2, <1>3, BeginLines, InstallLines, WrapLines, RestoreLines, RemoveLines, UserLines DEF Next

(* ... with a wrapper csquad knows of: so nothing is lost.                 *)
LEMMA NextNamed ==
  Shape /\ ~ever.lost /\ IInv /\ Named /\ ~ever'.cut /\ [Next]_vars => Named' /\ ~ever'.lost
<1> SUFFICES ASSUME Shape, ~ever.lost, IInv, Named, ~ever'.cut, [Next]_vars PROVE Named' /\ ~ever'.lost
  OBVIOUS
<1> USE DEF Named
<1>1. ~(HookFails \/ Crash \/ BackupTorn)
  BY DEF HookFails, Crash, BackupTorn, Shape, Accounts
<1>2. CASE Install
  <2>1. /\ UNCHANGED <<settings, home>> /\ cmd.op = "none" /\ cmd'.op = "install" /\ cmd'.pc = "binary"
        /\ cmd'.old = home.manifest /\ ever'.lost = ever.lost
    BY <1>2 DEF Install, Shape, Accounts
  <2> QED
    BY <2>1 DEF Wrapped
<1>3. CASE Uninstall
  <2>1. cmd.op = "none" /\ cmd'.op = "uninstall"
    BY <1>3 DEF Uninstall, NoCmd
  <2>2. ever' = [ever EXCEPT !.lost = @ \/ (Wrapped /\ settings.line # home.manifest.command)]
    BY <1>3 DEF Uninstall
  <2>3. ~(Wrapped /\ settings.line # home.manifest.command)
    BY <2>1
  <2>4. ~ever'.lost
    BY <2>2, <2>3 DEF Shape, Accounts
  <2> QED
    BY <2>1, <2>4
<1>4. CASE InstallBinary \/ WriteSkills \/ InstallCodex \/ SaveLine \/ Backup
  <2>1. UNCHANGED <<settings, ever>> /\ cmd.op = "install" /\ cmd.pc \notin {"hook", "manifest"}
    BY <1>4 DEF InstallBinary, WriteSkills, InstallCodex, SaveLine, Backup, At
  <2>2. cmd'.op = "install" /\ cmd'.pc \notin {"hook", "manifest"} /\ cmd'.old = cmd.old
    <3>1. CASE WriteSkills
      <4>1. \E x : cmd' = [cmd EXCEPT !.new.claude = x, !.pc = "codex"]
        BY <3>1 DEF WriteSkills
      <4> QED
        BY <2>1, <4>1 DEF Shape
    <3>2. CASE InstallBinary \/ InstallCodex \/ SaveLine \/ Backup
      BY <2>1, <3>2 DEF InstallBinary, InstallCodex, SaveLine, Backup, Goto, Shape
    <3> QED
      BY <1>4, <3>1, <3>2
  <2> QED
    BY <2>1, <2>2 DEF Wrapped
<1>5. CASE WrapAgain
  <2>1. /\ UNCHANGED <<settings, ever>> /\ cmd.op = "install" /\ cmd.pc = "wrap" /\ cmd'.op = "install"
        /\ cmd'.pc = (IF settings.line = Command(cmd.ver) THEN "hook" ELSE "rewrap")
        /\ cmd'.ver = cmd.ver /\ cmd'.old = cmd.old
    BY <1>5 DEF WrapAgain, At, Shape
  <2> QED
    BY <2>1 DEF Wrapped
<1>6. CASE RewrapLine \/ WrapLine
  <2>1. /\ settings' = File(Command(cmd.ver), settings.rest) /\ cmd'.op = "install" /\ cmd'.pc = "hook"
        /\ cmd'.ver = cmd.ver /\ ever'.lost = ever.lost
    BY <1>6 DEF RewrapLine, WrapLine, At, WriteSettings, WithLine, Shape, Accounts
  <2> QED
    BY <2>1 DEF File
<1>7. CASE InstallHook
  <2>1. UNCHANGED <<settings, ever>> /\ cmd.op = "install" /\ cmd.pc = "hook"
    BY <1>7 DEF InstallHook, At
  <2>2. cmd'.op = "install" /\ cmd'.pc = "manifest" /\ cmd'.ver = cmd.ver
    <3>1. cmd' = [cmd EXCEPT !.pc = "manifest"] \/ \E x : cmd' = [cmd EXCEPT !.new.hooks = x, !.pc = "manifest"]
      BY <1>7 DEF InstallHook, Goto
    <3> QED
      BY <2>1, <3>1 DEF Shape
  <2> QED
    BY <2>1, <2>2 DEF Wrapped
<1>8. CASE WriteManifest
  <2>1. /\ UNCHANGED settings /\ cmd.op = "install" /\ cmd.pc = "manifest" /\ cmd' = NoCmd
        /\ home' = [home EXCEPT !.manifest = cmd.new] /\ ever' = [ever EXCEPT !.gone = FALSE]
    BY <1>8 DEF WriteManifest, At, Ended
  <2>2. home'.manifest = cmd.new /\ cmd'.op = "none" /\ ever'.lost = ever.lost
    BY <2>1 DEF Shape, NoCmd, Accounts
  <2>3. cmd.new.exists /\ cmd.new.command = Command(cmd.ver)
    BY <2>1 DEF Shape
  <2> QED
    BY <2>1, <2>2, <2>3 DEF Wrapped
<1>9. CASE RestoreLine \/ RemoveSkills \/ UninstallHook \/ UninstallCodex \/ RemoveOwn
  <2>1. cmd'.op = "uninstall" /\ (ever' = ever \/ \E b : ever' = [ever EXCEPT !.cut = b])
    BY <1>9 DEF RestoreLine, RemoveSkills, UninstallHook, UninstallCodex, RemoveOwn, At, Goto, Shape
  <2> QED
    BY <2>1 DEF Shape, Accounts
<1>10. CASE RemoveBinary
  <2>1. /\ UNCHANGED settings /\ cmd.op = "uninstall" /\ cmd.pc = "binary" /\ cmd' = NoCmd
        /\ ever' = [ever EXCEPT !.gone = TRUE]
    BY <1>10 DEF RemoveBinary, At, Ended
  <2>2. ~Wrapped'
    BY <2>1 DEF IInv, Uninstalling, Wrapped
  <2> QED
    BY <2>1, <2>2 DEF Shape, Accounts
<1>11. CASE SetLine
  <2>1. (\E l \in Lines : settings' = File(l, settings.rest)) /\ ever' = [ever EXCEPT !.relined = TRUE]
    BY <1>11 DEF SetLine
  <2> QED
    BY <2>1, LineFacts DEF File, Wrapped, Shape, Accounts
<1>12. CASE EditSettings \/ BreakSettings \/ EditSkill \/ EditHooks \/ ToggleCodex \/ ToggleLink \/ UNCHANGED vars
  <2>1. UNCHANGED <<home, cmd, ever>>
    BY <1>12 DEF EditSettings, BreakSettings, EditSkill, EditHooks, ToggleCodex, ToggleLink, Acting, vars
  <2>2. settings'.line = settings.line
    BY <1>12
       DEF EditSettings, BreakSettings, EditSkill, EditHooks, ToggleCodex, ToggleLink, vars, File, IInv, Typed, Settings
  <2> QED
    BY <2>1, <2>2 DEF Wrapped
<1> QED
  BY <1>1, <1>2, <1>3, <1>4, <1>5, <1>6, <1>7, <1>8, <1>9, <1>10, <1>11, <1>12 DEF Next

---------------------------------------------------------------------------
(* All that an uninstall needs to give back what it found.                 *)
KeptSafe == Shape /\ SkillsTyped /\ EditsSafe /\ HooksSafe /\ (~ever.cut => Whole)

(* The parts hold together: each is kept with the help of those before.    *)
THEOREM FilesAreSafe == Spec => []KeptSafe
<1>1. Init => KeptSafe
  <2>1. ASSUME Init PROVE Named /\ ~ever.lost
    <3>1. PICK l \in Lines \union {"none", "legacy"} : settings \in {NoFile, File(l, 1)}
      BY <2>1 DEF Init
    <3>2. settings.line \in {"none", l}
      BY <3>1 DEF NoFile, File
    <3>3. cmd.op = "none" /\ ~ever.lost
      BY <2>1 DEF Init, NoCmd
    <3> QED
      BY <3>2, <3>3, LineFacts DEF Named, Wrapped
  <2> QED
    BY <2>1, InitIInv, InitShape, InitSkills, InitHooks, InitLines DEF KeptSafe, Whole
<1>2. KeptSafe /\ [Next]_vars => KeptSafe'
  <2> SUFFICES ASSUME KeptSafe, [Next]_vars PROVE KeptSafe'
    OBVIOUS
  <2>1. Shape'
    BY NextShape DEF KeptSafe
  <2>2. SkillsTyped' /\ EditsSafe'
    BY <2>1, NextSkills DEF KeptSafe
  <2>3. HooksSafe'
    BY <2>1, NextHooks DEF KeptSafe
  <2>4. ASSUME ~ever'.cut PROVE Whole'
    <3>1. Shape /\ Whole
      BY <2>4, NextAccounts DEF KeptSafe, Shape
    <3>2. Named' /\ ~ever'.lost
      BY <2>4, <3>1, NextNamed DEF Whole
    <3>3. IInv'
      BY <3>1, <3>2, NextIInv DEF Whole
    <3>4. FilesTyped' /\ LinesSafe'
      BY <2>4, <3>1, <3>3, NextLines DEF Whole
    <3> QED
      BY <3>2, <3>3, <3>4 DEF Whole
  <2> QED
    BY <2>1, <2>2, <2>3, <2>4 DEF KeptSafe
<1> QED
  BY <1>1, <1>2, PTL DEF Spec

(* The user's last edit of a skill is in the file or beside it as .bak,    *)
(* unless a command was cut short (writeManaged, removeFrom).              *)
THEOREM EditsAreKept == Spec => []EditKept
<1>1. KeptSafe => EditKept
  BY DEF KeptSafe, EditsSafe, EditKept, Holding
<1> QED
  BY <1>1, FilesAreSafe, PTL

(* No command adds, removes or reorders the user's groups in hooks.json    *)
(* (addCodexHook, removeCodexHook).                                        *)
THEOREM UsersGroupsStay == Spec => UserGroupsKept
<1>1. KeptSafe /\ [Next]_vars => [cmd.op # "none" => UserGroups(hooks') = UserGroups(hooks)]_vars
  BY NextUserGroups DEF KeptSafe
<1> QED
  BY <1>1, FilesAreSafe, PTL DEF Spec, UserGroupsKept

(* Where no command was cut short so far, an uninstall gives back what it  *)
(* found, byte for byte where the user left the bytes alone, but for edits *)
(* that an update with another wrapper command took for csquad's own, and  *)
(* leaves nothing of csquad's (restoreStatusLine, removeFrom,              *)
(* removeCodexHook).                                                       *)
THEOREM AllIsGivenBack == Spec => []GivenBack
<1>1. KeptSafe => GivenBack
  <2> SUFFICES ASSUME KeptSafe, ever.gone, ~ever.cut PROVE GivenBack
    BY DEF GivenBack
  <2>1. cmd.op = "none" /\ home.manifest = NoManifest
    BY DEF KeptSafe, Shape
  <2>2. ~Wrapped /\ (~ever.relined /\ ~ever.recast => [settings EXCEPT !.valid = TRUE] = mine)
    BY <2>1 DEF KeptSafe, Whole, LinesSafe, LineState, Clean, NoManifest
  <2>3. \A d \in Dirs : Ours(d) = NoText
    BY <2>1 DEF Ours, Dirs, NoManifest
  <2>4. \A d \in Dirs : skills[d].text \in {NoText} \union ({"user"} \X Nat)
    BY <2>3 DEF KeptSafe, SkillsTyped, EditsSafe, Holding, Theirs
  <2>5. \A k \in DOMAIN hooks.groups : ~Marked(hooks.groups[k])
    BY DEF KeptSafe, HooksSafe, HookGone, NoneMarked
  <2> QED
    BY <2>2, <2>4, <2>5 DEF GivenBack
<1> QED
  BY <1>1, FilesAreSafe, PTL
=============================================================================
