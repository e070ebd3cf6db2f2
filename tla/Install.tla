------------------------------ MODULE Install -------------------------------
(***************************************************************************)
(* install, update and uninstall: what csquad writes into files that are   *)
(* the user's too.  settings.json holds the status line, which csquad      *)
(* wraps and gives back; hooks.json of Codex gets one Stop group; the      *)
(* skills are files csquad owns and the user edits; statusline.json,       *)
(* settings.json.bak and manifest.json below $CSQUAD_HOME remember what    *)
(* was there and what was written.                                         *)
(*                                                                         *)
(* One command runs at a time, step by step, and may be killed between two *)
(* steps or fail at an unreadable hooks.json; one that cannot read         *)
(* settings.json does not begin.  The user edits between two commands.  A  *)
(* settings file is its status line and the rest of it, which stands for   *)
(* every other byte; a text that was hashed is kept itself.                *)
(***************************************************************************)
EXTENDS Naturals, Sequences, FiniteSets, SequencesExt

CONSTANTS
  Versions,  \* csquad versions, installed in this order
  Shipping,  \* the versions that ship the skill file looked at
  Earlier,   \* the versions whose wrapper has another command than the rest
  Lines,     \* status lines of the user's
  Hooks,     \* the Stop groups hooks.json may start with
  Commands,  \* bound: how many commands run
  Acts,      \* bound: how much the user does
  Crashes    \* bound: how many commands are killed

ASSUME VersionsAssumption == Versions \subseteq Nat \ {0} /\ Shipping \subseteq Versions /\ Earlier \subseteq Versions
ASSUME LinesAssumption == Lines \intersect {"none", "earlier", "ours", "legacy"} = {}
ASSUME HooksAssumption == Hooks \subseteq Seq({"user"} \X Nat)
ASSUME BoundsAssumption == Commands \in Nat /\ Acts \in Nat /\ Crashes \in Nat

VARIABLES
  settings, \* settings.json
  hooks,    \* Codex's hooks.json
  skills,   \* the skill file in each skills directory, and its .bak
  home,     \* what csquad keeps: manifest, saved line, backup, the binary
  env,      \* whether $CODEX_HOME exists, and whether its skills directory
            \* is a link to Claude's
  cmd,      \* the command that runs
  mine,     \* settings.json as the user would have it without csquad (it
            \* and edits are kept for the properties)
  edits,    \* the user's last edit of the skill in each directory
  left,     \* what is left of the bounds
  ever      \* relined: the user ever changed the status line; cut: a command
            \* ever stopped half way or could not read hooks.json; gone: the
            \* last one that ended was an uninstall; recast, lost: see
            \* RewrapLine, BackupTorn and Uninstall

vars == <<settings, hooks, skills, home, env, cmd, mine, edits, left, ever>>

---------------------------------------------------------------------------
(* The files.                                                              *)

NoFile == [exists |-> FALSE, valid |-> TRUE, line |-> "none", rest |-> 0]
File(line, rest) == [exists |-> TRUE, valid |-> TRUE, line |-> line, rest |-> rest]
Empty(f) == f.line = "none" /\ f.rest = 0

(* The wrapper's command names the binary as the version does.             *)
Wrappers == {"earlier", "ours"}
Command(v) == IF v \in Earlier THEN "earlier" ELSE "ours"

(* parseDocument takes one JSON object and nothing else; loadDocument takes *)
(* a missing file too; legacy refuses the status line of csquad 1.x.       *)
Parses(f) == f.valid
Loads(f) == f.exists => Parses(f)
Legacy(f) == f.line = "legacy"

(* set and remove: the member of the status line alone; every other byte   *)
(* stays.                                                                  *)
WithLine(f, l) == File(l, f.rest)
WithoutLine(f) == File("none", f.rest)

(* writeAtomic: a kill leaves the file before or the file after.  What is  *)
(* written in place, as the backup is, a kill leaves empty or in part.     *)
WriteSettings(f) == settings' = f
Torn == [exists |-> TRUE, valid |-> FALSE, line |-> "none", rest |-> 0]

NoText == <<"no", 0>>
Text(host, v) == IF v \in Shipping THEN <<host, v>> ELSE NoText
Edit(n) == <<"user", n>>

Group(v) == <<"csquad", v>>
Marked(g) == g[1] = "csquad"
Theirs == {"user"} \X Nat

(* What install inserted into hooks.json: the whole file, the group as the *)
(* first of an empty list, or a comma and the group.                       *)
NoInsert == [as |-> "none", group |-> Group(0)]
NoHooks == [exists |-> FALSE, valid |-> TRUE, created |-> FALSE, groups |-> << >>]

NoSaved == [exists |-> FALSE, line |-> "none", created |-> FALSE]
NoManifest == [exists |-> FALSE, hash |-> NoFile, command |-> "none", claude |-> NoText, codex |-> NoText,
               shared |-> FALSE, hooks |-> NoInsert]
NoCmd == [op |-> "none", pc |-> "idle", ver |-> 0, old |-> NoManifest, new |-> NoManifest]

Dirs == {"claude", "agents"}
Place(d) == IF env.linked THEN "claude" ELSE d

Init ==
  /\ \E l \in Lines \union {"none", "legacy"} : settings \in {NoFile, File(l, 1)}
  /\ hooks \in {[NoHooks EXCEPT !.exists = TRUE, !.groups = g] : g \in Hooks} \union {NoHooks}
  /\ skills = [d \in Dirs |-> [text |-> NoText, bak |-> NoText]]
  /\ home = [manifest |-> NoManifest, saved |-> NoSaved, backup |-> NoFile, binary |-> 0]
  /\ env \in [codex : BOOLEAN, linked : {FALSE}]
  /\ hooks.exists => env.codex
  /\ cmd = NoCmd
  /\ mine = settings
  /\ edits = [d \in Dirs |-> NoText]
  /\ left = [commands |-> Commands, acts |-> Acts, crashes |-> Crashes]
  /\ ever = [relined |-> FALSE, cut |-> FALSE, gone |-> FALSE, recast |-> FALSE, lost |-> FALSE]

---------------------------------------------------------------------------
(* Managed files.                                                          *)

(* Mutant: the user's edit is written over.                                *)
Replaced_Over(f, t, known) == [f EXCEPT !.text = t]

(* A file that holds none of the texts csquad wrote is the user's edit: it *)
(* is kept as .bak before it is replaced by t (NoText: removed).           *)
Replaced(f, t, known) ==
  IF f.text \in known \union {NoText, t} THEN [f EXCEPT !.text = t] ELSE [text |-> t, bak |-> f.text]

Known(m) == {m.claude, m.codex} \ {NoText}
CodexCopy(m) == IF m.shared THEN m.claude ELSE m.codex

(* writeManaged: the file this version ships, else the old one goes.       *)
WriteManaged(d, t, old, known) ==
  IF t # NoText \/ old # NoText
  THEN skills' = [skills EXCEPT ![d] = Replaced(@, t, known)]
  ELSE UNCHANGED skills

(* removeCodex leaves what is also Claude's file.                          *)
RemoveCodex(old, known) ==
  IF old # NoText /\ ~env.linked
  THEN skills' = [skills EXCEPT !["agents"] = Replaced(@, NoText, known)]
  ELSE UNCHANGED skills

---------------------------------------------------------------------------
(* Codex's hooks.json.                                                     *)

(* The file still holds the text that was inserted.                        *)
Holds(h, i) ==
  \/ i.as = "file" /\ h.created /\ h.groups = <<i.group>>
  \/ i.as = "first" /\ i.group \in Range(h.groups)
  \/ i.as = "after" /\ \E k \in 2..Len(h.groups) : h.groups[k] = i.group

(* addCodexHook: the group is added last, or replaced where it is; prev is *)
(* the text inserted before.  A member hooks or Stop that is not there is  *)
(* inserted with it, as the first of an empty list is.                     *)
AddedHook(h, g, prev) ==
  IF ~h.exists
  THEN [file |-> [NoHooks EXCEPT !.exists = TRUE, !.created = TRUE, !.groups = <<g>>],
        text |-> [as |-> "file", group |-> g]]
  ELSE IF \E k \in DOMAIN h.groups : Marked(h.groups[k])
  THEN LET at == CHOOSE k \in DOMAIN h.groups :
                   Marked(h.groups[k]) /\ \A j \in 1..(k - 1) : ~Marked(h.groups[j])
           held == Holds(h, prev) /\ prev.group = h.groups[at]
       IN [file |-> [h EXCEPT !.groups[at] = g],
           text |-> IF held THEN [prev EXCEPT !.group = g] ELSE NoInsert]
  ELSE [file |-> [h EXCEPT !.groups = Append(@, g), !.created = FALSE],
        text |-> [as |-> IF h.groups = << >> THEN "first" ELSE "after", group |-> g]]

(* The groups of s that are in T, in their order.                          *)
Kept(s, T) ==
  LET kept[n \in 0..Len(s)] ==
        IF n = 0 THEN << >> ELSE IF s[n] \in T THEN Append(kept[n - 1], s[n]) ELSE kept[n - 1]
  IN kept[Len(s)]

Without(s, i) == Kept(s, Range(s) \ {i.group})

(* Mutant: a file csquad created is removed, whatever it holds now.        *)
RemovedHook_File(h, i) == IF i.as = "file" THEN NoHooks ELSE [h EXCEPT !.groups = Without(@, i)]

(* removeCodexHook: the text inserted goes as it is, and with it a comma   *)
(* only when one was inserted; else every marked group and its separator.  *)
RemovedHook(h, i) ==
  CASE i.as = "file" /\ Holds(h, i) -> NoHooks
    [] i.as = "first" /\ Holds(h, i) ->
         [h EXCEPT !.groups = Without(@, i), !.valid = h.valid /\ Len(h.groups) = 1]
    [] i.as = "after" /\ Holds(h, i) -> [h EXCEPT !.groups = Without(@, i)]
    [] OTHER -> IF h.valid THEN [h EXCEPT !.groups = Kept(@, Theirs),
                                          !.created = @ /\ ~\E k \in DOMAIN h.groups : Marked(h.groups[k])]
                ELSE h

---------------------------------------------------------------------------
(* install and update.                                                     *)

At(op, pc) == cmd.op = op /\ cmd.pc = pc
Goto(pc) == cmd' = [cmd EXCEPT !.pc = pc]

Wrapped == settings.line \in Wrappers

Ended(gone) == cmd' = NoCmd /\ ever' = [ever EXCEPT !.gone = gone]

(* A newer csquad is installed, or the same again.  A line that stands in  *)
(* settings.json now is the user's, however it came there.                 *)
Install ==
  /\ cmd.op = "none" /\ left.commands > 0
  /\ Loads(settings) /\ ~Legacy(settings)
  /\ left' = [left EXCEPT !.commands = @ - 1]
  /\ \E v \in Versions :
       /\ v >= home.binary
       /\ cmd' = [op |-> "install", pc |-> "binary", ver |-> v, old |-> home.manifest,
                  new |-> [NoManifest EXCEPT !.exists = TRUE, !.hash = home.manifest.hash,
                                             !.command = Command(v)]]
  /\ ever' = [ever EXCEPT !.gone = FALSE]
  /\ mine' = IF Wrapped THEN mine ELSE settings
  /\ UNCHANGED <<settings, hooks, skills, home, env, edits>>

InstallBinary ==
  /\ At("install", "binary")
  /\ home' = [home EXCEPT !.binary = cmd.ver]
  /\ Goto("skills")
  /\ UNCHANGED <<settings, hooks, skills, env, mine, edits, left, ever>>

(* One directory read by both hosts gets one text for both.                *)
Shared == env.codex /\ env.linked

WriteSkills ==
  /\ At("install", "skills")
  /\ LET t == Text(IF Shared THEN "shared" ELSE "claude", cmd.ver) IN
       /\ WriteManaged("claude", t, cmd.old.claude, Known(cmd.old))
       /\ cmd' = [cmd EXCEPT !.new.claude = t, !.pc = "codex"]
  /\ UNCHANGED <<settings, hooks, home, env, mine, edits, left, ever>>

InstallCodex ==
  /\ At("install", "codex")
  /\ \/ /\ ~env.codex
        /\ RemoveCodex(CodexCopy(cmd.old), Known(cmd.old))
        /\ Goto("wrap")
     \/ /\ Shared
        /\ RemoveCodex(cmd.old.codex, Known(cmd.old))
        /\ cmd' = [cmd EXCEPT !.new.shared = TRUE, !.pc = "wrap"]
     \/ /\ env.codex /\ ~env.linked
        /\ WriteManaged("agents", Text("codex", cmd.ver), CodexCopy(cmd.old), Known(cmd.old))
        /\ cmd' = [cmd EXCEPT !.new.codex = Text("codex", cmd.ver), !.pc = "wrap"]
  /\ UNCHANGED <<settings, hooks, home, env, mine, edits, left, ever>>

(* Mutant: a second install forgets the line saved.                        *)
WrapAgain_Forgets ==
  /\ At("install", "wrap") /\ Wrapped
  /\ home' = [home EXCEPT !.saved = [NoSaved EXCEPT !.exists = TRUE]]
  /\ cmd' = [cmd EXCEPT !.new.hash = IF @ = NoFile THEN settings ELSE @,
                        !.pc = IF settings.line = Command(cmd.ver) THEN "hook" ELSE "rewrap"]
  /\ UNCHANGED <<settings, hooks, skills, env, mine, edits, left, ever>>

(* wrapStatusLine: never wrapped twice; the hash of the file is kept, or   *)
(* taken now when none is known ...                                        *)
WrapAgain ==
  /\ At("install", "wrap") /\ Wrapped
  /\ home' = IF home.saved.exists THEN home
             ELSE [home EXCEPT !.saved = [NoSaved EXCEPT !.exists = TRUE]]
  /\ cmd' = [cmd EXCEPT !.new.hash = IF @ = NoFile THEN settings ELSE @,
                        !.pc = IF settings.line = Command(cmd.ver) THEN "hook" ELSE "rewrap"]
  /\ UNCHANGED <<settings, hooks, skills, env, mine, edits, left, ever>>

(* ... but a wrapper with another command gets the new one, and the hash   *)
(* is of the file as it is then.  recast: with edits of the user's in it   *)
(* that the backup does not have.                                          *)
RewrapLine ==
  /\ At("install", "rewrap")
  /\ WriteSettings(WithLine(settings, Command(cmd.ver)))
  /\ cmd' = [cmd EXCEPT !.new.hash = settings', !.pc = "hook"]
  /\ ever' = [ever EXCEPT !.recast = @ \/ settings # cmd.old.hash]
  /\ UNCHANGED <<hooks, skills, home, env, mine, edits, left>>

(* ... the user's line is saved ...                                        *)
SaveLine ==
  /\ At("install", "wrap") /\ ~Wrapped
  /\ home' = [home EXCEPT !.saved = [exists |-> TRUE, line |-> settings.line,
                                     created |-> ~settings.exists]]
  /\ Goto("backup")
  /\ UNCHANGED <<settings, hooks, skills, env, mine, edits, left, ever>>

(* ... the file is backed up once ...                                      *)
Backup ==
  /\ At("install", "backup")
  /\ home' = IF settings.exists /\ ~home.backup.exists THEN [home EXCEPT !.backup = settings] ELSE home
  /\ Goto("write")
  /\ UNCHANGED <<settings, hooks, skills, env, mine, edits, left, ever>>

(* (or in part: then the part stays, and is what an uninstall finds) ...   *)
BackupTorn ==
  /\ At("install", "backup") /\ left.crashes > 0
  /\ settings.exists /\ ~home.backup.exists
  /\ home' = [home EXCEPT !.backup = Torn]
  /\ left' = [left EXCEPT !.crashes = @ - 1]
  /\ cmd' = NoCmd
  /\ ever' = [ever EXCEPT !.cut = TRUE, !.lost = TRUE]
  /\ UNCHANGED <<settings, hooks, skills, env, mine, edits>>

(* ... and only its status line is changed.                                *)
WrapLine ==
  /\ At("install", "write")
  /\ WriteSettings(WithLine(settings, Command(cmd.ver)))
  /\ cmd' = [cmd EXCEPT !.new.hash = settings', !.pc = "hook"]
  /\ UNCHANGED <<hooks, skills, home, env, mine, edits, left, ever>>

(* installCodexHook; a hooks.json that is no JSON ends the install, after  *)
(* all that was written.                                                   *)
InstallHook ==
  /\ At("install", "hook") /\ (env.codex => hooks.valid)
  /\ IF env.codex
     THEN LET a == AddedHook(hooks, Group(cmd.ver), cmd.old.hooks) IN
            /\ hooks' = a.file
            /\ cmd' = [cmd EXCEPT !.new.hooks = a.text, !.pc = "manifest"]
     ELSE Goto("manifest") /\ UNCHANGED hooks
  /\ UNCHANGED <<settings, skills, home, env, mine, edits, left, ever>>

HookFails ==
  /\ At("install", "hook") /\ env.codex /\ ~hooks.valid
  /\ cmd' = NoCmd
  /\ ever' = [ever EXCEPT !.cut = TRUE]
  /\ UNCHANGED <<settings, hooks, skills, home, env, mine, edits, left>>

WriteManifest ==
  /\ At("install", "manifest")
  /\ home' = [home EXCEPT !.manifest = cmd.new]
  /\ Ended(FALSE)
  /\ UNCHANGED <<settings, hooks, skills, env, mine, edits, left>>

---------------------------------------------------------------------------
(* uninstall.                                                              *)

(* lost: the wrapper that stands has a command the manifest does not have,  *)
(* since the install that wrote it ended before its own.                   *)
Uninstall ==
  /\ cmd.op = "none" /\ left.commands > 0 /\ home.manifest.exists
  /\ Loads(settings)
  /\ left' = [left EXCEPT !.commands = @ - 1]
  /\ cmd' = [NoCmd EXCEPT !.op = "uninstall", !.pc = "line", !.old = home.manifest]
  /\ ever' = [ever EXCEPT !.lost = @ \/ (Wrapped /\ settings.line # home.manifest.command)]
  /\ UNCHANGED <<settings, hooks, skills, home, env, mine, edits>>

(* Mutant: the backup comes back, whatever the file holds now.             *)
Restored_Backup(m) ==
  IF home.backup.exists THEN home.backup
  ELSE IF home.saved.created THEN NoFile
  ELSE File(home.saved.line, settings.rest)

(* restoreStatusLine: an unchanged file gets its bytes back, in an edited  *)
(* one only the line is changed; one that csquad created goes when it is   *)
(* empty.                                                                  *)
Restored(m) ==
  LET edited == IF home.saved.line = "none" THEN WithoutLine(settings)
                ELSE WithLine(settings, home.saved.line)
  IN IF settings = m.hash /\ home.saved.created THEN NoFile
     ELSE IF settings = m.hash /\ home.backup.exists THEN home.backup
     ELSE IF home.saved.created /\ Empty(edited) THEN NoFile
     ELSE edited

(* A line that is not the wrapper the manifest has is left as it is.       *)
RestoreLine ==
  /\ At("uninstall", "line")
  /\ WriteSettings(IF settings.line = cmd.old.command THEN Restored(cmd.old) ELSE settings)
  /\ Goto("skills")
  /\ UNCHANGED <<hooks, skills, home, env, mine, edits, left, ever>>

RemoveSkills ==
  /\ At("uninstall", "skills")
  /\ WriteManaged("claude", NoText, cmd.old.claude, Known(cmd.old))
  /\ Goto("hook")
  /\ UNCHANGED <<settings, hooks, home, env, mine, edits, left, ever>>

UninstallHook ==
  /\ At("uninstall", "hook")
  /\ hooks' = IF hooks.exists THEN RemovedHook(hooks, cmd.old.hooks) ELSE hooks
  /\ ever' = [ever EXCEPT !.cut = @ \/ ~hooks.valid]
  /\ Goto("codex")
  /\ UNCHANGED <<settings, skills, home, env, mine, edits, left>>

UninstallCodex ==
  /\ At("uninstall", "codex")
  /\ RemoveCodex(CodexCopy(cmd.old), Known(cmd.old))
  /\ Goto("manifest")
  /\ UNCHANGED <<settings, hooks, home, env, mine, edits, left, ever>>

(* manifest, saved line, backup and binary go one after the other.         *)
RemoveOwn ==
  /\ cmd.op = "uninstall"
  /\ \/ /\ cmd.pc = "manifest" /\ Goto("saved")
        /\ home' = [home EXCEPT !.manifest = NoManifest]
     \/ /\ cmd.pc = "saved" /\ Goto("backup")
        /\ home' = [home EXCEPT !.saved = NoSaved]
     \/ /\ cmd.pc = "backup" /\ Goto("binary")
        /\ home' = [home EXCEPT !.backup = NoFile]
  /\ UNCHANGED <<settings, hooks, skills, env, mine, edits, left, ever>>

RemoveBinary ==
  /\ At("uninstall", "binary")
  /\ home' = [home EXCEPT !.binary = 0]
  /\ Ended(TRUE)
  /\ UNCHANGED <<settings, hooks, skills, env, mine, edits, left>>

Crash ==
  /\ cmd.op # "none" /\ left.crashes > 0
  /\ left' = [left EXCEPT !.crashes = @ - 1]
  /\ cmd' = NoCmd
  /\ ever' = [ever EXCEPT !.cut = TRUE]
  /\ UNCHANGED <<settings, hooks, skills, home, env, mine, edits>>

---------------------------------------------------------------------------
(* The user, between two commands.                                         *)

Acting ==
  /\ cmd.op = "none" /\ left.acts > 0 /\ left.commands > 0
  /\ left' = [left EXCEPT !.acts = @ - 1]
  /\ UNCHANGED <<home, cmd>>

(* Another key of settings.json.                                           *)
EditSettings ==
  /\ Acting /\ settings.valid
  /\ settings' = File(settings.line, settings.rest + 1)
  /\ mine' = File(mine.line, mine.rest + 1)
  /\ UNCHANGED <<hooks, skills, env, edits, ever>>

(* The file breaks, or is repaired.                                        *)
BreakSettings ==
  /\ Acting /\ settings.exists
  /\ settings' = [settings EXCEPT !.valid = ~@]
  /\ UNCHANGED <<hooks, skills, env, mine, edits, ever>>

(* A status line of their own, in place of whatever is there.              *)
SetLine ==
  /\ Acting /\ settings.valid
  /\ \E l \in Lines \ {settings.line} :
       /\ settings' = File(l, settings.rest)
       /\ mine' = File(l, mine.rest)
  /\ ever' = [ever EXCEPT !.relined = TRUE]
  /\ UNCHANGED <<hooks, skills, env, edits>>

EditSkill ==
  /\ Acting
  /\ \E d \in Dirs :
       /\ Place(d) = d /\ skills[d].text # NoText
       /\ skills' = [skills EXCEPT ![d].text = Edit(left.acts)]
       /\ edits' = [edits EXCEPT ![d] = Edit(left.acts)]
  /\ UNCHANGED <<settings, hooks, env, mine, ever>>

(* A group of theirs is added last, or removed; the file breaks, or is     *)
(* repaired.                                                               *)
EditHooks ==
  /\ Acting /\ hooks.exists
  /\ \/ /\ hooks.valid
        /\ hooks' = [hooks EXCEPT !.groups = Append(@, <<"user", 10 + left.acts>>), !.created = FALSE]
     \/ /\ hooks.valid
        /\ \E k \in DOMAIN hooks.groups : ~Marked(hooks.groups[k]) /\ hooks' = [hooks EXCEPT !.groups = RemoveAt(@, k)]
     \/ hooks' = [hooks EXCEPT !.valid = ~@]
  /\ UNCHANGED <<settings, skills, env, mine, edits, ever>>

(* Codex is installed or removed, with its hooks.json.                     *)
ToggleCodex ==
  /\ Acting
  /\ env' = [env EXCEPT !.codex = ~@]
  /\ hooks' = NoHooks
  /\ UNCHANGED <<settings, skills, mine, edits, ever>>

(* The directory Codex reads is made a link to Claude's, its files given   *)
(* up, or an empty one of its own again.                                   *)
ToggleLink ==
  /\ Acting
  /\ env' = [env EXCEPT !.linked = ~@]
  /\ skills' = [skills EXCEPT !["agents"] = [text |-> NoText, bak |-> NoText]]
  /\ edits' = [edits EXCEPT !["agents"] = NoText]
  /\ UNCHANGED <<settings, hooks, mine, ever>>

Next ==
  \/ Install \/ InstallBinary \/ WriteSkills \/ InstallCodex \/ WrapAgain \/ RewrapLine \/ SaveLine \/ Backup
  \/ BackupTorn \/ WrapLine \/ InstallHook \/ HookFails \/ WriteManifest
  \/ Uninstall \/ RestoreLine \/ RemoveSkills \/ UninstallHook \/ UninstallCodex \/ RemoveOwn \/ RemoveBinary
  \/ Crash
  \/ EditSettings \/ BreakSettings \/ SetLine \/ EditSkill \/ EditHooks \/ ToggleCodex \/ ToggleLink

Spec == Init /\ [][Next]_vars

---------------------------------------------------------------------------
(* Properties.                                                             *)

Texts == {NoText} \union ({"claude", "codex", "shared"} \X Versions) \union ({"user"} \X (1..Acts))
Settings == [exists : BOOLEAN, valid : BOOLEAN, line : Lines \union {"none", "legacy"} \union Wrappers, rest : Nat]

TypeOK ==
  /\ settings \in Settings /\ mine \in Settings
  /\ hooks.groups \in Seq({"csquad", "user"} \X Nat)
  /\ skills \in [Dirs -> [text : Texts, bak : Texts]]
  /\ home.manifest.hash \in Settings /\ home.backup \in Settings
  /\ home.saved \in [exists : BOOLEAN, line : Lines \union {"none"}, created : BOOLEAN]
  /\ home.binary \in Versions \union {0}
  /\ edits \in [Dirs -> Texts]

(* The user's status line is not lost, however commands are killed and the *)
(* user and csquad take turns, but for two accidents: while the wrapper    *)
(* stands in settings.json the line is the one saved and the binary the    *)
(* wrapper names is there; else, for a user who kept their line, it is in  *)
(* settings.json (the order of wrapStatusLine and of Uninstall).  The two: *)
(* a kill in the midst of writing the backup, which is never written again *)
(* and later comes back as it is; and an uninstall that follows an install *)
(* cut short between a new command of the wrapper and the manifest, which  *)
(* leaves the wrapper and removes the line saved (BackupTorn, Uninstall).  *)
WrappedIsSaved == Wrapped => home.saved.exists /\ home.saved.line = mine.line /\ home.binary # 0
LineComesBack == ~Wrapped /\ ~ever.relined => settings.line = mine.line
LineNeverLost == ~ever.lost => WrappedIsSaved /\ LineComesBack

(* The user's last edit of a skill is in the file or beside it as .bak,    *)
(* through updates, removals and a directory both hosts share, unless a    *)
(* command was cut short (writeManaged, removeFrom, knownHashes).          *)
EditKept ==
  ever.cut \/ \A d \in Dirs : edits[d] # NoText => edits[d] \in {skills[d].text, skills[d].bak}

(* No command adds, removes or reorders the user's groups in hooks.json.   *)
UserGroups(h) == Kept(h.groups, Theirs)
UserGroupsKept == [][cmd.op # "none" => UserGroups(hooks') = UserGroups(hooks)]_vars

(* An uninstall gives everything back, where no command was cut short so   *)
(* far: a user who kept their status line has settings.json as it would be *)
(* without csquad, bytes restored or the line alone (it may be broken      *)
(* since), and nothing of csquad's is left in skills and hooks the user    *)
(* edited, moved, linked or broke meanwhile.  An update that changed the   *)
(* wrapper's command in a file the user had edited hashed the edits as its *)
(* own: the backup then comes back without them, and only the line is as   *)
(* it was (RewrapLine, LineNeverLost).                                     *)
GivenBack ==
  ever.gone /\ ~ever.cut =>
    /\ ~Wrapped /\ (~ever.relined /\ ~ever.recast => [settings EXCEPT !.valid = TRUE] = mine)
    /\ \A d \in Dirs : skills[d].text \in {NoText} \union ({"user"} \X Nat)
    /\ hooks.valid => \A k \in DOMAIN hooks.groups : ~Marked(hooks.groups[k])
=============================================================================
