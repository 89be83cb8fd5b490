------------------------------ MODULE Settings ------------------------------
(***************************************************************************)
(* The settings of the vehicle: a schema of groups and leaves, a file of   *)
(* values, and the two programs that edit it, each with a tree of its own: *)
(* the terminal editor, which loads the tree once, and the HTTP plugin,    *)
(* which loads it for every request. Both save through the same temporary  *)
(* file.                                                                   *)
(***************************************************************************)
EXTENDS Naturals, SequencesExt

CONSTANTS
    Leaf,      \* the scalar fields of the schema
    Group,     \* the objects of the schema
    GroupOf,   \* the group of each leaf
    Setting,   \* scalars that can be asked for
    Fits,      \* the settings each leaf accepts: its type, its enum
    Default,   \* the default of each leaf, or NoSetting
    MaxInodes, \* bound on the files created
    MaxEdits   \* bound on the edits and requests

NoSetting == "null"
Editor == {"terminal", "http"}

ASSUME SettingsAssumption ==
    /\ GroupOf \in [Leaf -> Group] /\ Fits \in [Leaf -> SUBSET Setting]
    /\ Default \in [Leaf -> Setting \cup {NoSetting}]
    /\ NoSetting \notin Setting /\ "map" \notin Setting /\ "root" \notin Leaf
    /\ MaxInodes \in Nat \ {0} /\ MaxEdits \in Nat

VARIABLES
    inodes,     \* the contents of the files
    valuesFile, \* the file at values_path, 0 if there is none
    tmpFile,    \* the file at values_path.tmp, 0 if there is none
    saving,     \* what each program is at in save_to_file()
    edited,     \* the tree of the terminal editor
    screens,    \* m_stack of the navigator
    posted,     \* callbacks the application has not run
    labels,     \* the values on the buttons of the form that was entered last
    terminal,   \* the process of the terminal editor
    edits,      \* history: how many edits and requests there were
    disturbed,  \* history: two saves met, or the disk was full
    savedLast   \* history: the values of the last save told successful

settingsVars == <<inodes, valuesFile, tmpFile, saving, edited, screens, posted, labels, terminal,
                  edits, disturbed, savedLast>>

Values == [Leaf -> Setting \cup {NoSetting}]
\* A values file may also hold a map where the schema has a scalar.
Content == [kind : {"values", "empty", "broken"}, of : [Leaf -> Setting \cup {NoSetting, "map"}]]
Nothing == [l \in Leaf |-> NoSetting]
Yaml(tree) == [kind |-> "values", of |-> tree]
Empty == [kind |-> "empty", of |-> Nothing]
Broken == [kind |-> "broken", of |-> Nothing]
Idle == [at |-> "idle", inode |-> 0, tree |-> <<>>]
Screen0 == "root"

SettingsTypeOK ==
    /\ inodes \in Seq(Content) /\ Len(inodes) <= MaxInodes
    /\ valuesFile \in 0 .. Len(inodes) /\ tmpFile \in 0 .. Len(inodes)
    /\ \A e \in Editor : saving[e].at \in {"idle", "begun", "opened", "written"}
    /\ edited \in Values /\ labels \in Values
    /\ screens \in Seq({Screen0} \cup Group \cup Leaf)
    /\ terminal \in {"up", "down", "undefined"} /\ edits \in 0 .. MaxEdits /\ disturbed \in BOOLEAN

-----------------------------------------------------------------------------
(* config_field: a tree is the effective value of each leaf.               *)

OrDefault(l, value) == IF value \in {NoSetting, "map"} THEN Default[l] ELSE value

\* load(): a values file that is missing or does not parse leaves the defaults. Values
\* of the wrong type, or outside the enum, are taken as they are.
Load(content) ==
    [l \in Leaf |-> OrDefault(l, content.of[l])]
Loaded == Load(IF valuesFile = 0 THEN Empty ELSE inodes[valuesFile])

\* to_yaml_value(): a leaf without a value is written with its default.
ToYaml(tree) == Yaml([l \in Leaf |-> OrDefault(l, tree[l])])

\* A request: the groups it has, the leaves it gives, and whether some key is unknown.
Request == [groups : SUBSET Group, leaves : UNION {[S -> Setting] : S \in SUBSET Leaf}, unknown : BOOLEAN]
RequestOK(r) == \A l \in DOMAIN r.leaves : GroupOf[l] \in r.groups

\* apply_values(): all or nothing, since a tree that was refused half way is dropped.
Accepted(r) == ~r.unknown /\ \A l \in DOMAIN r.leaves : r.leaves[l] \in Fits[l]

\* A leaf left out of a group that is there goes back to its default; a group left out
\* has no default, and its leaves keep the values that were loaded.
Apply(r, tree) ==
    [l \in Leaf |-> IF l \in DOMAIN r.leaves THEN r.leaves[l]
                    ELSE IF GroupOf[l] \in r.groups THEN Default[l] ELSE tree[l]]

-----------------------------------------------------------------------------
(* save_to_file(): open the temporary file, write it, rename it.           *)

SettingsInit ==
    /\ \E content \in {Broken} \cup {Yaml(v) : v \in [Leaf -> Setting \cup {NoSetting, "map"}]} :
           inodes = <<content>>
    /\ valuesFile \in {0, 1} /\ tmpFile = 0
    /\ saving = [e \in Editor |-> Idle]
    /\ edited = Loaded /\ labels = Loaded
    /\ screens = <<>> /\ posted = <<[do |-> "push", what |-> Screen0]>>
    /\ terminal = "up" /\ edits = 0 /\ disturbed = FALSE /\ savedLast = Empty

Others(e) == \E f \in Editor \ {e} : saving[f].at \in {"opened", "written"}

FailSave(e) == saving' = [saving EXCEPT ![e] = Idle]

\* Whatever fails before the rename is done removes the temporary file, whosever it is.
Open(e) ==
    /\ saving[e].at = "begun"
    /\ \/ FailSave(e) /\ tmpFile' = 0 /\ UNCHANGED <<inodes, disturbed>>
       \/ /\ tmpFile = 0 => Len(inodes) < MaxInodes
          /\ inodes' = IF tmpFile = 0 THEN Append(inodes, Empty)
                                      ELSE [inodes EXCEPT ![tmpFile] = Empty]
          /\ tmpFile' = IF tmpFile = 0 THEN Len(inodes) + 1 ELSE tmpFile
          /\ saving' = [saving EXCEPT ![e].at = "opened", ![e].inode = tmpFile']
          /\ disturbed' = (disturbed \/ Others(e))
    /\ UNCHANGED <<valuesFile, edited, screens, posted, labels, terminal, edits, savedLast>>

\* The stream is tested before it is flushed: a failure to write is noticed then, and
\* the temporary file removed, or comes with the flush, and is not.
Write(e) ==
    LET s == saving[e] IN
    /\ s.at = "opened"
    /\ \/ /\ inodes' = [inodes EXCEPT ![s.inode] = ToYaml(s.tree)]
          /\ saving' = [saving EXCEPT ![e].at = "written"] /\ UNCHANGED <<tmpFile, disturbed>>
       \/ /\ inodes[s.inode] # Empty \* written by the other program as well
          /\ inodes' = [inodes EXCEPT ![s.inode] = Broken]
          /\ saving' = [saving EXCEPT ![e].at = "written"] /\ UNCHANGED <<tmpFile, disturbed>>
       \/ FailSave(e) /\ tmpFile' = 0 /\ UNCHANGED <<inodes, disturbed>>
       \/ /\ saving' = [saving EXCEPT ![e].at = "written"] /\ disturbed' = TRUE
          /\ UNCHANGED <<inodes, tmpFile>>
    /\ UNCHANGED <<valuesFile, edited, screens, posted, labels, terminal, edits, savedLast>>

\* Whoever asked is told that the values are saved, or that they cannot be renamed.
Rename(e) ==
    /\ saving[e].at = "written"
    /\ FailSave(e) /\ tmpFile' = 0
    /\ \/ UNCHANGED <<valuesFile, savedLast>>
       \/ /\ tmpFile # 0
          /\ valuesFile' = tmpFile
          /\ savedLast' = ToYaml(saving[e].tree)
    /\ UNCHANGED <<inodes, edited, screens, posted, labels, terminal, edits, disturbed>>

\* The program dies in the middle of a save, and is started again.
Crash(e) ==
    /\ saving[e].at # "idle"
    /\ FailSave(e)
    /\ terminal' = IF e = "terminal" THEN "down" ELSE terminal
    /\ UNCHANGED <<inodes, valuesFile, tmpFile, edited, screens, posted, labels, edits, disturbed,
                   savedLast>>

-----------------------------------------------------------------------------
(* The plugin: GET of the schema changes nothing.                          *)

HandleSave(r) ==
    /\ saving["http"].at = "idle" /\ edits < MaxEdits
    /\ edits' = edits + 1
    /\ IF Accepted(r)
       THEN saving' = [saving EXCEPT !["http"] = [at |-> "begun", inode |-> 0, tree |-> Apply(r, Loaded)]]
       ELSE UNCHANGED saving
    /\ UNCHANGED <<inodes, valuesFile, tmpFile, edited, screens, posted, labels, terminal, disturbed,
                   savedLast>>

-----------------------------------------------------------------------------
(* The terminal editor. A callback that is posted wakes the loop, which    *)
(* then runs what was posted before it reads another key.                  *)

TerminalRests == saving["terminal"].at = "idle" /\ terminal = "up"
ReadsKey == TerminalRests /\ posted = <<>> /\ screens # <<>>
Post(callback) == posted' = Append(posted, callback)
InFiles == UNCHANGED <<inodes, valuesFile, tmpFile, disturbed, savedLast>>

StartTerminal ==
    /\ terminal = "down"
    /\ terminal' = "up" /\ edited' = Loaded /\ labels' = Loaded
    /\ screens' = <<>> /\ posted' = <<[do |-> "push", what |-> Screen0]>>
    /\ InFiles /\ UNCHANGED <<saving, edits>>

OnForm == screens # <<>> /\ Last(screens) \notin Leaf
Children(form) == IF form = Screen0 THEN Group ELSE {l \in Leaf : GroupOf[l] = form}

\* A button of a form opens the field.
PressField ==
    /\ ReadsKey /\ OnForm
    /\ \E child \in Children(Last(screens)) : Post([do |-> "push", what |-> child])
    /\ InFiles /\ UNCHANGED <<saving, edited, screens, labels, terminal, edits>>

\* field_editor::save(): a text that the field does not take is shown as an error.
PressSave ==
    /\ ReadsKey /\ ~OnForm /\ edits < MaxEdits
    /\ edits' = edits + 1
    /\ \E v \in Setting :
           IF v \in Fits[Last(screens)]
           THEN edited' = [edited EXCEPT ![Last(screens)] = v] /\ Post([do |-> "pop", what |-> Screen0])
           ELSE UNCHANGED <<edited, posted>>
    /\ InFiles /\ UNCHANGED <<saving, screens, labels, terminal>>

\* Escape and Cancel: pop(), or quit() at the root.
PressEscape ==
    /\ ReadsKey
    /\ IF Len(screens) > 1 THEN Post([do |-> "pop", what |-> Screen0]) /\ UNCHANGED terminal
       ELSE terminal' = "down" /\ UNCHANGED posted
    /\ InFiles /\ UNCHANGED <<saving, edited, screens, labels, edits>>

PressCtrlS ==
    /\ ReadsKey
    /\ Post([do |-> "save", what |-> Screen0])
    /\ InFiles /\ UNCHANGED <<saving, edited, screens, labels, terminal, edits>>

\* on_enter() of the screen that comes to the top: a form writes its labels.
Enter == labels' = IF screens' # <<>> /\ Last(screens') \notin Leaf THEN edited ELSE labels

\* Fault: the screen below is not entered again.
PopSilently == screens' = Front(screens) /\ UNCHANGED <<terminal, labels>>

\* The last screen popped leaves nothing to enter: the code does not look.
Pop ==
    /\ screens' = IF screens = <<>> THEN screens ELSE Front(screens)
    /\ terminal' = IF Len(screens) <= 1 THEN "undefined" ELSE terminal
    /\ Enter

RunPosted ==
    /\ TerminalRests /\ posted # <<>>
    /\ posted' = Tail(posted)
    /\ CASE Head(posted).do = "push" ->
              screens' = Append(screens, Head(posted).what) /\ Enter /\ UNCHANGED <<terminal, saving>>
         [] Head(posted).do = "pop" -> Pop /\ UNCHANGED saving
         [] Head(posted).do = "save" ->
              /\ saving' = [saving EXCEPT !["terminal"] = [at |-> "begun", inode |-> 0, tree |-> edited]]
              /\ UNCHANGED <<screens, terminal, labels>>
    /\ InFiles /\ UNCHANGED <<edited, edits>>

SettingsNext ==
    \/ \E e \in Editor : Open(e) \/ Write(e) \/ Rename(e) \/ Crash(e)
    \/ \E r \in Request : RequestOK(r) /\ HandleSave(r)
    \/ StartTerminal \/ PressField \/ PressSave \/ PressEscape \/ PressCtrlS \/ RunPosted

SettingsSpec == SettingsInit /\ [][SettingsNext]_settingsVars

-----------------------------------------------------------------------------
(* Properties.                                                             *)

InFile == inodes[valuesFile]

\* The file is what the last successful save wrote, whatever fails or dies on the way,
\* unless two saves met in the temporary file or the disk was full at the flush.
FileIsLastSaved ==
    savedLast # Empty /\ ~disturbed => valuesFile # 0 /\ InFile = savedLast

\* Nothing a user enters is out of place: a leaf the file did not already have wrong,
\* or that was entered, has a value it accepts.
EnteredFits ==
    \A e \in Editor : saving[e].at # "idle" =>
        \A l \in Leaf : saving[e].tree[l] \in Fits[l] \cup {NoSetting, Default[l]} \cup
            {inodes[i].of[l] : i \in DOMAIN inodes}

\* The form in front shows the values it edits, and some screen is always left.
ScreensSound ==
    /\ terminal # "undefined"
    /\ terminal = "up" /\ OnForm => labels = edited

\* Saves, requests, keys and crashes in any order (config_field::save_to_file,
\* settings_server::handle_save, navigator, form_screen, field_editor).
SettingsKept == SettingsTypeOK /\ FileIsLastSaved /\ EnteredFits /\ ScreensSound
=============================================================================
