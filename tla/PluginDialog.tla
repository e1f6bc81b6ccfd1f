----------------------------- MODULE PluginDialog ----------------------------
(***************************************************************************)
(* How the user chooses plug-ins: the dialog with the lists of available and *)
(* selected plug-ins and their configuration widgets (app/cc_view/src/widget/ *)
(* PluginConfigDialog.cpp, PluginConfigWrapsListWidget.cpp), the manager that *)
(* loads the libraries and remembers what is applied (lib/src/               *)
(* ToolsPluginMgrImpl.cpp) and GuiAppMgr::applyNewPlugins().  An operator on  *)
(* the record dlg is a method of the dialog; rows are counted from 1, 0 is   *)
(* the -1 of the code.                                                      *)
(***************************************************************************)
EXTENDS Naturals, Sequences, SequencesExt, Lists

CONSTANTS
  PluginsOf,    (* the plug-ins that are installed: type -> set of them     *)
  Configurable, (* those with a configuration widget                       *)
  Broken,       (* those whose library cannot be loaded                    *)
  Searched,     (* those whose name has the text in the search line        *)
  GivenLists,   (* the lists of plug-ins in the configuration files         *)
  MaxChanges    (* bound: plug-ins put in or out, moves, loads, keys        *)

VARIABLES
  dlg,          (* the dialog, see Fresh; Closed when there is none         *)
  started,      (* main() has loaded the first configuration               *)
  libs,         (* the plug-ins whose library is loaded                    *)
  applied,      (* m_appliedPlugins                                        *)
  running,      (* the parts the message manager works with                *)
  files,        (* the configuration files: the lists of plug-ins they name *)
  aborted,      (* an assertion has ended the program: a file named a       *)
                (* plug-in whose library cannot be loaded                    *)
  loadedOver,   (* history: a list was once loaded while an available       *)
                (* plug-in was marked                                      *)
  shows,        (* history: the list that was just loaded, <<>> if not so   *)
  changes       (* bound counter                                           *)

vars == <<dlg, started, libs, applied, running, files, aborted, loadedOver, shows, changes>>

None == "none"
Types == {"socket", "filter", "protocol"}
Rank == [socket |-> 1, filter |-> 2, protocol |-> 3]
Plugins == UNION {PluginsOf[t] : t \in Types}
TypeOf(p) == CHOOSE t \in Types : p \in PluginsOf[t]
OfType(list, t) == Among(list, PluginsOf[t])

Closed == [open |-> FALSE, ok |-> TRUE]

Blank ==
  [open |-> TRUE,
   selected |-> [t \in Types |-> <<>>], row |-> [t \in Types |-> 0], curSel |-> None,
   marked |-> [t \in Types |-> None], curAvail |-> None, search |-> FALSE,
   loaded |-> <<>>, widgets |-> <<>>,         (* PluginConfigWrapsListWidget *)
   bar |-> [b \in {"add", "remove", "up", "down", "some", "apply"} |-> FALSE],
   stale |-> FALSE,       (* a key changed the row, the buttons do not know  *)
   ok |-> TRUE]           (* no assertion has failed, see Move               *)

Check(d, condition) == [d EXCEPT !.ok = @ /\ condition]

(* getSelectedPlugins()                                                      *)
Infos(d) == d.selected["socket"] \o d.selected["filter"] \o d.selected["protocol"]

-----------------------------------------------------------------------------
(* The configuration widgets are kept sorted by type; where a new one belongs *)
(* is found by bisection: upper_bound() and lower_bound().                    *)
Upper(ws, t) == Bisect(Len(ws), {i \in DOMAIN ws : Rank[TypeOf(ws[i])] <= Rank[t]})
Lower(ws, t) == Bisect(Len(ws), {i \in DOMAIN ws : Rank[TypeOf(ws[i])] < Rank[t]})

WidgetIdx(d, p) == IF Contains(d.widgets, p) THEN CHOOSE i \in DOMAIN d.widgets : d.widgets[i] = p ELSE 0

AddConfig(d, p) ==
  LET b == [Check(d, ~Contains(d.loaded, p)) EXCEPT !.loaded = Append(@, p)]
  IN  IF p \in Broken THEN d
      ELSE IF p \in Configurable
      THEN [b EXCEPT !.widgets = InsertAt(@, Upper(@, TypeOf(p)), p)] ELSE b

AddConfigs(d, infos) ==
  LET added[n \in 0 .. Len(infos)] ==
        IF n = 0 THEN d ELSE AddConfig(added[n - 1], infos[n])
  IN  added[Len(infos)]

(* The widget stays when its plug-in goes.                                   *)
WrongRemoveConfig(d, p) == [d EXCEPT !.loaded = Without(@, {p})]

RemoveConfig(d, p) == [d EXCEPT !.loaded = Without(@, {p}), !.widgets = Without(@, {p})]

(* relocateWidget(): the place is counted with the widget still there, and    *)
(* the last one may be one too many.                                         *)
Relocate(d, from, to) ==
  LET rest == RemoveAt(d.widgets, from)
      place == IF to > Len(rest) + 1 THEN Len(rest) + 1 ELSE to
  IN  [Check(d, from # to) EXCEPT !.widgets = InsertAt(rest, place, d.widgets[from])]

ConfigTop(d, p) ==
  LET i == WidgetIdx(d, p)  top == Lower(d.widgets, "filter")
  IN  IF TypeOf(p) = "filter" /\ i > top THEN Relocate(d, i, top) ELSE d

ConfigUp(d, p) ==
  LET i == WidgetIdx(d, p)  top == Lower(d.widgets, "filter")
  IN  IF TypeOf(p) = "filter" /\ i > 1 /\ i > top THEN Relocate(d, i, i - 1) ELSE d

(* Upper() is the place behind the last filter: the widget goes below that of *)
(* the protocol.                                                            *)
ConfigDown(d, p) ==
  LET i == WidgetIdx(d, p)  bottom == Upper(d.widgets, "filter")
  IN  IF TypeOf(p) = "filter" /\ i > 0 /\ i < bottom THEN Relocate(d, i, i + 1) ELSE d

ConfigBottom(d, p) ==
  LET i == WidgetIdx(d, p)  bottom == Upper(d.widgets, "filter")
  IN  IF TypeOf(p) = "filter" /\ i > 0 /\ i < bottom THEN Relocate(d, i, bottom) ELSE d

-----------------------------------------------------------------------------
(* The lists and the buttons.  A button keeps the state it was given until    *)
(* the tool bar it is on is refreshed.                                       *)
Offered(d, t) ==
  {p \in PluginsOf[t] : ~Contains(d.selected[t], p) /\ (d.search => p \in Searched)}

Disabled(d, t) == t # "filter" /\ d.selected[t] # <<>>

RefreshAvailablePlugins(d) ==
  [d EXCEPT !.marked = [t \in Types |-> IF @[t] \in Offered(d, t) THEN @[t] ELSE None]]

RefreshAvailableToolbar(d) ==
  [d EXCEPT !.bar["add"] = d.curAvail # None /\ d.marked[d.curAvail] # None]

CurRow(d) == IF d.curSel = None THEN 0 ELSE d.row[d.curSel]
CurCount(d) == IF d.curSel = None THEN 0 ELSE Len(d.selected[d.curSel])

RefreshSelectedToolbar(d) ==
  [d EXCEPT !.bar["remove"] = CurRow(d) > 0, !.bar["up"] = CurRow(d) > 1,
            !.bar["down"] = CurRow(d) \in 1 .. CurCount(d) - 1, !.bar["some"] = Infos(d) # <<>>,
            !.stale = FALSE]

RefreshButtonBox(d) ==
  [d EXCEPT !.bar["apply"] = d.selected["socket"] # <<>> /\ d.selected["protocol"] # <<>>]

SelectedPluginClicked(d, t, r) ==
  LET b == IF d.curAvail = None THEN d
           ELSE RefreshAvailableToolbar([d EXCEPT !.marked[d.curAvail] = None, !.curAvail = None])
      c == IF d.curSel \in {None, t} THEN b ELSE [b EXCEPT !.row[d.curSel] = 0]
  IN  RefreshSelectedToolbar([c EXCEPT !.curSel = t, !.row[t] = r])

AvailPluginClicked(d, t, p) ==
  LET b == IF d.curSel = None THEN d
           ELSE [RefreshSelectedToolbar([d EXCEPT !.row[d.curSel] = 0]) EXCEPT !.curSel = None]
      c == IF d.curAvail \in {None, t} THEN b ELSE [b EXCEPT !.marked[d.curAvail] = None]
  IN  RefreshAvailableToolbar([c EXCEPT !.curAvail = t, !.marked[t] = p])

(* The list of available plug-ins is left as it was.                         *)
WrongAdd(d) ==
  LET t == d.curAvail  p == d.marked[t]
      c == [d EXCEPT !.selected[t] = Append(@, p), !.row[t] = Len(d.selected[t]) + 1, !.curSel = t]
  IN  IF t = None \/ p = None THEN Check(d, FALSE)
      ELSE IF p \in Broken THEN d
      ELSE AddConfig(RefreshButtonBox(RefreshSelectedToolbar(c)), p)

(* addClicked(); the user is told when the library cannot be loaded.          *)
Add(d) ==
  LET t == d.curAvail  p == d.marked[t]
      b == [d EXCEPT !.selected[t] = Append(@, p)]
      c == RefreshAvailablePlugins(SelectedPluginClicked(b, t, Len(b.selected[t])))
  IN  IF t = None \/ p = None THEN Check(d, FALSE)
      ELSE IF p \in Broken THEN d
      ELSE AddConfig(RefreshButtonBox(RefreshSelectedToolbar(c)), p)

(* removeClicked(): the view makes a neighbour the current item.              *)
RemoveSelected(d) ==
  LET t == d.curSel
      p == d.selected[t][d.row[t]]
      rest == RemoveAt(d.selected[t], d.row[t])
      next == IF d.row[t] <= Len(rest) THEN d.row[t] ELSE Len(rest)
      b == [RemoveConfig(d, p) EXCEPT !.selected[t] = rest, !.row[t] = next]
      c == RefreshButtonBox(RefreshSelectedToolbar(RefreshAvailablePlugins(b)))
  IN  IF t = None \/ CurRow(d) = 0 THEN Check(d, FALSE)
      ELSE IF next = 0 THEN [c EXCEPT !.curSel = None] ELSE SelectedPluginClicked(c, t, next)

(* clearClicked()                                                            *)
ClearSelected(d) ==
  LET b == [d EXCEPT !.selected = Blank.selected, !.row = Blank.row, !.curSel = None,
                     !.loaded = <<>>, !.widgets = <<>>]
  IN  RefreshButtonBox(RefreshSelectedToolbar(RefreshAvailablePlugins(b)))

(* moveSelectedPlugin(), after the widget was moved.  That the row can be     *)
(* moved is an assertion, which fails when a key has made another row current *)
(* since the buttons were set.                                               *)
Move(d, Config(_, _), to) ==
  LET t == d.curSel
      p == d.selected[t][d.row[t]]
      b == [Config(d, p) EXCEPT !.selected[t] = InsertAt(RemoveAt(@, d.row[t]), to, p), !.row[t] = to]
  IN  IF t = None \/ CurRow(d) = 0 THEN Check(d, FALSE)
      ELSE IF to \notin 1 .. CurCount(d) THEN Check(Config(d, p), d.stale)
      ELSE RefreshSelectedToolbar(b)

(* The filters come in the opposite order.                                   *)
WrongRefreshSelectedPlugins(d, infos) ==
  LET b == [d EXCEPT !.curSel = None, !.row = Blank.row, !.loaded = <<>>, !.widgets = <<>>,
                     !.selected = [t \in Types |-> Reverse(OfType(infos, t))]]
  IN  AddConfigs(b, infos)

RefreshSelectedPlugins(d, infos) ==
  LET b == [d EXCEPT !.curSel = None, !.row = Blank.row, !.loaded = <<>>, !.widgets = <<>>,
                     !.selected = [t \in Types |-> OfType(infos, t)]]
  IN  AddConfigs(b, infos)

(* loadClicked() and the constructor (refreshAll()).                          *)
ShowList(d, infos) ==
  RefreshButtonBox(RefreshAvailableToolbar(RefreshAvailablePlugins(
    RefreshSelectedToolbar(RefreshSelectedPlugins(d, infos)))))

-----------------------------------------------------------------------------
(* ToolsPluginMgrImpl and applyNewPlugins().                                  *)
NeedsReload(infos) == applied # <<>> /\ applied # infos

(* The one that was selected last.                                           *)
LastProtocol(infos) ==
  IF OfType(infos, "protocol") = <<>> THEN None ELSE Last(OfType(infos, "protocol"))

(* Whether there is one.                                                     *)
WrongIsProtocolChanging(infos) == LastProtocol(infos) # None

IsProtocolChanging(infos) == LastProtocol(infos) # LastProtocol(applied)

First(infos, t) == IF OfType(infos, t) = <<>> THEN None ELSE Head(OfType(infos, t))

NotRunning == [socket |-> None, filters |-> <<>>, protocol |-> None]

Complete(infos) == First(infos, "socket") # None /\ First(infos, "protocol") # None

Applies(infos) ==
  /\ applied' = infos
  /\ running' = [socket |-> First(infos, "socket"), filters |-> OfType(infos, "filter"),
                 protocol |-> First(infos, "protocol")]

(* What was applied goes after the others are loaded.                        *)
WrongLibraries(loaded, infos) == (loaded \cup ToSet(infos)) \ ToSet(applied)

(* Plug-ins that are no longer wanted are unloaded.                           *)
Libraries(loaded, infos) ==
  (loaded \ (ToSet(applied) \ ToSet(infos))) \cup ToSet(infos)

-----------------------------------------------------------------------------
Init ==
  /\ dlg = Closed /\ started = FALSE /\ libs = {} /\ applied = <<>> /\ running = NotRunning
  /\ files = GivenLists /\ aborted = FALSE /\ loadedOver = FALSE /\ shows = <<>> /\ changes = 0

(* loadPluginsFromConfig() asserts that it can load what a file names.        *)
Loadable(infos) == ToSet(infos) \cap Broken = {}

(* main(): the file that was given, then the configuration that was asked for *)
(* or the default one; without a usable one the tool starts with nothing.     *)
(* applyNewPlugins() does not get beyond a missing socket or protocol.        *)
Start ==
  /\ ~started /\ started' = TRUE
  /\ \E given, config \in files \cup {<<>>} :
       /\ aborted' = ~(Loadable(given) /\ (Complete(given) \/ Loadable(config)))
       /\ libs' = (ToSet(given) \cup IF Complete(given) THEN {} ELSE ToSet(config)) \ Broken
       /\ IF ~aborted' /\ Complete(given) THEN Applies(given)
          ELSE IF ~aborted' /\ Complete(config) THEN Applies(config) ELSE UNCHANGED <<applied, running>>
  /\ UNCHANGED <<dlg, files, loadedOver, shows, changes>>

OpenDialog ==
  /\ started /\ ~dlg.open
  /\ dlg' = [ShowList(Blank, applied) EXCEPT !.ok = @ /\ dlg.ok] /\ shows' = <<>>
  /\ UNCHANGED <<started, libs, applied, running, files, aborted, loadedOver, changes>>

Becomes(d) == dlg' = d /\ shows' = <<>>
Rest == UNCHANGED <<started, applied, running, files, aborted>>

ClickAvailable(t, p) ==
  /\ dlg.open /\ p \in Offered(dlg, t) /\ ~Disabled(dlg, t)
  /\ Becomes(AvailPluginClicked(dlg, t, p))
  /\ Rest /\ UNCHANGED <<libs, loadedOver, changes>>

ClickSelected(t, r) ==
  /\ Becomes(SelectedPluginClicked(dlg, t, r))
  /\ Rest /\ UNCHANGED <<libs, loadedOver, changes>>

Counted == changes < MaxChanges /\ changes' = changes + 1

(* A list that has the focus makes another item current on a key, which       *)
(* nothing is told of: the dialog listens to itemClicked() only.              *)
KeyAvailable(t, p) ==
  /\ dlg.open /\ Counted /\ p \in Offered(dlg, t) /\ ~Disabled(dlg, t)
  /\ Becomes([dlg EXCEPT !.marked[t] = p])
  /\ Rest /\ UNCHANGED <<libs, loadedOver>>

KeySelected(t, r) ==
  /\ Counted /\ Becomes([dlg EXCEPT !.row[t] = r, !.stale = @ \/ t = dlg.curSel])
  /\ Rest /\ UNCHANGED <<libs, loadedOver>>

AddTo(d) ==
  /\ Counted /\ Becomes(Add(d))
  /\ libs' = libs \cup (ToSet(Infos(dlg')) \ ToSet(Infos(dlg)))
  /\ Rest /\ UNCHANGED loadedOver

AddClicked == dlg.open /\ dlg.bar["add"] /\ AddTo(dlg)

DoubleClickAvailable(t, p) ==
  /\ dlg.open /\ p \in Offered(dlg, t) /\ ~Disabled(dlg, t)
  /\ AddTo(AvailPluginClicked(dlg, t, p))

RemoveClicked ==
  /\ dlg.open /\ dlg.bar["remove"] /\ Counted /\ Becomes(RemoveSelected(dlg))
  /\ Rest /\ UNCHANGED <<libs, loadedOver>>

ClearClicked ==
  /\ dlg.open /\ dlg.bar["some"] /\ Counted /\ Becomes(ClearSelected(dlg))
  /\ Rest /\ UNCHANGED <<libs, loadedOver>>

MoveClicked(button, Config(_, _), to) ==
  /\ dlg.open /\ dlg.bar[button] /\ Counted /\ Becomes(Move(dlg, Config, to))
  /\ Rest /\ UNCHANGED <<libs, loadedOver>>

TopClicked == MoveClicked("up", ConfigTop, 1)
UpClicked == MoveClicked("up", ConfigUp, CurRow(dlg) - 1)
DownClicked == MoveClicked("down", ConfigDown, CurRow(dlg) + 1)
BottomClicked == MoveClicked("down", ConfigBottom, CurCount(dlg))

(* searchTextChanged(), searchClearClicked()                                  *)
Search ==
  /\ dlg.open
  /\ Becomes(RefreshAvailableToolbar(RefreshAvailablePlugins([dlg EXCEPT !.search = ~@])))
  /\ Rest /\ UNCHANGED <<libs, loadedOver, changes>>

LoadClicked(list) ==
  /\ dlg.open /\ Counted
  /\ aborted' = ~Loadable(list)
  /\ IF aborted' THEN UNCHANGED <<dlg, shows, libs, loadedOver>>
     ELSE /\ dlg' = ShowList(dlg, list) /\ shows' = list /\ libs' = libs \cup ToSet(list)
          /\ loadedOver' = (loadedOver \/ dlg.curAvail # None)
  /\ UNCHANGED <<started, applied, running, files>>

SaveClicked ==
  /\ dlg.open /\ dlg.bar["some"] /\ files' = files \cup {Infos(dlg)}
  /\ UNCHANGED <<dlg, started, libs, applied, running, aborted, loadedOver, shows, changes>>

(* accept() asks whether to reload when the list is another one; the answer   *)
(* may be no.  applyNewPlugins() asserts that it can load the plug-ins.       *)
Accept ==
  /\ dlg.open /\ dlg.bar["apply"]
  /\ dlg' = [Closed EXCEPT !.ok = /\ dlg.ok /\ Infos(dlg) # <<>>
                              /\ ToSet(applied) \subseteq libs /\ Loadable(Infos(dlg))]
  /\ \/ Applies(Infos(dlg)) /\ libs' = Libraries(libs, Infos(dlg))
     \/ NeedsReload(Infos(dlg)) /\ UNCHANGED <<applied, running, libs>>
  /\ shows' = <<>>
  /\ UNCHANGED <<started, files, aborted, loadedOver, changes>>

Reject ==
  /\ dlg.open /\ dlg' = [Closed EXCEPT !.ok = dlg.ok]
  /\ shows' = <<>>
  /\ UNCHANGED <<started, libs, applied, running, files, aborted, loadedOver, changes>>

Step ==
  \/ Start \/ OpenDialog \/ AddClicked \/ RemoveClicked \/ ClearClicked \/ Search
  \/ TopClicked \/ UpClicked \/ DownClicked \/ BottomClicked \/ SaveClicked \/ Accept \/ Reject
  \/ \E t \in Types : \E p \in PluginsOf[t] :
       ClickAvailable(t, p) \/ DoubleClickAvailable(t, p) \/ KeyAvailable(t, p)
  \/ dlg.open /\ \E t \in Types : \E r \in DOMAIN dlg.selected[t] : ClickSelected(t, r) \/ KeySelected(t, r)
  \/ \E list \in files : LoadClicked(list)

Next == ~aborted /\ Step

Spec == Init /\ [][Next]_vars

-----------------------------------------------------------------------------
(* No assertion of the dialog, of its configuration widgets and of the plug-in *)
(* manager fails: every button that can be pressed has something to act on.    *)
(* Two exceptions: a move button after a key has changed the row (see Move),   *)
(* and a file that names a library that cannot be loaded, which is the only    *)
(* way a library can be missing.                                              *)
NoAssertionFails ==
  dlg.ok /\ (aborted => \E list \in files : ~Loadable(list)) /\ Loadable(applied)

(* No plug-in is selected twice; the widgets shown are those of the selected   *)
(* plug-ins that have one, whatever was added, removed, moved and loaded.      *)
WidgetsOfSelected ==
  dlg.open =>
    /\ IsInjective(Infos(dlg)) /\ IsInjective(dlg.widgets)
    /\ ToSet(dlg.loaded) = ToSet(Infos(dlg))
    /\ ToSet(dlg.widgets) = ToSet(Infos(dlg)) \cap Configurable

(* At most one socket and one protocol are selected, unless a list was loaded  *)
(* while an available plug-in was marked (then the add button still works).    *)
OneOfEach ==
  dlg.open /\ ~loadedOver => Len(dlg.selected["socket"]) <= 1 /\ Len(dlg.selected["protocol"]) <= 1

(* A list that was loaded is the list that would be saved or applied.          *)
ShowsLoaded == shows # <<>> => Infos(dlg) = shows

(* What runs has its libraries loaded, also when the dialog was cancelled, the  *)
(* question answered with no, or a plug-in was applied a second time.          *)
RunningIsLoaded ==
  /\ ToSet(applied) \subseteq libs
  /\ {running.socket, running.protocol} \ {None} \subseteq libs /\ ToSet(running.filters) \subseteq libs

(* Whether the protocol is said to change, upon which the send list is emptied  *)
(* without a question, agrees with the protocol that will run: the last one of *)
(* the old list and of the new are compared, the first one is taken.  Lists    *)
(* with two protocols are excepted, for which it does not hold.               *)
OneProtocol(infos) == Len(OfType(infos, "protocol")) <= 1

ProtocolFollowsStep ==
  applied' # applied /\ OneProtocol(applied) /\ OneProtocol(applied') =>
    (IsProtocolChanging(applied') <=> running'.protocol # running.protocol)
ProtocolFollows == [][ProtocolFollowsStep]_vars
=============================================================================
