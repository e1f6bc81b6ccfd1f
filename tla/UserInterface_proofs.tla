------------------------- MODULE UserInterface_proofs ------------------------
(***************************************************************************)
(* What TLAPS proves of the main window, for every number of messages and    *)
(* changes, and for all message types and values: the display of a message   *)
(* (MsgDisplay), the dialog that edits one (UpdateDialog), the send area     *)
(* (SendArea) and the filter dialog (FilterDialog), as UserInterface          *)
(* composes them; the plug-in dialog has a module of its own                  *)
(* (PluginDialog_proofs).  Only the part that is the subject moves, so each   *)
(* has an invariant under its name: DisplayRuns, EditorRuns, SendRuns,        *)
(* FilterRuns and PluginsRuns.  The records of the dialogs and of the send    *)
(* area have many fields and every call changes few: what a call leaves       *)
(* alone is said by Like and AreaLike, so that the calls can be followed      *)
(* one by one.                                                               *)
(***************************************************************************)
EXTENDS PluginDialog_proofs

-----------------------------------------------------------------------------
(* The display of a message.                                                 *)
Values == DOMAIN Refreshed

Message ==
  [type: {"received", "unsent"}, value: Values, transport: Values \cup {0}, raw: Values,
   info: {"none", "", "j1", "j2", "bad"}, extra: {"", "j1", "j2"}, forced: BOOLEAN]

LEMMA MessageIsPresent == \A m \in Message : m # [type |-> "absent"]
<1> SUFFICES ASSUME NEW m \in Message, m = [type |-> "absent"] PROVE FALSE
  OBVIOUS
<1>1. m.type \in {"received", "unsent"}
  BY DEF Message
<1>2. m.type = "absent"
  OBVIOUS
<1> QED BY <1>1, <1>2

(* Extra information that can be parsed is what is sent; and what derives    *)
(* from the fields agrees with them.                                         *)
InfoKept(m) == m.info \in {"", "j1", "j2"} => m.extra = m.info
Fresh(m) == m.transport = m.value /\ m.raw = m.value /\ Refreshed[m.value] = m.value

LEMMA UpdatedIsFresh ==
  ASSUME NEW m \in Message
  PROVE  /\ Display!Updated(m) \in Message /\ Fresh(Display!Updated(m)) /\ InfoKept(Display!Updated(m))
         /\ Display!Updated(m).type = m.type /\ Display!Updated(m).value = Refreshed[m.value]
         /\ Display!Updated(m).extra = m.extra /\ Display!Updated(m).transport # 0
<1> DEFINE v == Refreshed[m.value]
           i == Display!Info(m)
           u == Display!Updated(m)
<1>1. v \in Values /\ Refreshed[v] = v /\ v # 0
  BY RefreshAssumption DEF Message, Values
<1>2. i \in {"none", "", "j1", "j2"} /\ (i \in {"", "j1", "j2"} => m.extra = i)
  BY DEF Display!Info, Display!None, Message
<1>3. u = [m EXCEPT !.value = v, !.transport = v, !.raw = v, !.info = i]
  BY DEF Display!Updated
<1> HIDE DEF v, i, u
<1>4. u \in Message
  BY <1>1, <1>2, <1>3 DEF Message
<1>5. u.type = m.type /\ u.value = v /\ u.transport = v /\ u.raw = v /\ u.info = i /\ u.extra = m.extra
  BY <1>3 DEF Message
<1>6. Fresh(u) /\ InfoKept(u)
  BY <1>1, <1>2, <1>5 DEF Fresh, InfoKept
<1> QED BY <1>1, <1>4, <1>5, <1>6 DEF u, v

LEMMA NewIsFresh ==
  ASSUME NEW type \in {"received", "unsent"}, NEW value \in Values, NEW extra \in {"", "j1", "j2"},
         NEW forced \in BOOLEAN
  PROVE  /\ Display!New(type, value, extra, forced) \in Message
         /\ Fresh(Display!New(type, value, extra, forced)) /\ InfoKept(Display!New(type, value, extra, forced))
         /\ Display!New(type, value, extra, forced).type = type
         /\ Display!New(type, value, extra, forced).extra = extra
         /\ Display!New(type, value, extra, forced).transport # 0
<1> DEFINE m == [type |-> type, value |-> value, transport |-> value, raw |-> value,
                 info |-> "none", extra |-> extra, forced |-> forced]
<1>1. m \in Message /\ m.type = type /\ m.extra = extra
  BY DEF Message
<1>2. Display!New(type, value, extra, forced) = Display!Updated(m)
  BY DEF Display!New, Display!None
<1> HIDE DEF m
<1> QED BY <1>1, <1>2, UpdatedIsFresh

(* What a message that is there keeps; what a stray display edited need not  *)
(* be fresh.                                                                 *)
Sound(id, m, unfresh) ==
  /\ m \in Message /\ InfoKept(m)
  /\ m.type = "received" <=> id \in Display!Arriving
  /\ m.transport = 0 <=> id = "garbage"
  /\ id \notin unfresh \cup {"garbage"} => Fresh(m)

Stored ==
  /\ DOMAIN msgs = Display!Ids
  /\ \A id \in Display!Ids : msgs[id] = [type |-> "absent"] \/ Sound(id, msgs[id], forgotten)

(* A tree is that of a message that is there, with a pane for its current    *)
(* part; the pane of the fields is up to date, or a display is posted that   *)
(* will make it anew.                                                        *)
TreeForm ==
  /\ tree.of \in Display!Ids /\ msgs[tree.of] \in Message
  /\ tree = [of |-> tree.of, items |-> tree.items, transport |-> tree.transport, raw |-> tree.raw,
             info |-> tree.info, current |-> tree.current]
  /\ tree.items \subseteq {"app", "transport", "raw", "info"} /\ tree.current \in tree.items
  /\ "transport" \in tree.items <=> tree.of # "garbage"
  /\ pane = [part |-> tree.current, value |-> pane.value]

TreeParts ==
  /\ "transport" \in tree.items => tree.transport = msgs[tree.of].transport
  /\ tree.raw = msgs[tree.of].raw
  /\ "info" \in tree.items => tree.info = msgs[tree.of].info

Drawn ==
  /\ tree.of = "none" => pane.part = "none"
  /\ tree.of # "none" =>
       /\ TreeForm
       /\ TreeParts \/ (tree.of = "garbage" /\ tree.raw = 0)
       /\ tree.current # "app" => pane.value = tree[tree.current]
       /\ tree.current = "app" => \/ pane.value = msgs[tree.of].value
                                  \/ \E i \in DOMAIN queued : queued[i] = [msg |-> tree.of, force |-> TRUE]

(* Editing is enabled for what was not sent yet, and but for a stray display *)
(* what is in the tree is the message of the owner and the selected one.     *)
Edited ==
  /\ DOMAIN editing = {"all", "part"}
  /\ shown \in Display!Ids =>
       /\ msgs[shown] \in Message
       /\ editing.all <=> msgs[shown].type = "unsent"
  /\ clicked # "none" => shown \in Display!Ids /\ clicked = shown
  /\ tree.of # "none" =>
       /\ shown \in Display!Ids
       /\ editing.all => msgs[tree.of].type = "unsent"
       /\ editing.part <=> editing.all /\ tree.current \in {"app", "info"}
       /\ ~stray => tree.of = shown /\ (editing.all => clicked = shown)

(* What is posted is for messages that were not sent yet.                    *)
Post == [msg: Display!Ids, force: BOOLEAN]

Posted ==
  /\ queued \in Seq(Post)
  /\ \A i \in DOMAIN queued : msgs[queued[i].msg] \in Message /\ msgs[queued[i].msg].type = "unsent"
  /\ queued # <<>> => shown \in Display!Ids

DisplaySound == Stored /\ Drawn /\ Edited /\ Posted
DisplayRuns == subject = "display" => DisplaySound

(* A display makes a tree for the message, or gives the items of the one     *)
(* there is their new objects.                                               *)
LEMMA DisplayedIs ==
  ASSUME Drawn, Stored', NEW id \in Display!Ids, msgs'[id] \in Message, NEW force, NEW kept,
         Display!DisplaysIn(id, force, kept),
         Display!Short(id, force) =>
           /\ kept = [part |-> "app", value |-> kept.value]
           /\ \/ kept.value = msgs'[id].value
              \/ \E i \in DOMAIN queued' : queued'[i] = [msg |-> id, force |-> TRUE]
  PROVE  Drawn' /\ tree'.of = id /\ tree'.current = "app"
<1> DEFINE m == msgs'[id]
<1>1. /\ m \in Message
      /\ m.transport = 0 <=> id = "garbage"
  <2>1. m = [type |-> "absent"] \/ Sound(id, m, forgotten')
    BY DEF Stored
  <2>2. m \in Message /\ m # [type |-> "absent"]
    BY MessageIsPresent
  <2> QED BY <2>1, <2>2 DEF Sound
<1>2. id # "none"
  BY DEF Display!Ids, Display!Arriving
<1>3. CASE ~Display!Short(id, force)
  <2>1. /\ pane' = [part |-> "app", value |-> m.value]
        /\ tree' = [of |-> id, items |-> Display!Parts(m), transport |-> m.transport, raw |-> m.raw,
                    info |-> m.info, current |-> "app"]
    BY <1>3 DEF Display!DisplaysIn, Display!TreeOf, Display!PaneOf
  <2>2. /\ Display!Parts(m) \subseteq {"app", "transport", "raw", "info"} /\ "app" \in Display!Parts(m)
        /\ "transport" \in Display!Parts(m) <=> id # "garbage"
    BY <1>1 DEF Display!Parts, Display!Nothing
  <2> HIDE DEF m
  <2>3. /\ tree'.of = id /\ tree'.items = Display!Parts(m) /\ tree'.transport = m.transport /\ tree'.raw = m.raw
        /\ tree'.info = m.info /\ tree'.current = "app" /\ pane'.part = "app" /\ pane'.value = m.value
    BY <2>1
  <2>4. /\ tree' = [of |-> tree'.of, items |-> tree'.items, transport |-> tree'.transport, raw |-> tree'.raw,
                    info |-> tree'.info, current |-> tree'.current]
        /\ pane' = [part |-> tree'.current, value |-> pane'.value]
    BY <2>1, <2>3
  <2>5. TreeForm'
    BY <1>1, <2>2, <2>3, <2>4 DEF TreeForm, m
  <2>6. TreeParts'
    BY <2>3 DEF TreeParts, m
  <2> QED BY <1>2, <2>3, <2>5, <2>6 DEF Drawn, m
<1>4. CASE Display!Short(id, force)
  <2>1. tree.of = id /\ tree.current = "app" /\ pane' = kept /\ tree' = Display!Retold(m)
    BY <1>4 DEF Display!Short, Display!DisplaysIn
  <2>2. TreeForm
    BY <1>2, <2>1 DEF Drawn
  <2>3. CASE "transport" \in tree.items
    <3>1. tree' = [tree EXCEPT !.transport = m.transport, !.raw = m.raw,
                               !.info = IF "info" \in tree.items THEN m.info ELSE @]
      BY <2>1, <2>3 DEF Display!Retold
    <3> HIDE DEF m
    <3>2. /\ tree' = [of |-> id, items |-> tree.items, transport |-> m.transport, raw |-> m.raw,
                      info |-> IF "info" \in tree.items THEN m.info ELSE tree.info, current |-> "app"]
      BY <2>1, <2>2, <3>1 DEF TreeForm
    <3>3. /\ tree'.of = id /\ tree'.items = tree.items /\ tree'.transport = m.transport /\ tree'.raw = m.raw
          /\ "info" \in tree.items => tree'.info = m.info
          /\ tree'.current = "app"
          /\ tree' = [of |-> tree'.of, items |-> tree'.items, transport |-> tree'.transport, raw |-> tree'.raw,
                      info |-> tree'.info, current |-> tree'.current]
      BY <3>2
    <3>4. TreeForm'
      BY <1>1, <1>4, <2>1, <2>2, <3>3 DEF TreeForm, m
    <3>5. TreeParts'
      BY <3>3 DEF TreeParts, m
    <3> QED BY <1>2, <1>4, <2>1, <3>3, <3>4, <3>5 DEF Drawn, m
  <2>4. CASE "transport" \notin tree.items
    <3>1. tree' = [tree EXCEPT !.raw = m.transport, !.info = m.raw]
      BY <2>1, <2>4 DEF Display!Retold
    <3>2. id = "garbage" /\ m.transport = 0
      BY <1>1, <2>1, <2>2, <2>4 DEF TreeForm
    <3> HIDE DEF m
    <3>3. /\ tree' = [of |-> id, items |-> tree.items, transport |-> tree.transport, raw |-> m.transport,
                      info |-> m.raw, current |-> "app"]
      BY <2>1, <2>2, <3>1 DEF TreeForm
    <3>4. /\ tree'.of = id /\ tree'.items = tree.items /\ tree'.raw = 0 /\ tree'.current = "app"
          /\ tree' = [of |-> tree'.of, items |-> tree'.items, transport |-> tree'.transport, raw |-> tree'.raw,
                      info |-> tree'.info, current |-> tree'.current]
      BY <3>2, <3>3
    <3>5. TreeForm'
      BY <1>1, <1>4, <2>1, <2>2, <3>4 DEF TreeForm, m
    <3> QED BY <1>2, <1>4, <2>1, <3>2, <3>4, <3>5 DEF Drawn, m
  <2> QED BY <2>3, <2>4
<1> QED BY <1>3, <1>4

LEMMA OwnedIs ==
  ASSUME NEW id \in Display!Ids, NEW force, NEW kept, Display!Displays(id, force, kept), msgs'[id] \in Message,
         tree'.of = id, tree'.current = "app",
         clicked' # "none" => clicked' = id, msgs'[id].type = "unsent" => clicked' = id
  PROVE  Edited' /\ shown' = id
<1> DEFINE m == msgs'[id]
<1>1. shown' = id /\ ~stray' /\ editing' = [all |-> m.type = "unsent", part |-> m.type = "unsent"]
  BY DEF Display!Displays
<1>2. DOMAIN editing' = {"all", "part"} /\ (editing'.all <=> m.type = "unsent") /\ (editing'.part <=> m.type = "unsent")
  BY <1>1
<1> QED BY <1>1, <1>2 DEF Edited

(* While nothing is posted or removed.                                       *)
LEMMA PostedStays ==
  ASSUME Posted, queued' = queued, shown' \in Display!Ids \/ shown' = shown,
         \A id \in Display!Ids : msgs[id] \in Message => msgs'[id] \in Message /\ msgs'[id].type = msgs[id].type
  PROVE  Posted'
<1>1. ASSUME NEW i \in DOMAIN queued PROVE queued[i].msg \in Display!Ids
  <2>1. queued \in Seq(Post)
    BY DEF Posted
  <2>2. queued[i] \in Post
    BY <2>1
  <2> QED BY <2>2 DEF Post
<1> QED BY <1>1 DEF Posted

(* Nothing is posted.                                                        *)
LEMMA NothingPosted == ASSUME queued = <<>> PROVE Posted
<1>1. queued \in Seq(Post)
  OBVIOUS
<1>2. Len(queued) = 0
  OBVIOUS
<1>3. \A i \in DOMAIN queued : FALSE
  BY <1>1, <1>2
<1> QED BY <1>1, <1>3, Zenon DEF Posted

LEMMA DisplayInit == Init => DisplayRuns
<1> SUFFICES ASSUME Init PROVE DisplaySound
  BY DEF DisplayRuns
<1>1. PICK v \in Values, extra \in {"", "j1", "j2"} :
        msgs = [id \in Display!Ids |-> IF id = "loaded" THEN Display!New("unsent", v, extra, FALSE)
                                       ELSE Display!NoMessage]
  BY DEF Init, Display!Init, Display!Values, Display!Maps, Values
<1>2. /\ Display!New("unsent", v, extra, FALSE) \in Message /\ Fresh(Display!New("unsent", v, extra, FALSE))
      /\ InfoKept(Display!New("unsent", v, extra, FALSE)) /\ Display!New("unsent", v, extra, FALSE).type = "unsent"
      /\ Display!New("unsent", v, extra, FALSE).transport # 0
  BY NewIsFresh
<1> HIDE DEF Display!New
<1>3. Stored
  <2>1. /\ DOMAIN msgs = Display!Ids /\ msgs["loaded"] = Display!New("unsent", v, extra, FALSE)
        /\ \A id \in Display!Ids : id # "loaded" => msgs[id] = [type |-> "absent"]
    BY <1>1 DEF Display!Ids, Display!NoMessage
  <2>2. Sound("loaded", Display!New("unsent", v, extra, FALSE), forgotten)
    BY <1>2 DEF Sound, Display!Arriving
  <2> QED BY <2>1, <2>2 DEF Stored
<1>4. /\ tree = [of |-> "none"] /\ pane = [part |-> "none"] /\ queued = <<>> /\ shown = "none" /\ clicked = "none"
      /\ editing = [all |-> FALSE, part |-> FALSE]
  BY DEF Init, Display!Init, Display!NoTree, Display!NoPane, Display!None
<1>5. "none" \notin Display!Ids
  BY DEF Display!Ids, Display!Arriving
<1>6. Drawn
  BY <1>4 DEF Drawn
<1>7. Edited
  BY <1>4, <1>5 DEF Edited
<1>8. Posted
  BY <1>4, NothingPosted
<1> QED BY <1>3, <1>6, <1>7, <1>8 DEF DisplaySound

LEMMA ArriveKeeps ==
  ASSUME DisplaySound, NEW id \in Display!Arriving, NEW extra \in {"", "j1"}, Display!Arrive(id, extra)
  PROVE  DisplaySound'
<1> DEFINE m == IF id = "garbage" THEN Display!Garbage(extra) ELSE Display!New("received", 1, extra, FALSE)
<1>1. /\ msgs' = [msgs EXCEPT ![id] = m] /\ ~Display!Present(id)
      /\ (clicked = "none" /\ Display!Displays(id, FALSE, pane)) \/ UNCHANGED <<shown, tree, pane, editing, stray>>
      /\ UNCHANGED <<clicked, queued, forgotten>>
  BY DEF Display!Arrive, Display!None
<1>2. id \in Display!Ids
  BY DEF Display!Ids
<1>3. Sound(id, m, forgotten)
  <2>1. 1 \in Values
    BY RefreshAssumption DEF Values
  <2>2. CASE id # "garbage"
    <3>1. m = Display!New("received", 1, extra, FALSE)
      BY <2>2
    <3> HIDE DEF m
    <3>2. m \in Message /\ Fresh(m) /\ InfoKept(m) /\ m.type = "received" /\ m.transport # 0
      BY <2>1, <3>1, NewIsFresh
    <3> QED BY <2>2, <3>2 DEF Sound
  <2>3. CASE id = "garbage"
    <3>1. m = [type |-> "received", value |-> 1, transport |-> 0, raw |-> 1,
               info |-> IF extra = "" THEN "none" ELSE extra, extra |-> extra, forced |-> FALSE]
      BY <2>3 DEF Display!Garbage, Display!Nothing, Display!None
    <3> HIDE DEF m
    <3>2. m \in Message /\ InfoKept(m) /\ m.type = "received" /\ m.transport = 0
      BY <2>1, <3>1 DEF Message, InfoKept
    <3> QED BY <2>3, <3>2 DEF Sound
  <2> QED BY <2>2, <2>3
<1> HIDE DEF m
<1>4. m \in Message /\ m.type = "received"
  BY <1>3 DEF Sound
<1>5. /\ DOMAIN msgs' = Display!Ids /\ msgs'[id] = m
      /\ \A i \in Display!Ids : i # id => msgs'[i] = msgs[i]
      /\ msgs[id] \notin Message
  <2>1. msgs[id] = [type |-> "absent"] \/ msgs[id].type = "absent"
    BY <1>1 DEF Display!Present
  <2> QED BY <1>1, <1>2, <2>1 DEF DisplaySound, Stored, Message
<1>6. Stored'
  BY <1>1, <1>2, <1>3, <1>5 DEF DisplaySound, Stored
<1>7. \A i \in Display!Ids : msgs[i] \in Message => msgs'[i] = msgs[i]
  BY <1>5
<1>8. CASE clicked = "none" /\ Display!Displays(id, FALSE, pane)
  <2>1. tree.of # id
    BY <1>2, <1>5 DEF DisplaySound, Drawn, TreeForm, Display!Ids, Display!Arriving
  <2>2. ~Display!Short(id, FALSE)
    BY <2>1 DEF Display!Short
  <2>3. Display!DisplaysIn(id, FALSE, pane)
    BY <1>8 DEF Display!Displays
  <2>4. Drawn' /\ tree'.of = id /\ tree'.current = "app"
    BY <1>2, <1>4, <1>5, <1>6, <2>2, <2>3, DisplayedIs DEF DisplaySound
  <2>5. clicked' = "none" /\ msgs'[id].type # "unsent"
    BY <1>1, <1>4, <1>5, <1>8
  <2>6. Edited' /\ shown' = id
    BY <1>2, <1>4, <1>5, <1>8, <2>4, <2>5, OwnedIs
  <2>7. Posted'
    BY <1>1, <1>2, <1>7, <2>6, PostedStays DEF DisplaySound
  <2> QED BY <1>6, <2>4, <2>6, <2>7 DEF DisplaySound
<1>9. CASE UNCHANGED <<shown, tree, pane, editing, stray>>
  <2>1. tree.of # "none" => msgs'[tree.of] = msgs[tree.of]
    BY <1>7 DEF DisplaySound, Drawn, TreeForm
  <2>2. shown \in Display!Ids => msgs'[shown] = msgs[shown]
    BY <1>7 DEF DisplaySound, Edited
  <2>3. Drawn'
    BY <1>1, <1>9, <2>1 DEF DisplaySound, Drawn, TreeForm, TreeParts
  <2>4. Edited'
    BY <1>1, <1>9, <2>1, <2>2 DEF DisplaySound, Edited
  <2>5. Posted'
    BY <1>1, <1>7, <1>9, PostedStays DEF DisplaySound
  <2> QED BY <1>6, <2>3, <2>4, <2>5 DEF DisplaySound
<1> QED BY <1>1, <1>8, <1>9

LEMMA DisplayKeeps ==
  ASSUME DisplaySound, NEW id \in Display!Ids, Display!Display(id)
  PROVE  DisplaySound'
<1>1. /\ msgs' = msgs /\ Display!Present(id) /\ clicked' = id /\ Display!Displays(id, FALSE, pane)
      /\ queued' = queued /\ forgotten' = forgotten
  BY DEF Display!Display
<1>2. msgs'[id] \in Message
  BY <1>1 DEF DisplaySound, Stored, Sound, Display!Present
<1>3. Stored'
  BY <1>1 DEF DisplaySound, Stored
<1>4. Display!Short(id, FALSE) =>
        /\ pane = [part |-> "app", value |-> pane.value]
        /\ \/ pane.value = msgs'[id].value
           \/ \E i \in DOMAIN queued' : queued'[i] = [msg |-> id, force |-> TRUE]
  <2> SUFFICES ASSUME Display!Short(id, FALSE)
               PROVE  /\ pane = [part |-> "app", value |-> pane.value]
                      /\ \/ pane.value = msgs'[id].value
                         \/ \E i \in DOMAIN queued' : queued'[i] = [msg |-> id, force |-> TRUE]
    OBVIOUS
  <2>1. tree.of = id /\ tree.current = "app" /\ tree.of # "none"
    BY DEF Display!Short, Display!Ids, Display!Arriving
  <2> QED BY <1>1, <2>1 DEF DisplaySound, Drawn, TreeForm
<1>5. Drawn' /\ tree'.of = id /\ tree'.current = "app"
  <2>1. Display!DisplaysIn(id, FALSE, pane)
    BY <1>1 DEF Display!Displays
  <2> QED BY <1>2, <1>3, <1>4, <2>1, DisplayedIs DEF DisplaySound
<1>6. Edited' /\ shown' = id
  BY <1>1, <1>2, <1>5, OwnedIs
<1>7. Posted'
  BY <1>1, <1>6, PostedStays DEF DisplaySound
<1> QED BY <1>3, <1>5, <1>6, <1>7 DEF DisplaySound

LEMMA ClearDisplayKeeps ==
  ASSUME DisplaySound, Display!ClearDisplay
  PROVE  DisplaySound'
<1>1. /\ tree' = [of |-> "none"] /\ pane' = [part |-> "none"] /\ clicked' = "none"
      /\ UNCHANGED <<msgs, shown, editing, queued, forgotten>>
  BY DEF Display!ClearDisplay, Display!NoTree, Display!NoPane, Display!None
<1>2. Stored'
  BY <1>1 DEF DisplaySound, Stored
<1>3. Drawn'
  BY <1>1 DEF Drawn
<1>4. Edited'
  BY <1>1 DEF DisplaySound, Edited
<1>5. Posted'
  BY <1>1 DEF DisplaySound, Posted
<1> QED BY <1>2, <1>3, <1>4, <1>5 DEF DisplaySound

LEMMA SelectKeeps ==
  ASSUME DisplaySound, NEW part \in {"app", "transport", "raw", "info"}, Display!SelectItem(part)
  PROVE  DisplaySound'
<1>1. /\ tree.of # "none" /\ part \in tree.items
      /\ UNCHANGED <<msgs, clicked, shown, queued, stray, forgotten>>
      /\ tree' = [tree EXCEPT !.current = part]
      /\ pane' = IF part = "app" THEN [part |-> "app", value |-> msgs[tree.of].value]
                 ELSE [part |-> part, value |-> tree[part]]
      /\ editing' = [editing EXCEPT !.part = editing.all /\ part \in {"app", "info"}]
  BY DEF Display!SelectItem, Display!PaneOf, Display!None
<1>2. TreeForm /\ (TreeParts \/ (tree.of = "garbage" /\ tree.raw = 0))
  BY <1>1 DEF DisplaySound, Drawn
<1>3. tree' = [of |-> tree.of, items |-> tree.items, transport |-> tree.transport, raw |-> tree.raw,
               info |-> tree.info, current |-> part]
  BY <1>1, <1>2 DEF TreeForm
<1>4. /\ tree'.of = tree.of /\ tree'.items = tree.items /\ tree'.transport = tree.transport
      /\ tree'.raw = tree.raw /\ tree'.info = tree.info /\ tree'.current = part
  BY <1>3
<1>5. /\ tree' = [of |-> tree'.of, items |-> tree'.items, transport |-> tree'.transport, raw |-> tree'.raw,
                  info |-> tree'.info, current |-> tree'.current]
      /\ pane' = [part |-> tree'.current, value |-> pane'.value]
      /\ part = "app" => pane'.value = msgs[tree.of].value
  BY <1>1, <1>3, <1>4
<1>6. part # "app" => pane'.value = tree'[part]
  <2>1. part # "app" => pane'.value = tree[part]
    BY <1>1
  <2>2. part # "app" => tree[part] = tree'[part]
    BY <1>2, <1>3 DEF TreeForm
  <2> QED BY <2>1, <2>2
<1>7. Stored'
  BY <1>1 DEF DisplaySound, Stored
<1>8. Drawn'
  <2>1. TreeForm'
    BY <1>1, <1>2, <1>4, <1>5 DEF TreeForm
  <2>2. TreeParts' \/ (tree'.of = "garbage" /\ tree'.raw = 0)
    BY <1>1, <1>2, <1>4 DEF TreeParts
  <2> QED BY <1>1, <1>4, <1>5, <1>6, <2>1, <2>2 DEF Drawn
<1>9. Edited'
  <2>1. DOMAIN editing = {"all", "part"}
    BY DEF DisplaySound, Edited
  <2>2. /\ DOMAIN editing' = {"all", "part"} /\ (editing'.all <=> editing.all)
        /\ editing'.part <=> editing.all /\ part \in {"app", "info"}
    BY <1>1, <2>1, Zenon
  <2> QED BY <1>1, <1>4, <2>2 DEF DisplaySound, Edited
<1>10. Posted'
  BY <1>1 DEF DisplaySound, Posted
<1> QED BY <1>7, <1>8, <1>9, <1>10 DEF DisplaySound

LEMMA EditFieldKeeps ==
  ASSUME DisplaySound, NEW v \in Values, Display!EditField(v)
  PROVE  DisplaySound'
<1> DEFINE edited == [msgs EXCEPT ![tree.of].value = v]
           m == edited[shown]
           u == Display!Updated(m)
           f == Refreshed[m.value] # m.value
<1>1. /\ pane.part = "app" /\ editing.part /\ clicked # "none"
      /\ msgs' = [edited EXCEPT ![shown] = u]
      /\ queued' = Append(queued, [msg |-> shown, force |-> f])
      /\ clicked' = shown /\ Display!Displays(shown, FALSE, [pane EXCEPT !.value = v])
      /\ forgotten' = (forgotten \cup {tree.of}) \ {shown}
  BY DEF Display!EditField, Display!Changed, Display!None
<1>2. /\ tree.of # "none" /\ TreeForm /\ tree.current = "app"
  BY <1>1 DEF DisplaySound, Drawn, TreeForm
<1>3. /\ shown \in Display!Ids /\ msgs[shown] \in Message /\ msgs[shown].type = "unsent"
      /\ tree.of \in Display!Ids /\ msgs[tree.of] \in Message /\ msgs[tree.of].type = "unsent"
  BY <1>1, <1>2 DEF DisplaySound, Edited, TreeForm
<1>4. Sound(shown, msgs[shown], forgotten) /\ Sound(tree.of, msgs[tree.of], forgotten)
  BY <1>3, MessageIsPresent DEF DisplaySound, Stored
<1>5. shown \notin Display!Arriving /\ tree.of \notin Display!Arriving
  BY <1>3, <1>4 DEF Sound
<1>6. /\ DOMAIN edited = Display!Ids /\ edited[tree.of] = [msgs[tree.of] EXCEPT !.value = v]
      /\ \A id \in Display!Ids : id # tree.of => edited[id] = msgs[id]
  BY <1>3 DEF DisplaySound, Stored
<1> HIDE DEF edited
<1>7. /\ edited[tree.of] \in Message /\ edited[tree.of].type = msgs[tree.of].type /\ edited[tree.of].value = v
      /\ edited[tree.of].transport = msgs[tree.of].transport /\ edited[tree.of].info = msgs[tree.of].info
      /\ edited[tree.of].extra = msgs[tree.of].extra
  BY <1>3, <1>6 DEF Message
<1>8. m \in Message /\ m.type = "unsent"
  BY <1>3, <1>6, <1>7
<1>9. u \in Message /\ u.type = "unsent" /\ Fresh(u) /\ InfoKept(u) /\ u.transport # 0 /\ u.value = Refreshed[m.value]
  BY <1>8, UpdatedIsFresh
<1> HIDE DEF u, m
<1>10. /\ DOMAIN msgs' = Display!Ids /\ msgs'[shown] = u
       /\ \A id \in Display!Ids : id # shown => msgs'[id] = edited[id]
  BY <1>1, <1>3, <1>6
<1>11. Sound(shown, u, forgotten')
  BY <1>4, <1>5, <1>9 DEF Sound, Display!Arriving
<1>12. Stored'
  <2> SUFFICES ASSUME NEW id \in Display!Ids, id # shown, msgs[id] # [type |-> "absent"]
               PROVE  Sound(id, msgs'[id], forgotten')
    <3>1. \A id \in Display!Ids :
            id # shown /\ msgs[id] = [type |-> "absent"] => msgs'[id] = [type |-> "absent"]
      BY <1>3, <1>6, <1>10, MessageIsPresent
    <3> QED BY <1>10, <1>11, <3>1 DEF Stored
  <2>1. CASE id # tree.of
    <3>1. msgs'[id] = msgs[id] /\ Sound(id, msgs[id], forgotten)
      BY <1>6, <1>10, <2>1 DEF DisplaySound, Stored
    <3>2. id \in forgotten => id \in forgotten'
      BY <1>1
    <3> QED BY <3>1, <3>2 DEF Sound
  <2>2. CASE id = tree.of
    <3>1. msgs'[id] = edited[tree.of] /\ id \in forgotten'
      BY <1>1, <1>10, <2>2
    <3>2. InfoKept(edited[tree.of])
      BY <1>4, <1>7 DEF Sound, InfoKept
    <3> QED BY <1>4, <1>7, <2>2, <3>1, <3>2 DEF Sound
  <2> QED BY <2>1, <2>2
<1>13. \A id \in Display!Ids : msgs[id] \in Message => msgs'[id] \in Message /\ msgs'[id].type = msgs[id].type
  BY <1>3, <1>6, <1>7, <1>9, <1>10
<1>14. queued \in Seq(Post) /\ [msg |-> shown, force |-> f] \in Post
  BY <1>3 DEF DisplaySound, Posted, Post
<1> DEFINE q == [msg |-> shown, force |-> f]
<1>15. q.msg = shown /\ (f => q = [msg |-> shown, force |-> TRUE])
  OBVIOUS
<1> HIDE DEF q, f
<1>16. /\ queued' = Append(queued, q) /\ q \in Post
  BY <1>1, <1>14 DEF q
<1>17. /\ queued' \in Seq(Post)
       /\ DOMAIN queued' = 1 .. Len(queued) + 1 /\ Len(queued) \in Nat /\ DOMAIN queued = 1 .. Len(queued)
       /\ queued'[Len(queued) + 1] = q
       /\ \A i \in 1 .. Len(queued) : queued'[i] = queued[i]
  BY <1>14, <1>16
<1>18. Display!Short(shown, FALSE) =>
         /\ [pane EXCEPT !.value = v] = [part |-> "app", value |-> [pane EXCEPT !.value = v].value]
         /\ \/ [pane EXCEPT !.value = v].value = msgs'[shown].value
            \/ \E i \in DOMAIN queued' : queued'[i] = [msg |-> shown, force |-> TRUE]
  <2> SUFFICES ASSUME Display!Short(shown, FALSE)
               PROVE  /\ [pane EXCEPT !.value = v] = [part |-> "app", value |-> [pane EXCEPT !.value = v].value]
                      /\ \/ [pane EXCEPT !.value = v].value = msgs'[shown].value
                         \/ \E i \in DOMAIN queued' : queued'[i] = [msg |-> shown, force |-> TRUE]
    OBVIOUS
  <2>1. tree.of = shown
    BY DEF Display!Short
  <2>2. [pane EXCEPT !.value = v] = [part |-> "app", value |-> v]
    BY <1>2 DEF TreeForm
  <2>3. m.value = v /\ msgs'[shown].value = Refreshed[v]
    BY <1>7, <1>9, <1>10, <2>1 DEF m
  <2>4. f => \E i \in DOMAIN queued' : queued'[i] = [msg |-> shown, force |-> TRUE]
    <3>1. Len(queued) + 1 \in DOMAIN queued'
      BY <1>17
    <3> QED BY <1>15, <1>17, <3>1
  <2>5. ~f => Refreshed[v] = v
    BY <2>3 DEF f
  <2> QED BY <2>2, <2>3, <2>4, <2>5
<1>19. Drawn' /\ tree'.of = shown /\ tree'.current = "app"
  <2> DEFINE kept == [pane EXCEPT !.value = v]
  <2>1. Display!DisplaysIn(shown, FALSE, kept)
    BY <1>1 DEF Display!Displays
  <2>2. Display!Short(shown, FALSE) =>
          /\ kept = [part |-> "app", value |-> kept.value]
          /\ \/ kept.value = msgs'[shown].value
             \/ \E i \in DOMAIN queued' : queued'[i] = [msg |-> shown, force |-> TRUE]
    BY <1>18
  <2> HIDE DEF kept
  <2> QED BY <1>3, <1>9, <1>10, <1>12, <2>1, <2>2, DisplayedIs DEF DisplaySound
<1>20. Edited' /\ shown' = shown
  BY <1>1, <1>3, <1>9, <1>10, <1>19, OwnedIs
<1>21. Posted'
  <2> SUFFICES ASSUME NEW i \in DOMAIN queued'
               PROVE  msgs'[queued'[i].msg] \in Message /\ msgs'[queued'[i].msg].type = "unsent"
    BY <1>3, <1>17, <1>20 DEF Posted
  <2>1. CASE i = Len(queued) + 1
    BY <1>9, <1>10, <1>15, <1>17, <2>1
  <2>2. CASE i # Len(queued) + 1
    <3>1. i \in DOMAIN queued /\ queued'[i] = queued[i]
      BY <1>17, <2>2
    <3>2. queued[i] \in Post
      BY <1>14, <3>1
    <3>3. queued[i].msg \in Display!Ids
      BY <3>2 DEF Post
    <3>4. msgs[queued[i].msg] \in Message /\ msgs[queued[i].msg].type = "unsent"
      BY <3>1 DEF DisplaySound, Posted
    <3> QED BY <1>13, <3>1, <3>3, <3>4
  <2> QED BY <2>1, <2>2
<1> QED BY <1>12, <1>19, <1>20, <1>21 DEF DisplaySound

LEMMA EditInfoKeeps ==
  ASSUME DisplaySound, NEW text \in Display!Texts, Display!EditInfo(text)
  PROVE  DisplaySound'
<1> DEFINE e == IF text = "bad" THEN msgs[tree.of].extra ELSE text
           u == [msgs[tree.of] EXCEPT !.info = text, !.extra = e]
<1>1. /\ pane.part = "info" /\ editing.part /\ UNCHANGED <<clicked, shown, editing, queued, stray, forgotten>>
      /\ msgs' = [msgs EXCEPT ![tree.of].info = text,
                              ![tree.of].extra = IF text = "bad" THEN @ ELSE Display!MapOf(text)]
      /\ tree' = [tree EXCEPT !.info = text] /\ pane' = [pane EXCEPT !.value = text]
  BY DEF Display!EditInfo
<1>2. tree.of # "none" /\ TreeForm /\ tree.current = "info"
  BY <1>1 DEF DisplaySound, Drawn, TreeForm
<1>3. tree.of \in Display!Ids /\ msgs[tree.of] \in Message /\ msgs[tree.of].type = "unsent"
  BY <1>1, <1>2 DEF DisplaySound, Edited, TreeForm
<1>4. Sound(tree.of, msgs[tree.of], forgotten)
  BY <1>3, MessageIsPresent DEF DisplaySound, Stored
<1>5. tree.of \notin Display!Arriving
  BY <1>3, <1>4 DEF Sound
<1>6. msgs' = [msgs EXCEPT ![tree.of] = u]
  <2>1. text # "bad" => Display!MapOf(text) = text
    BY DEF Display!MapOf
  <2> HIDE DEF Display!MapOf
  <2> QED BY <1>1, <1>3, <2>1 DEF DisplaySound, Stored
<1>7. text \in {"", "j1", "j2", "bad"} /\ e \in {"", "j1", "j2"} /\ (text \in {"", "j1", "j2"} => e = text)
  BY <1>3 DEF Display!Texts, Display!Maps, Message
<1> HIDE DEF e
<1>8. /\ u \in Message /\ u.type = "unsent" /\ u.value = msgs[tree.of].value
      /\ u.transport = msgs[tree.of].transport /\ u.raw = msgs[tree.of].raw /\ u.info = text /\ u.extra = e
  BY <1>3, <1>7 DEF Message
<1> HIDE DEF u
<1>9. Sound(tree.of, u, forgotten)
  BY <1>4, <1>5, <1>7, <1>8 DEF Sound, InfoKept, Fresh, Display!Arriving
<1>10. /\ DOMAIN msgs' = Display!Ids /\ msgs'[tree.of] = u
       /\ \A id \in Display!Ids : id # tree.of => msgs'[id] = msgs[id]
  BY <1>3, <1>6 DEF DisplaySound, Stored
<1>11. Stored'
  BY <1>1, <1>3, <1>9, <1>10 DEF DisplaySound, Stored
<1>12. \A id \in Display!Ids : msgs[id] \in Message => msgs'[id] \in Message /\ msgs'[id].type = msgs[id].type
  BY <1>3, <1>8, <1>10
<1>13. /\ tree' = [of |-> tree.of, items |-> tree.items, transport |-> tree.transport, raw |-> tree.raw,
                   info |-> text, current |-> "info"]
       /\ pane' = [part |-> "info", value |-> text]
  BY <1>1, <1>2 DEF TreeForm
<1>14. /\ tree'.of = tree.of /\ tree'.items = tree.items /\ tree'.transport = tree.transport
       /\ tree'.raw = tree.raw /\ tree'.info = text /\ tree'.current = "info" /\ pane'.value = text
  BY <1>13
<1>15. /\ tree' = [of |-> tree'.of, items |-> tree'.items, transport |-> tree'.transport, raw |-> tree'.raw,
                   info |-> tree'.info, current |-> tree'.current]
       /\ pane' = [part |-> tree'.current, value |-> pane'.value] /\ pane'.value = tree'[tree'.current]
  BY <1>13, <1>14
<1>16. Drawn'
  <2>1. TreeForm'
    BY <1>2, <1>8, <1>10, <1>14, <1>15 DEF TreeForm
  <2>2. TreeParts
    BY <1>2, <1>5 DEF DisplaySound, Drawn, Display!Arriving
  <2>3. TreeParts'
    BY <1>8, <1>10, <1>14, <2>2 DEF TreeParts
  <2> QED BY <1>2, <1>14, <1>15, <2>1, <2>3 DEF Drawn
<1>17. Edited'
  BY <1>1, <1>2, <1>3, <1>12, <1>14 DEF DisplaySound, Edited
<1>18. Posted'
  BY <1>1, <1>12, PostedStays DEF DisplaySound
<1> QED BY <1>11, <1>16, <1>17, <1>18 DEF DisplaySound

LEMMA PostponedKeeps ==
  ASSUME DisplaySound, Display!Postponed
  PROVE  DisplaySound'
<1> DEFINE q == Head(queued)
<1>1. /\ queued # <<>> /\ queued' = Tail(queued) /\ Display!DisplaysIn(q.msg, q.force, pane)
      /\ editing' = IF Display!Short(q.msg, q.force) THEN editing ELSE [editing EXCEPT !.part = editing.all]
      /\ stray' = (q.msg # clicked) /\ UNCHANGED <<msgs, clicked, shown, forgotten>>
  BY DEF Display!Postponed
<1>2. queued \in Seq(Post)
  BY DEF DisplaySound, Posted
<1>3. /\ q = queued[1] /\ q \in Post /\ 1 \in DOMAIN queued /\ Tail(queued) \in Seq(Post)
      /\ \A i \in DOMAIN queued : i # 1 => i - 1 \in DOMAIN Tail(queued) /\ Tail(queued)[i - 1] = queued[i]
      /\ \A i \in DOMAIN Tail(queued) : i + 1 \in DOMAIN queued /\ Tail(queued)[i] = queued[i + 1]
  BY <1>1, <1>2
<1> HIDE DEF q
<1>4. q.msg \in Display!Ids /\ msgs[q.msg] \in Message /\ msgs[q.msg].type = "unsent" /\ shown \in Display!Ids
  BY <1>1, <1>3 DEF DisplaySound, Posted, Post
<1>5. Stored'
  BY <1>1 DEF DisplaySound, Stored
<1>6. "none" \notin Display!Ids
  BY DEF Display!Ids, Display!Arriving
<1>7. Display!Short(q.msg, q.force) =>
        /\ pane = [part |-> "app", value |-> pane.value]
        /\ \/ pane.value = msgs'[q.msg].value
           \/ \E i \in DOMAIN queued' : queued'[i] = [msg |-> q.msg, force |-> TRUE]
  <2> SUFFICES ASSUME Display!Short(q.msg, q.force), pane.value # msgs[q.msg].value
               PROVE  /\ pane = [part |-> "app", value |-> pane.value]
                      /\ \E i \in DOMAIN queued' : queued'[i] = [msg |-> q.msg, force |-> TRUE]
    <3>1. Display!Short(q.msg, q.force) => pane = [part |-> "app", value |-> pane.value]
      BY <1>4, <1>6 DEF DisplaySound, Drawn, TreeForm, Display!Short
    <3> QED BY <1>1, <3>1
  <2>1. tree.of = q.msg /\ tree.current = "app" /\ ~q.force
    BY DEF Display!Short
  <2>2. pane = [part |-> "app", value |-> pane.value]
    BY <1>4, <1>6, <2>1 DEF DisplaySound, Drawn, TreeForm
  <2>3. PICK i \in DOMAIN queued : queued[i] = [msg |-> q.msg, force |-> TRUE]
    BY <1>4, <1>6, <2>1 DEF DisplaySound, Drawn
  <2>4. i # 1
    BY <1>3, <2>1, <2>3
  <2>5. i - 1 \in DOMAIN Tail(queued) /\ Tail(queued)[i - 1] = [msg |-> q.msg, force |-> TRUE]
    BY <1>3, <2>3, <2>4
  <2>6. queued' = Tail(queued)
    BY <1>1
  <2> QED BY <2>2, <2>5, <2>6
<1>8. Drawn' /\ tree'.of = q.msg /\ tree'.current = "app"
  <2> DEFINE id == q.msg
             force == q.force
  <2>1. /\ id \in Display!Ids /\ msgs'[id] \in Message /\ Display!DisplaysIn(id, force, pane)
        /\ Display!Short(id, force) =>
             /\ pane = [part |-> "app", value |-> pane.value]
             /\ \/ pane.value = msgs'[id].value
                \/ \E i \in DOMAIN queued' : queued'[i] = [msg |-> id, force |-> TRUE]
    BY <1>1, <1>4, <1>7
  <2>2. id = q.msg
    OBVIOUS
  <2> HIDE DEF id, force
  <2>3. Drawn' /\ tree'.of = id /\ tree'.current = "app"
    BY <1>5, <2>1, DisplayedIs DEF DisplaySound
  <2> QED BY <2>2, <2>3
<1>9. Edited'
  <2>1. DOMAIN editing = {"all", "part"}
    BY DEF DisplaySound, Edited
  <2>2. /\ DOMAIN editing' = {"all", "part"} /\ (editing'.all <=> editing.all)
        /\ editing'.part <=> editing.all
    <3>1. CASE Display!Short(q.msg, q.force)
      <4>1. tree.of = q.msg /\ tree.current = "app"
        BY <3>1 DEF Display!Short
      <4>2. editing.part <=> editing.all
        BY <1>4, <1>6, <4>1 DEF DisplaySound, Edited
      <4>3. editing' = editing
        BY <1>1, <3>1
      <4> QED BY <2>1, <4>2, <4>3, Zenon
    <3>2. CASE ~Display!Short(q.msg, q.force)
      <4>1. editing' = [editing EXCEPT !.part = editing.all]
        BY <1>1, <3>2
      <4> QED BY <2>1, <4>1, Zenon
    <3> QED BY <3>1, <3>2
  <2>3. ~stray' => q.msg = clicked /\ clicked = shown
    BY <1>1, <1>4, <1>6 DEF DisplaySound, Edited
  <2> QED BY <1>1, <1>4, <1>8, <2>2, <2>3 DEF DisplaySound, Edited
<1>10. Posted'
  BY <1>1, <1>3, <1>4 DEF DisplaySound, Posted
<1> QED BY <1>5, <1>8, <1>9, <1>10 DEF DisplaySound

(* A display of a message that is new, or has taken the place of another.    *)
LEMMA FreshIsDisplayed ==
  ASSUME DisplaySound, Stored', NEW id \in Display!Ids, Display!Displays(id, FALSE, pane),
         msgs[id] \notin Message, msgs'[id] \in Message, clicked' = id, Posted'
  PROVE  DisplaySound'
<1>1. tree.of # id
  BY DEF DisplaySound, Drawn, TreeForm, Display!Ids, Display!Arriving
<1>2. ~Display!Short(id, FALSE) /\ Display!DisplaysIn(id, FALSE, pane)
  BY <1>1 DEF Display!Short, Display!Displays
<1>3. Drawn' /\ tree'.of = id /\ tree'.current = "app"
  BY <1>2, DisplayedIs DEF DisplaySound
<1>4. Edited'
  BY <1>3, OwnedIs
<1> QED BY <1>3, <1>4 DEF DisplaySound

LEMMA AbsentIs == \A id : ~Display!Present(id) => msgs[id] \notin Message
BY DEF Display!Present, Message

LEMMA DuplicateKeeps ==
  ASSUME DisplaySound, Display!Duplicate
  PROVE  DisplaySound'
<1> DEFINE n == Display!New("unsent", msgs[clicked].value, "", FALSE)
           c == [n EXCEPT !.extra = msgs[clicked].extra]
<1>1. /\ clicked \notin {"none", "garbage"} /\ ~Display!Present("copy")
      /\ msgs' = [msgs EXCEPT !["copy"] = c] /\ clicked' = "copy" /\ Display!Displays("copy", FALSE, pane)
      /\ queued' = queued /\ forgotten' = forgotten
  BY DEF Display!Duplicate, Display!Clone, Display!None
<1>2. clicked \in Display!Ids /\ msgs[clicked] \in Message
  BY <1>1 DEF DisplaySound, Edited
<1>3. "copy" \in Display!Ids /\ "copy" \notin Display!Arriving /\ msgs["copy"] \notin Message
  BY <1>1, AbsentIs DEF Display!Ids, Display!Arriving
<1>4. msgs[clicked].value \in Values /\ msgs[clicked].extra \in {"", "j1", "j2"}
  BY <1>2 DEF Message
<1>5. n \in Message /\ Fresh(n) /\ n.type = "unsent" /\ n.info = "none" /\ n.transport # 0
  <2>1. n \in Message /\ Fresh(n) /\ n.type = "unsent" /\ n.transport # 0
    BY <1>4, NewIsFresh
  <2>2. n.info = "none"
    BY DEF Display!New, Display!Updated, Display!Info, Display!None
  <2> QED BY <2>1, <2>2
<1> HIDE DEF n
<1>6. /\ c \in Message /\ c.type = "unsent" /\ c.info = "none" /\ c.transport = n.transport /\ c.raw = n.raw
      /\ c.value = n.value
  BY <1>4, <1>5 DEF Message
<1> HIDE DEF c
<1>7. Sound("copy", c, forgotten)
  BY <1>3, <1>5, <1>6 DEF Sound, Fresh, InfoKept
<1>8. /\ DOMAIN msgs' = Display!Ids /\ msgs'["copy"] = c
      /\ \A id \in Display!Ids : id # "copy" => msgs'[id] = msgs[id]
  BY <1>1, <1>3 DEF DisplaySound, Stored
<1>9. Stored'
  BY <1>1, <1>7, <1>8 DEF DisplaySound, Stored
<1>10. Posted'
  <2>1. shown' = "copy"
    BY <1>1 DEF Display!Displays
  <2> QED BY <1>1, <1>3, <1>8, <2>1, PostedStays DEF DisplaySound
<1> QED BY <1>1, <1>3, <1>6, <1>8, <1>9, <1>10, FreshIsDisplayed

LEMMA EditDialogKeeps ==
  ASSUME DisplaySound, NEW v \in Values, NEW text \in Display!Texts, Display!EditDialog(v, text)
  PROVE  DisplaySound'
<1> DEFINE e == Display!MapOf(text)
           n == Display!New("unsent", v, e, TRUE)
           c == [n EXCEPT !.info = text]
<1>1. /\ queued = <<>> /\ queued' = <<>> /\ clicked # "none" /\ ~Display!Present("made")
      /\ msgs[clicked].type = "unsent"
      /\ msgs' = [msgs EXCEPT ![clicked] = [type |-> "absent"], !["made"] = c]
      /\ clicked' = "made" /\ Display!Displays("made", FALSE, pane)
      /\ forgotten' = forgotten \ {clicked}
  BY DEF Display!EditDialog, Display!None, Display!NoMessage
<1>2. clicked \in Display!Ids /\ msgs[clicked] \in Message
  BY <1>1 DEF DisplaySound, Edited
<1>3. "made" \in Display!Ids /\ "made" \notin Display!Arriving /\ msgs["made"] \notin Message
  BY <1>1, AbsentIs DEF Display!Ids, Display!Arriving
<1>4. text \in {"", "j1", "j2", "bad"} /\ e \in {"", "j1", "j2"} /\ (text \in {"", "j1", "j2"} => e = text)
  BY DEF Display!Texts, Display!Maps, Display!MapOf
<1> HIDE DEF e
<1>5. n \in Message /\ Fresh(n) /\ n.type = "unsent" /\ n.extra = e /\ n.transport # 0
  BY <1>4, NewIsFresh
<1> HIDE DEF n
<1>6. /\ c \in Message /\ c.type = "unsent" /\ c.info = text /\ c.extra = e /\ c.transport = n.transport
      /\ c.raw = n.raw /\ c.value = n.value
  BY <1>4, <1>5 DEF Message
<1> HIDE DEF c
<1>7. Sound("made", c, forgotten')
  BY <1>3, <1>4, <1>5, <1>6 DEF Sound, Fresh, InfoKept
<1>8. /\ DOMAIN msgs' = Display!Ids /\ msgs'["made"] = c /\ msgs'[clicked] = [type |-> "absent"]
      /\ \A id \in Display!Ids : id \notin {"made", clicked} => msgs'[id] = msgs[id]
  <2>1. clicked # "made"
    BY <1>2, <1>3
  <2> QED BY <1>1, <1>2, <1>3, <2>1 DEF DisplaySound, Stored
<1>9. Stored'
  <2> SUFFICES ASSUME NEW id \in Display!Ids, id \notin {"made", clicked}
               PROVE  msgs'[id] = [type |-> "absent"] \/ Sound(id, msgs'[id], forgotten')
    BY <1>7, <1>8 DEF Stored
  <2>1. msgs'[id] = msgs[id] /\ (id \in forgotten => id \in forgotten')
    BY <1>1, <1>8
  <2>2. msgs[id] = [type |-> "absent"] \/ Sound(id, msgs[id], forgotten)
    BY DEF DisplaySound, Stored
  <2> QED BY <2>1, <2>2 DEF Sound
<1>10. Posted'
  <2>1. queued' \in Seq(Post) /\ DOMAIN queued' = {}
    BY <1>1
  <2> QED BY <1>1, <2>1 DEF Posted
<1> QED BY <1>1, <1>3, <1>6, <1>8, <1>9, <1>10, FreshIsDisplayed

LEMMA DisplayNext == DisplayRuns /\ [Next]_vars => DisplayRuns'
<1> SUFFICES ASSUME DisplayRuns, [Next]_vars, subject' = "display" PROVE DisplaySound'
  BY DEF DisplayRuns
<1>1. subject = "display"
  BY DEF Next, vars
<1>2. DisplaySound
  BY <1>1 DEF DisplayRuns
<1>3. CASE UNCHANGED vars
  BY <1>2, <1>3 DEF vars, displayVars, DisplaySound, Stored, Drawn, TreeForm, TreeParts, Edited, Posted
<1>4. DisplayStep \/ UNCHANGED vars
  BY <1>1 DEF Next, SendStep, PluginsStep, EditorStep, FilterStep
<1> QED
  BY <1>2, <1>3, <1>4, ArriveKeeps, DisplayKeeps, ClearDisplayKeeps, SelectKeeps, EditFieldKeeps, EditInfoKeeps,
     PostponedKeeps, DuplicateKeeps, EditDialogKeeps DEF DisplayStep, Display!Next, Display!Values, Values

(* Whatever arrives, and whatever is clicked before a posted display runs,   *)
(* the items and the pane are those of the message they were made for, as it *)
(* is now or as a posted display will show it; its bytes and extra           *)
(* information are sent as they are shown; and what is edited is the         *)
(* selected message, which was not sent yet (ProtocolsStackWidget.cpp,       *)
(* MsgDetailsWidget.cpp, RightPaneWidget.cpp, ToolsProtocol.cpp).  Excepted  *)
(* are what a posted display leaves for editing that is overtaken by a       *)
(* click, and the items of garbage that is displayed twice.                  *)
THEOREM DisplayFollowsMessage == Spec => []ShowsMessage
<1>1. DisplayRuns => ShowsMessage
  <2> SUFFICES ASSUME DisplayRuns, subject = "display"
               PROVE  /\ Display!ShowsMessage /\ Display!DerivedAgree /\ Display!ExtraIsSent
                      /\ Display!EditsOwnMessage
    BY DEF ShowsMessage
  <2>1. Stored /\ Drawn /\ Edited /\ Posted
    BY DEF DisplayRuns, DisplaySound
  <2>2. ASSUME NEW id \in Display!Ids, Display!Present(id)
        PROVE  Sound(id, msgs[id], forgotten)
    BY <2>1, <2>2 DEF Stored, Display!Present
  <2>3. Display!DerivedAgree
    BY <2>2 DEF Display!DerivedAgree, Display!Changed, Sound, Fresh
  <2>4. Display!ExtraIsSent
    BY <2>2 DEF Display!ExtraIsSent, Display!Maps, Sound, InfoKept
  <2>5. Display!EditsOwnMessage
    BY <2>1 DEF Display!EditsOwnMessage, Display!None, Drawn, TreeForm, Edited
  <2>6. Display!ShowsMessage
    <3> SUFFICES ASSUME tree.of # "none", ~Display!Mistold
                 PROVE  /\ "transport" \in tree.items => tree.transport = msgs[tree.of].transport
                        /\ tree.raw = msgs[tree.of].raw
                        /\ "info" \in tree.items => tree.info = msgs[tree.of].info
                        /\ \/ pane.value = msgs[tree.of][IF pane.part = "app" THEN "value" ELSE pane.part]
                           \/ \E i \in DOMAIN queued : queued[i] = [msg |-> tree.of, force |-> TRUE]
      BY DEF Display!ShowsMessage, Display!None
    <3>1. TreeForm /\ TreeParts
      BY <2>1 DEF Drawn, TreeForm, Display!Mistold, Display!Nothing, Display!None
    <3>2. /\ pane.part = tree.current /\ tree.current \in {"app", "transport", "raw", "info"}
          /\ tree.current \in tree.items
      BY <3>1 DEF TreeForm
    <3> QED BY <2>1, <3>1, <3>2 DEF TreeParts, Drawn
  <2> QED BY <2>3, <2>4, <2>5, <2>6
<1> QED BY <1>1, DisplayInit, DisplayNext, PTL DEF Spec

(* Only what was not sent yet is changed.                                    *)
LEMMA ReceivedIsKept ==
  ASSUME DisplayRuns, subject = "display", Display!Next
  PROVE  Display!ReceivedStaysStep
<1>1. DisplaySound
  BY DEF DisplayRuns
<1> SUFFICES ASSUME NEW id \in Display!Arriving, Display!Present(id) PROVE msgs'[id] = msgs[id]
  BY DEF Display!ReceivedStaysStep
<1>2. /\ id \in Display!Ids /\ id \in DOMAIN msgs /\ msgs[id].type = "received"
      /\ id \notin {"loaded", "copy", "made"}
  BY <1>1 DEF DisplaySound, Stored, Sound, Display!Present, Display!Ids, Display!Arriving
<1>3. CASE UNCHANGED msgs
  BY <1>3
<1>4. ASSUME editing.part, pane.part # "none"
      PROVE  tree.of # id /\ shown # id
  <2>1. tree.of # "none"
    BY <1>1, <1>4 DEF DisplaySound, Drawn
  <2>2. msgs[tree.of].type = "unsent" /\ msgs[shown].type = "unsent"
    BY <1>1, <1>4, <2>1 DEF DisplaySound, Edited
  <2> QED BY <1>2, <2>2
<1>5. ASSUME NEW v, Display!EditField(v) PROVE msgs'[id] = msgs[id]
  <2> DEFINE edited == [msgs EXCEPT ![tree.of].value = v]
             u == Display!Updated(edited[shown])
  <2>1. msgs' = [edited EXCEPT ![shown] = u] /\ editing.part /\ pane.part = "app"
    BY <1>5 DEF Display!EditField
  <2>2. tree.of # id /\ shown # id
    BY <1>4, <2>1
  <2>3. id \in DOMAIN edited /\ edited[id] = msgs[id]
    BY <1>2, <2>2
  <2> HIDE DEF edited, u
  <2> QED BY <2>1, <2>2, <2>3
<1>6. ASSUME NEW text, Display!EditInfo(text) PROVE msgs'[id] = msgs[id]
  <2>1. /\ msgs' = [msgs EXCEPT ![tree.of].info = text,
                                ![tree.of].extra = IF text = "bad" THEN @ ELSE Display!MapOf(text)]
        /\ editing.part /\ pane.part = "info"
    BY <1>6 DEF Display!EditInfo
  <2>2. tree.of # id
    BY <1>4, <2>1
  <2> HIDE DEF Display!MapOf
  <2> QED BY <1>2, <2>1, <2>2
<1>7. ASSUME NEW v, NEW text, Display!EditDialog(v, text) PROVE msgs'[id] = msgs[id]
  <2> DEFINE a == Display!NoMessage
             b == [Display!New("unsent", v, Display!MapOf(text), TRUE) EXCEPT !.info = text]
  <2>1. msgs' = [msgs EXCEPT ![clicked] = a, !["made"] = b] /\ msgs[clicked].type = "unsent"
    BY <1>7 DEF Display!EditDialog
  <2> HIDE DEF a, b
  <2>2. clicked # id
    BY <1>2, <2>1
  <2> QED BY <1>2, <2>1, <2>2
<1>8. ASSUME Display!Duplicate PROVE msgs'[id] = msgs[id]
  <2> DEFINE c == Display!Clone(msgs[clicked])
  <2>1. msgs' = [msgs EXCEPT !["copy"] = c]
    BY <1>8 DEF Display!Duplicate
  <2> HIDE DEF c
  <2> QED BY <1>2, <2>1
<1>9. ASSUME NEW a \in Display!Arriving, NEW extra, Display!Arrive(a, extra) PROVE msgs'[id] = msgs[id]
  <2> DEFINE m == IF a = "garbage" THEN Display!Garbage(extra) ELSE Display!New("received", 1, extra, FALSE)
  <2>1. msgs' = [msgs EXCEPT ![a] = m] /\ a # id
    BY <1>9 DEF Display!Arrive
  <2> HIDE DEF m
  <2> QED BY <1>2, <2>1
<1>10. ASSUME NEW i, Display!Display(i) PROVE msgs'[id] = msgs[id]
  BY <1>3, <1>10 DEF Display!Display
<1>11. ASSUME NEW part, Display!SelectItem(part) PROVE msgs'[id] = msgs[id]
  BY <1>3, <1>11 DEF Display!SelectItem
<1>12. ASSUME Display!Postponed PROVE msgs'[id] = msgs[id]
  BY <1>3, <1>12 DEF Display!Postponed
<1>13. ASSUME Display!ClearDisplay PROVE msgs'[id] = msgs[id]
  BY <1>3, <1>13 DEF Display!ClearDisplay
<1> QED BY <1>5, <1>6, <1>7, <1>8, <1>9, <1>10, <1>11, <1>12, <1>13 DEF Display!Next

-----------------------------------------------------------------------------
(* The dialog for a message: what the methods do to its fields.              *)
Fields ==
  {"open", "search", "current", "pane", "buttons", "delayOn", "delay", "delayUnits", "prevDelay", "repeatOn",
   "repeat", "repeatUnits", "prevRepeat", "count", "prevCount", "endless", "prevEndless", "connected"}
Boxes == {"delay", "repeat", "count"}
Spin(min, value) == [min |-> min, value |-> value]

Like(e, d, but) == DOMAIN e = Fields /\ \A f \in Fields \ but : e[f] = d[f]

(* The number that is remembered of a box, and when its slot remembers it.   *)
Prev(box) == CASE box = "delay" -> "prevDelay" [] box = "repeat" -> "prevRepeat" [] box = "count" -> "prevCount"
Listens(d, box) ==
  /\ d.connected
  /\ box = "delay" => d.delayOn
  /\ box \in {"repeat", "count"} => d.repeatOn
  /\ box = "count" => ~d.endless

BoxIs(e, d, box, min, value) ==
  /\ Like(e, d, {box, Prev(box)}) /\ e[box] = Spin(min, value)
  /\ e[Prev(box)] = IF Listens(d, box) /\ d[box].value # value THEN value ELSE d[Prev(box)]

LEMMA SlotRemembers ==
  ASSUME NEW d, DOMAIN d = Fields, NEW box \in Boxes
  PROVE  /\ Like(Editor!Slot(d, box), d, {Prev(box)})
         /\ Editor!Slot(d, box)[Prev(box)] = IF Listens(d, box) THEN d[box].value ELSE d[Prev(box)]
<1>1. CASE box = "delay"
  <2>1. Prev(box) = "prevDelay"
    BY <1>1 DEF Prev
  <2>2. Editor!Slot(d, box) = Editor!DelayUpdated(d)
    BY <1>1 DEF Editor!Slot
  <2>3. Listens(d, box) <=> d.connected /\ d.delayOn
    BY <1>1 DEF Listens
  <2>4. CASE d.connected /\ d.delayOn
    BY <1>1, <2>1, <2>2, <2>3, <2>4 DEF Editor!DelayUpdated, Like, Fields
  <2>5. CASE ~(d.connected /\ d.delayOn)
    BY <1>1, <2>1, <2>2, <2>3, <2>5 DEF Editor!DelayUpdated, Like, Fields
  <2> QED BY <2>4, <2>5
<1>2. CASE box = "repeat"
  <2>1. Prev(box) = "prevRepeat"
    BY <1>2 DEF Prev
  <2>2. Editor!Slot(d, box) = Editor!RepeatUpdated(d)
    BY <1>2 DEF Editor!Slot
  <2>3. Listens(d, box) <=> d.connected /\ d.repeatOn
    BY <1>2 DEF Listens
  <2>4. CASE d.connected /\ d.repeatOn
    BY <1>2, <2>1, <2>2, <2>3, <2>4 DEF Editor!RepeatUpdated, Like, Fields
  <2>5. CASE ~(d.connected /\ d.repeatOn)
    BY <1>2, <2>1, <2>2, <2>3, <2>5 DEF Editor!RepeatUpdated, Like, Fields
  <2> QED BY <2>4, <2>5
<1>3. CASE box = "count"
  <2>1. Prev(box) = "prevCount"
    BY <1>3 DEF Prev
  <2>2. Editor!Slot(d, box) = Editor!CountUpdated(d)
    BY <1>3 DEF Editor!Slot
  <2>3. Listens(d, box) <=> d.connected /\ d.repeatOn /\ ~d.endless
    BY <1>3 DEF Listens
  <2>4. CASE d.connected /\ d.repeatOn /\ ~d.endless
    BY <1>3, <2>1, <2>2, <2>3, <2>4 DEF Editor!CountUpdated, Like, Fields
  <2>5. CASE ~(d.connected /\ d.repeatOn /\ ~d.endless)
    BY <1>3, <2>1, <2>2, <2>3, <2>5 DEF Editor!CountUpdated, Like, Fields
  <2> QED BY <2>4, <2>5
<1> QED BY <1>1, <1>2, <1>3 DEF Boxes

LEMMA SpinSet ==
  ASSUME NEW d, DOMAIN d = Fields, NEW box \in Boxes, NEW min \in Nat, NEW value \in Nat
  PROVE  BoxIs(Editor!SetSpin(d, box, Spin(min, value)), d, box, min, value)
<1> DEFINE s == Spin(min, value)
           b == [d EXCEPT ![box] = s]
           e == Editor!SetSpin(d, box, s)
<1>1. s.value = value
  BY DEF Spin
<1>2. e = IF d[box].value = value THEN b ELSE Editor!Slot(b, box)
  BY <1>1 DEF Editor!SetSpin
<1> HIDE DEF s, e
<1>3. /\ DOMAIN b = Fields /\ b[box] = s /\ \A f \in Fields \ {box} : b[f] = d[f]
  BY DEF Boxes, Fields
<1>4. Prev(box) \in Fields /\ Prev(box) # box
  BY DEF Prev, Boxes, Fields
<1> HIDE DEF b
<1>5. Listens(b, box) <=> Listens(d, box)
  <2>1. b.connected = d.connected /\ b.delayOn = d.delayOn /\ b.repeatOn = d.repeatOn /\ b.endless = d.endless
    BY <1>3 DEF Boxes, Fields
  <2> QED BY <2>1 DEF Listens
<1>6. ASSUME d[box].value = value PROVE BoxIs(e, d, box, min, value)
  BY <1>2, <1>3, <1>4, <1>6 DEF BoxIs, Like, s
<1>7. ASSUME d[box].value # value PROVE BoxIs(e, d, box, min, value)
  <2>1. /\ Like(Editor!Slot(b, box), b, {Prev(box)})
        /\ Editor!Slot(b, box)[Prev(box)] = IF Listens(b, box) THEN b[box].value ELSE b[Prev(box)]
    BY <1>3, SlotRemembers
  <2>2. /\ Like(e, b, {Prev(box)})
        /\ e[Prev(box)] = IF Listens(d, box) THEN value ELSE d[Prev(box)]
    BY <1>1, <1>2, <1>3, <1>4, <1>5, <1>7, <2>1
  <2>3. Like(e, d, {box, Prev(box)}) /\ e[box] = s
    BY <1>3, <1>4, <2>2 DEF Like, Boxes, Fields
  <2> QED BY <1>1, <1>7, <2>2, <2>3 DEF BoxIs, s
<1> QED BY <1>6, <1>7 DEF e, s

LEMMA ValueSet ==
  ASSUME NEW d, DOMAIN d = Fields, NEW box \in Boxes, NEW m \in Nat, NEW v \in Nat, d[box] = Spin(m, v),
         NEW value \in Nat
  PROVE  BoxIs(Editor!SetValue(d, box, value), d, box, m, Editor!AtLeast(m, value))
<1>1. d[box].min = m /\ [d[box] EXCEPT !.value = Editor!AtLeast(d[box].min, value)] = Spin(m, Editor!AtLeast(m, value))
  BY DEF Spin
<1>2. Editor!AtLeast(m, value) \in Nat
  BY DEF Editor!AtLeast
<1>3. Editor!SetValue(d, box, value) = Editor!SetSpin(d, box, Spin(m, Editor!AtLeast(m, value)))
  BY <1>1 DEF Editor!SetValue
<1> QED BY <1>2, <1>3, SpinSet

LEMMA MinimumSet ==
  ASSUME NEW d, DOMAIN d = Fields, NEW box \in Boxes, NEW m \in Nat, NEW v \in Nat, d[box] = Spin(m, v),
         NEW min \in Nat
  PROVE  BoxIs(Editor!SetMinimum(d, box, min), d, box, min, Editor!AtLeast(min, v))
<1>1. d[box].value = v
  BY DEF Spin
<1>2. Editor!AtLeast(min, v) \in Nat
  BY DEF Editor!AtLeast
<1>3. Editor!SetMinimum(d, box, min) = Editor!SetSpin(d, box, Spin(min, Editor!AtLeast(min, v)))
  BY <1>1 DEF Editor!SetMinimum, Spin
<1> QED BY <1>2, <1>3, SpinSet

(* What the lists of the boxes become, whatever they were.                   *)
DelayShown(e, d) ==
  Like(e, d, {"delay"}) /\ e.delay = IF d.delayOn THEN Spin(1, d.prevDelay) ELSE Spin(0, 0)

LEMMA DelayRefreshed ==
  ASSUME NEW d, DOMAIN d = Fields, NEW m \in {0, 1}, NEW v \in Nat, d.delay = Spin(m, v),
         d.prevDelay \in Nat \ {0}
  PROVE  DelayShown(Editor!RefreshDelayInfo(d), d)
<1> "delay" \in Boxes /\ "delay" \in Fields /\ "prevDelay" \in Fields /\ Prev("delay") = "prevDelay" /\ m \in Nat
  BY DEF Boxes, Fields, Prev
<1>1. CASE d.delayOn
  <2> DEFINE b == Editor!SetValue(d, "delay", d.prevDelay)
             e == Editor!SetMinimum(b, "delay", 1)
             p == d.prevDelay
  <2>1. Editor!AtLeast(m, p) = p /\ Editor!AtLeast(1, p) = p /\ p \in Nat
    BY DEF Editor!AtLeast
  <2>2. BoxIs(b, d, "delay", m, p)
    BY <2>1, ValueSet
  <2>3. Editor!RefreshDelayInfo(d) = e
    BY <1>1 DEF Editor!RefreshDelayInfo
  <2> HIDE DEF b, p
  <2>4. DOMAIN b = Fields /\ b["delay"] = Spin(m, p)
    BY <2>2 DEF BoxIs, Like
  <2>5. BoxIs(e, b, "delay", 1, p)
    BY <2>1, <2>4, MinimumSet
  <2> HIDE DEF e
  <2>6. Like(e, d, {"delay"}) /\ e["delay"] = Spin(1, p)
    BY <2>2, <2>5 DEF BoxIs, Like, Spin, p
  <2> QED BY <1>1, <2>3, <2>6 DEF DelayShown, p
<1>2. CASE ~d.delayOn
  <2> DEFINE b == Editor!SetMinimum(d, "delay", 0)
             e == Editor!SetValue(b, "delay", 0)
  <2>1. Editor!AtLeast(0, v) = v /\ Editor!AtLeast(0, 0) = 0
    BY DEF Editor!AtLeast
  <2>2. BoxIs(b, d, "delay", 0, v)
    BY <2>1, MinimumSet
  <2>3. Editor!RefreshDelayInfo(d) = e
    BY <1>2 DEF Editor!RefreshDelayInfo
  <2> HIDE DEF b
  <2>4. DOMAIN b = Fields /\ b["delay"] = Spin(0, v)
    BY <2>2 DEF BoxIs, Like
  <2>5. BoxIs(e, b, "delay", 0, 0)
    BY <2>1, <2>4, ValueSet
  <2> HIDE DEF e
  <2>6. ~Listens(d, "delay") /\ b.delayOn = d.delayOn
    BY <1>2, <2>2 DEF Listens, BoxIs, Like, Fields
  <2>7. ~Listens(b, "delay")
    BY <1>2, <2>6 DEF Listens
  <2>8. Like(e, d, {"delay"}) /\ e["delay"] = Spin(0, 0)
    BY <2>2, <2>5, <2>6, <2>7 DEF BoxIs, Like
  <2> QED BY <1>2, <2>3, <2>8 DEF DelayShown
<1> QED BY <1>1, <1>2

RepeatIs(e, d) == Like(e, d, {"repeat"}) /\ e.repeat = Spin(1, d.prevRepeat)

LEMMA RepeatIsShown ==
  ASSUME NEW d, DOMAIN d = Fields, NEW m \in {0, 1}, NEW v \in Nat, d.repeat = Spin(m, v),
         d.prevRepeat \in Nat \ {0}
  PROVE  RepeatIs(Editor!RepeatShown(d), d)
<1> "repeat" \in Boxes /\ "repeat" \in Fields /\ "prevRepeat" \in Fields /\ Prev("repeat") = "prevRepeat"
    /\ m \in Nat
  BY DEF Boxes, Fields, Prev
<1> DEFINE b == Editor!SetValue(d, "repeat", d.prevRepeat)
           e == Editor!SetMinimum(b, "repeat", 1)
           p == d.prevRepeat
<1>1. Editor!AtLeast(m, p) = p /\ Editor!AtLeast(1, p) = p /\ p \in Nat
  BY DEF Editor!AtLeast
<1>2. BoxIs(b, d, "repeat", m, p)
  BY <1>1, ValueSet
<1>3. Editor!RepeatShown(d) = e
  BY DEF Editor!RepeatShown
<1> HIDE DEF b, p
<1>4. DOMAIN b = Fields /\ b["repeat"] = Spin(m, p)
  BY <1>2 DEF BoxIs, Like
<1>5. BoxIs(e, b, "repeat", 1, p)
  BY <1>1, <1>4, MinimumSet
<1> HIDE DEF e
<1>6. Like(e, d, {"repeat"}) /\ e["repeat"] = Spin(1, p)
  BY <1>2, <1>5 DEF BoxIs, Like, Spin, p
<1> QED BY <1>3, <1>6 DEF RepeatIs, p

RepeatIsOff(e, d) ==
  Like(e, d, {"repeat", "count", "endless"}) /\ e.repeat = Spin(0, 0) /\ e.count = Spin(1, 1) /\ e.endless = FALSE

LEMMA RepeatTurnedOff ==
  ASSUME NEW d, DOMAIN d = Fields, NEW m \in {0, 1}, NEW v \in Nat, d.repeat = Spin(m, v),
         NEW n \in Nat, NEW w \in Nat, d.count = Spin(n, w), ~d.repeatOn
  PROVE  RepeatIsOff(Editor!RepeatOff(d), d)
<1> /\ "repeat" \in Boxes /\ "repeat" \in Fields /\ "prevRepeat" \in Fields /\ Prev("repeat") = "prevRepeat"
    /\ "count" \in Boxes /\ "count" \in Fields /\ "prevCount" \in Fields /\ Prev("count") = "prevCount"
    /\ "endless" \in Fields /\ "repeatOn" \in Fields /\ m \in Nat
  BY DEF Boxes, Fields, Prev
<1> DEFINE a == Editor!SetMinimum(d, "repeat", 0)
           b == Editor!SetValue(a, "repeat", 0)
           x == Editor!AtLeast(1, w)
           c == Editor!SetMinimum(b, "count", 1)
           e == Editor!SetValue(c, "count", 1)
           r == [e EXCEPT !.endless = FALSE]
<1>1. Editor!AtLeast(0, v) = v /\ Editor!AtLeast(0, 0) = 0 /\ Editor!AtLeast(1, 1) = 1 /\ x \in Nat
  BY DEF Editor!AtLeast
<1>2. \A f : ~f.repeatOn => ~Listens(f, "repeat") /\ ~Listens(f, "count")
  BY DEF Listens
<1>3. Editor!RepeatOff(d) = r
  BY DEF Editor!RepeatOff
<1>4. BoxIs(a, d, "repeat", 0, v)
  BY <1>1, MinimumSet
<1> HIDE DEF a
<1>5. DOMAIN a = Fields /\ a["repeat"] = Spin(0, v) /\ Like(a, d, {"repeat"})
  BY <1>2, <1>4 DEF BoxIs, Like
<1>6. BoxIs(b, a, "repeat", 0, 0)
  BY <1>1, <1>5, ValueSet
<1> HIDE DEF b
<1>7. b["repeat"] = Spin(0, 0) /\ Like(b, d, {"repeat"}) /\ ~b.repeatOn /\ b["count"] = Spin(n, w)
  <2>1. ~a.repeatOn
    BY <1>5 DEF Like
  <2>2. b["repeat"] = Spin(0, 0) /\ Like(b, d, {"repeat"})
    BY <1>2, <1>5, <1>6, <2>1 DEF BoxIs, Like
  <2> QED BY <2>2 DEF Like
<1>8. BoxIs(c, b, "count", 1, x)
  <2>1. DOMAIN b = Fields
    BY <1>7 DEF Like
  <2> QED BY <1>7, <2>1, MinimumSet
<1> HIDE DEF x, c
<1>9. c["count"] = Spin(1, x) /\ Like(c, b, {"count"}) /\ ~c.repeatOn
  <2>1. c["count"] = Spin(1, x) /\ Like(c, b, {"count"})
    BY <1>2, <1>7, <1>8 DEF BoxIs, Like
  <2> QED BY <1>7, <2>1 DEF Like
<1>10. BoxIs(e, c, "count", 1, 1)
  <2>1. DOMAIN c = Fields
    BY <1>9 DEF Like
  <2> QED BY <1>1, <1>9, <2>1, ValueSet
<1> HIDE DEF e
<1>11. e["count"] = Spin(1, 1) /\ Like(e, b, {"count"})
  BY <1>2, <1>9, <1>10 DEF BoxIs, Like
<1>12. /\ DOMAIN r = Fields /\ r["endless"] = FALSE /\ \A f \in Fields \ {"endless"} : r[f] = e[f]
  BY <1>11 DEF Like
<1> HIDE DEF r
<1>13. Like(r, d, {"repeat", "count", "endless"})
  BY <1>7, <1>11, <1>12 DEF Like
<1>14. r["repeat"] = Spin(0, 0) /\ r["count"] = Spin(1, 1)
  BY <1>7, <1>11, <1>12 DEF Like
<1> QED BY <1>3, <1>12, <1>13, <1>14 DEF RepeatIsOff

(* The number of repetitions: none when there is no end.                     *)
CountIs(e, d) ==
  /\ Like(e, d, {"count", "prevCount"})
  /\ e.count = IF d.prevEndless THEN Spin(0, 0) ELSE Spin(2, Editor!AtLeast(2, d.prevCount))
  /\ e.prevCount = IF d.prevEndless THEN d.prevCount ELSE Editor!AtLeast(2, d.prevCount)

LEMMA CountRefreshed ==
  ASSUME NEW d, DOMAIN d = Fields, NEW m \in {0, 1, 2}, NEW v \in Nat, d.count = Spin(m, v),
         d.prevCount \in Nat, d.repeatOn, d.endless <=> d.prevEndless,
         d.prevCount < 2 => d.connected /\ m < 2
  PROVE  CountIs(Editor!RefreshCount(d), d)
<1> /\ "count" \in Boxes /\ "count" \in Fields /\ "prevCount" \in Fields /\ Prev("count") = "prevCount"
    /\ {"endless", "repeatOn", "connected", "prevEndless"} \subseteq Fields /\ m \in Nat
  BY DEF Boxes, Fields, Prev
<1>1. CASE d.prevEndless
  <2> DEFINE b == Editor!SetMinimum(d, "count", 0)
             e == Editor!SetValue(b, "count", 0)
  <2>1. Editor!AtLeast(0, v) = v /\ Editor!AtLeast(0, 0) = 0
    BY DEF Editor!AtLeast
  <2>2. Editor!RefreshCount(d) = e
    BY <1>1 DEF Editor!RefreshCount
  <2>3. BoxIs(b, d, "count", 0, v)
    BY <2>1, MinimumSet
  <2> HIDE DEF b
  <2>4. DOMAIN b = Fields /\ b["count"] = Spin(0, v) /\ Like(b, d, {"count"})
    <3>1. ~Listens(d, "count")
      BY <1>1 DEF Listens
    <3> QED BY <2>3, <3>1 DEF BoxIs, Like
  <2>5. BoxIs(e, b, "count", 0, 0)
    BY <2>1, <2>4, ValueSet
  <2> HIDE DEF e
  <2>6. ~Listens(b, "count")
    <3>1. b.endless = d.endless
      BY <2>4 DEF Like
    <3> QED BY <1>1, <3>1 DEF Listens
  <2>7. e["count"] = Spin(0, 0) /\ Like(e, d, {"count"})
    BY <2>4, <2>5, <2>6 DEF BoxIs, Like
  <2> QED BY <1>1, <2>2, <2>7 DEF CountIs, Like
<1>2. CASE ~d.prevEndless
  <2> DEFINE p == d.prevCount
             x == Editor!AtLeast(m, p)
             y == Editor!AtLeast(2, x)
             b == Editor!SetValue(d, "count", p)
             e == Editor!SetMinimum(b, "count", 2)
  <2>1. Editor!RefreshCount(d) = e
    BY <1>2 DEF Editor!RefreshCount
  <2>2. p \in Nat /\ x \in Nat /\ y = Editor!AtLeast(2, p) /\ y \in Nat /\ (p >= 2 => x = p /\ y = p)
        /\ (x # p => x = m) /\ (y # x => y = 2) /\ (p < 2 /\ m < 2 => x < 2 /\ y = 2)
    BY DEF Editor!AtLeast
  <2>3. BoxIs(b, d, "count", m, x)
    BY <2>2, ValueSet
  <2> HIDE DEF x, y, p, b
  <2>4. DOMAIN b = Fields /\ b["count"] = Spin(m, x) /\ Like(b, d, {"count", "prevCount"})
    BY <2>3 DEF BoxIs, Like
  <2>5. BoxIs(e, b, "count", 2, y)
    BY <2>2, <2>4, MinimumSet DEF y
  <2> HIDE DEF e
  <2>6. e["count"] = Spin(2, y) /\ Like(e, d, {"count", "prevCount"})
    BY <2>4, <2>5 DEF BoxIs, Like
  <2>7. e["prevCount"] = y
    <3>1. b["prevCount"] = IF Listens(d, "count") /\ v # x THEN x ELSE p
      BY <2>3 DEF BoxIs, Spin, p
    <3>2. e["prevCount"] = IF Listens(b, "count") /\ x # y THEN y ELSE b["prevCount"]
      BY <2>4, <2>5 DEF BoxIs, Spin
    <3>3. CASE p >= 2
      BY <2>2, <3>1, <3>2, <3>3
    <3>4. CASE p < 2
      <4>1. d.connected /\ m < 2 /\ x # y
        BY <2>2, <3>4 DEF p
      <4>2. b.connected = d.connected /\ b.endless = d.endless /\ b.repeatOn = d.repeatOn
        BY <2>4 DEF Like
      <4>3. Listens(b, "count")
        BY <1>2, <4>1, <4>2 DEF Listens
      <4> QED BY <3>2, <4>1, <4>3
    <3> QED BY <2>2, <3>3, <3>4
  <2> QED BY <1>2, <2>1, <2>2, <2>6, <2>7 DEF CountIs, p
<1> QED BY <1>1, <1>2

RepeatIsOn(e, d) ==
  /\ Like(e, d, {"repeat", "count", "prevCount", "endless"})
  /\ e.repeat = Spin(1, d.prevRepeat) /\ e.endless = d.prevEndless
  /\ e.count = IF d.prevEndless THEN Spin(0, 0) ELSE Spin(2, Editor!AtLeast(2, d.prevCount))
  /\ e.prevCount = IF d.prevEndless THEN d.prevCount ELSE Editor!AtLeast(2, d.prevCount)

LEMMA RepeatTurnedOn ==
  ASSUME NEW d, DOMAIN d = Fields, NEW m \in {0, 1}, NEW v \in Nat, d.repeat = Spin(m, v),
         d.prevRepeat \in Nat \ {0}, NEW n \in {0, 1, 2}, NEW w \in Nat, d.count = Spin(n, w),
         d.prevCount \in Nat, d.repeatOn, d.prevCount < 2 => d.connected /\ n < 2
  PROVE  RepeatIsOn(Editor!RepeatOnAgain(d), d)
<1> /\ "repeat" \in Fields /\ "prevRepeat" \in Fields /\ "count" \in Fields /\ "prevCount" \in Fields
    /\ "endless" \in Fields /\ "prevEndless" \in Fields /\ "repeatOn" \in Fields /\ "connected" \in Fields
  BY DEF Fields
<1> DEFINE b == Editor!RepeatShown(d)
           c == [b EXCEPT !.endless = b.prevEndless]
           nested == d.connected /\ b.endless # b.prevEndless
           f == Editor!RepeatShown(c)
           g == Editor!RefreshCount(f)
           p == Editor!AtLeast(2, d.prevCount)
<1>1. Editor!RepeatOnAgain(d) = Editor!RefreshCount(IF nested THEN g ELSE c)
  BY DEF Editor!RepeatOnAgain
<1>2. RepeatIs(b, d)
  BY RepeatIsShown
<1> HIDE DEF b
<1>3. /\ Like(c, d, {"repeat", "endless"}) /\ c["repeat"] = Spin(1, d.prevRepeat)
      /\ c["endless"] = d.prevEndless
  <2>1. b.prevEndless = d.prevEndless /\ b["repeat"] = Spin(1, d.prevRepeat) /\ Like(b, d, {"repeat"})
    BY <1>2 DEF RepeatIs, Like
  <2>2. /\ DOMAIN c = Fields /\ c["endless"] = d.prevEndless
        /\ \A x \in Fields \ {"endless"} : c[x] = b[x]
    BY <2>1 DEF Like
  <2> HIDE DEF c
  <2> QED BY <2>1, <2>2 DEF Like
<1> HIDE DEF c
<1>4. /\ DOMAIN c = Fields /\ c.prevRepeat = d.prevRepeat /\ c.count = d.count /\ c.prevCount = d.prevCount
      /\ c.repeatOn = d.repeatOn /\ c.connected = d.connected /\ c.prevEndless = d.prevEndless
      /\ c.endless = c.prevEndless
  BY <1>3 DEF Like
<1>5. CountIs(Editor!RefreshCount(c), c)
  BY <1>4, CountRefreshed
<1>6. RepeatIsOn(Editor!RefreshCount(c), d)
  BY <1>3, <1>4, <1>5 DEF RepeatIsOn, CountIs, Like
<1>7. ASSUME nested
      PROVE  RepeatIsOn(Editor!RefreshCount(g), d)
  <2>1. RepeatIs(f, c)
    <3>1. d.prevRepeat \in Nat
      OBVIOUS
    <3> QED BY <1>3, <1>4, <3>1, RepeatIsShown
  <2> HIDE DEF f
  <2>2. Like(f, d, {"repeat", "endless"}) /\ f["repeat"] = Spin(1, d.prevRepeat) /\ f["endless"] = d.prevEndless
    BY <1>3, <1>4, <2>1 DEF RepeatIs, Like
  <2>3. /\ DOMAIN f = Fields /\ f.count = d.count /\ f.prevCount = d.prevCount
        /\ f.repeatOn = d.repeatOn /\ f.connected = d.connected /\ f.prevEndless = d.prevEndless
        /\ f.endless = f.prevEndless
    BY <2>2 DEF Like
  <2>4. CountIs(g, f)
    BY <2>3, CountRefreshed
  <2> HIDE DEF g
  <2>5. /\ Like(g, f, {"count", "prevCount"})
        /\ g["count"] = IF d.prevEndless THEN Spin(0, 0) ELSE Spin(2, p)
        /\ g["prevCount"] = IF d.prevEndless THEN d.prevCount ELSE p
    BY <2>3, <2>4 DEF CountIs
  <2>6. /\ DOMAIN g = Fields /\ g.repeatOn = d.repeatOn /\ g.connected = d.connected
        /\ g.prevEndless = d.prevEndless /\ g.endless = g.prevEndless
    BY <2>2, <2>5 DEF Like
  <2>7. p \in Nat /\ p >= 2 /\ Editor!AtLeast(2, p) = p
    BY DEF Editor!AtLeast
  <2> HIDE DEF p
  <2>8. CountIs(Editor!RefreshCount(g), g)
    <3>1. CASE d.prevEndless
      <4> DEFINE z == 0
      <4>1. g.count = Spin(z, z) /\ g.prevCount = d.prevCount /\ z \in {0, 1, 2} /\ z \in Nat /\ z < 2
        BY <2>5, <3>1
      <4> HIDE DEF z
      <4>2. g.connected
        BY <1>7, <2>6
      <4> QED BY <2>6, <4>1, <4>2, CountRefreshed
    <3>2. CASE ~d.prevEndless
      <4>1. g.count = Spin(2, p) /\ g.prevCount = p /\ ~(p < 2)
        BY <2>5, <2>7, <3>2
      <4> QED BY <2>6, <2>7, <4>1, CountRefreshed
    <3> QED BY <3>1, <3>2
  <2> DEFINE h == Editor!RefreshCount(g)
  <2> HIDE DEF h
  <2>9. Like(h, f, {"count", "prevCount"})
    BY <2>5, <2>8 DEF CountIs, Like, h
  <2>10. /\ h["count"] = IF d.prevEndless THEN Spin(0, 0) ELSE Spin(2, p)
         /\ h["prevCount"] = IF d.prevEndless THEN d.prevCount ELSE p
    BY <2>5, <2>6, <2>7, <2>8 DEF CountIs, h
  <2>11. /\ Like(h, d, {"repeat", "count", "prevCount", "endless"})
         /\ h["repeat"] = Spin(1, d.prevRepeat) /\ h["endless"] = d.prevEndless
    BY <2>2, <2>9 DEF Like
  <2> QED BY <2>10, <2>11 DEF RepeatIsOn, h, p
<1> QED BY <1>1, <1>6, <1>7

(* What is true of the dialog while it is open.                              *)
Types == {MessageTypes[i] : i \in DOMAIN MessageTypes}

Lists(d) ==
  /\ d.search \in BOOLEAN /\ d.pane = d.current /\ d.buttons = (d.current # Editor!None)
  /\ d.current = Editor!None \/ (d.current \in Types /\ (d.search => d.current \in Matching))

Delays(d) ==
  /\ d.delayOn \in BOOLEAN /\ d.delayUnits \in 1..5 /\ d.prevDelay \in Nat \ {0}
  /\ d.delay = IF d.delayOn THEN Spin(1, d.prevDelay) ELSE Spin(0, 0)

Repeats(d) ==
  /\ d.repeatOn \in BOOLEAN /\ d.endless \in BOOLEAN /\ d.prevEndless \in BOOLEAN
  /\ d.repeatUnits \in 1..5 /\ d.prevRepeat \in Nat \ {0} /\ d.prevCount \in Nat
  /\ d.repeat = IF d.repeatOn THEN Spin(1, d.prevRepeat) ELSE Spin(0, 0)
  /\ ~d.repeatOn => ~d.endless /\ d.count = Spin(1, 1)
  /\ d.repeatOn => (d.endless <=> d.prevEndless)
  /\ d.repeatOn /\ d.endless => d.count = Spin(0, 0)
  /\ d.repeatOn /\ ~d.endless => d.prevCount >= 2 /\ d.count = Spin(2, d.prevCount)

Dialog(d) == DOMAIN d = Fields /\ d.open /\ d.connected /\ Lists(d) /\ Delays(d) /\ Repeats(d)

(* Whether repetition is switched on or off, or its end: what is shown then. *)
LEMMA RepeatRefreshed ==
  ASSUME NEW d, DOMAIN d = Fields, NEW m \in {0, 1}, NEW v \in Nat, d.repeat = Spin(m, v),
         d.prevRepeat \in Nat \ {0}, NEW n \in {0, 1, 2}, NEW w \in Nat, d.count = Spin(n, w),
         d.prevCount \in Nat, d.prevEndless \in BOOLEAN, d.repeatOn \in BOOLEAN, d.repeatUnits \in 1..5,
         d.repeatOn /\ d.prevCount < 2 => d.connected /\ n < 2
  PROVE  /\ Like(Editor!RefreshRepeatInfo(d), d, {"repeat", "count", "prevCount", "endless"})
         /\ Repeats(Editor!RefreshRepeatInfo(d))
         /\ Editor!AtLeast(2, Editor!RefreshRepeatInfo(d).prevCount) = Editor!AtLeast(2, d.prevCount)
         /\ d.prevCount >= 2 => Editor!RefreshRepeatInfo(d).prevCount = d.prevCount
<1> DEFINE e == Editor!RefreshRepeatInfo(d)
           p == Editor!AtLeast(2, d.prevCount)
<1>1. CASE d.repeatOn
  <2>1. e = Editor!RepeatOnAgain(d)
    BY <1>1 DEF Editor!RefreshRepeatInfo
  <2> HIDE DEF e
  <2>2. RepeatIsOn(e, d)
    BY <1>1, <2>1, RepeatTurnedOn
  <2>3. p \in Nat /\ p >= 2 /\ Editor!AtLeast(2, p) = p /\ (d.prevCount >= 2 => p = d.prevCount)
    BY DEF Editor!AtLeast
  <2> HIDE DEF p
  <2>4. /\ Like(e, d, {"repeat", "count", "prevCount", "endless"})
        /\ e.repeat = Spin(1, d.prevRepeat) /\ e.endless = d.prevEndless
        /\ e.count = IF d.prevEndless THEN Spin(0, 0) ELSE Spin(2, p)
        /\ e.prevCount = IF d.prevEndless THEN d.prevCount ELSE p
    BY <2>2 DEF RepeatIsOn, p
  <2>5. /\ e.prevEndless = d.prevEndless /\ e.repeatOn = d.repeatOn /\ e.prevRepeat = d.prevRepeat
        /\ e.repeatUnits = d.repeatUnits
    BY <2>4 DEF Like, Fields
  <2>6. e.prevCount \in Nat
    BY <2>3, <2>4
  <2>7. CASE d.prevEndless
    <3>1. Repeats(e)
      BY <1>1, <2>4, <2>5, <2>6, <2>7 DEF Repeats
    <3> QED BY <2>4, <2>7, <3>1 DEF e, p
  <2>8. CASE ~d.prevEndless
    <3>1. Repeats(e)
      BY <1>1, <2>3, <2>4, <2>5, <2>6, <2>8 DEF Repeats
    <3> QED BY <2>3, <2>4, <2>8, <3>1 DEF e, p
  <2> QED BY <2>7, <2>8
<1>2. CASE ~d.repeatOn
  <2>1. e = Editor!RepeatOff(d)
    BY <1>2 DEF Editor!RefreshRepeatInfo
  <2> HIDE DEF e
  <2>2. RepeatIsOff(e, d)
    <3>1. n \in Nat
      OBVIOUS
    <3> QED BY <1>2, <2>1, <3>1, RepeatTurnedOff
  <2>3. /\ Like(e, d, {"repeat", "count", "endless"})
        /\ e.repeat = Spin(0, 0) /\ e.count = Spin(1, 1) /\ e.endless = FALSE
    BY <2>2 DEF RepeatIsOff
  <2>4. /\ e.prevEndless = d.prevEndless /\ e.repeatOn = d.repeatOn /\ e.prevRepeat = d.prevRepeat
        /\ e.repeatUnits = d.repeatUnits /\ e.prevCount = d.prevCount
    BY <2>3 DEF Like, Fields
  <2>5. Repeats(e)
    BY <1>2, <2>3, <2>4 DEF Repeats
  <2>6. Like(e, d, {"repeat", "count", "prevCount", "endless"})
    BY <2>3 DEF Like
  <2> QED BY <2>4, <2>5, <2>6 DEF e
<1> QED BY <1>1, <1>2

-----------------------------------------------------------------------------
(* Times are shown in units.                                                 *)
Mul(u) == Editor!DurationMul[u]

LEMMA UnitsDivide ==
  ASSUME NEW u \in 1..5
  PROVE  /\ Mul(u) \in Nat \ {0}
         /\ Editor!ToUnits(u) = u
         /\ \A v \in Nat : Mul(u) * v \in Nat /\ (Mul(u) * v = 0 <=> v = 0) /\ (Mul(u) * v) \div Mul(u) = v
         /\ \A v \in Nat : v \div Mul(u) \in Nat
<1>1. Editor!ToUnits(u) = u
  BY DEF Editor!ToUnits, Editor!Units
<1>2. Mul(u) \in {1, 1000, 60000, 3600000, 86400000}
  <2>1. u = 1 \/ u = 2 \/ u = 3 \/ u = 4 \/ u = 5
    OBVIOUS
  <2>2. /\ u = 1 => Mul(u) = 1
        /\ u = 2 => Mul(u) = 1000
        /\ u = 3 => Mul(u) = 60 * 1000
        /\ u = 4 => Mul(u) = 60 * 60 * 1000
        /\ u = 5 => Mul(u) = 24 * 60 * 60 * 1000
    BY DEF Mul, Editor!DurationMul
  <2>3. 60 * 1000 = 60000 /\ 60 * 60 * 1000 = 3600000 /\ 24 * 60 * 60 * 1000 = 86400000
    OBVIOUS
  <2> QED BY <2>1, <2>2, <2>3
<1> DEFINE k == Mul(u)
<1> HIDE DEF k
<1>3. k = 1 \/ k = 1000 \/ k = 60000 \/ k = 3600000 \/ k = 86400000
  BY <1>2 DEF k
<1>4. ASSUME NEW v \in Nat
      PROVE  k * v \in Nat /\ (k * v = 0 <=> v = 0) /\ (k * v) \div k = v /\ v \div k \in Nat
  <2>1. CASE k = 1
    BY <2>1
  <2>2. CASE k = 1000
    BY <2>2
  <2>3. CASE k = 60000
    BY <2>3
  <2>4. CASE k = 3600000
    BY <2>4
  <2>5. CASE k = 86400000
    BY <2>5
  <2> QED BY <1>3, <2>1, <2>2, <2>3, <2>4, <2>5
<1>5. k \in Nat \ {0}
  BY <1>3
<1> QED BY <1>1, <1>4, <1>5 DEF k

-----------------------------------------------------------------------------
(* A message that was loaded or accepted, and the dialog opened for it.      *)
Entered(m) ==
  /\ m.type \in Types /\ m.delay \in Nat /\ m.delayUnits \in 0..5
  /\ m.repeat \in Nat /\ m.repeatUnits \in 0..5 /\ m.count \in Nat
  /\ IF m.repeat = 0 THEN m.count = 1 ELSE m.count # 1

Delay(m) == m.delay \div Mul(Editor!ToUnits(m.delayUnits))
Repeat(m) == m.repeat \div Mul(Editor!ToUnits(m.repeatUnits))

ReadAs(d, m) ==
  /\ DOMAIN d = Fields /\ d.open /\ ~d.search /\ d.search \in BOOLEAN /\ d.current = m.type /\ d.pane = m.type
  /\ d.delayOn = (Delay(m) # 0) /\ d.delay = Spin(0, 0)
  /\ d.prevDelay = IF Delay(m) = 0 THEN 1 ELSE Delay(m)
  /\ d.delayUnits = IF Delay(m) = 0 THEN 1 ELSE Editor!ToUnits(m.delayUnits)
  /\ d.repeatOn = (Repeat(m) # 0) /\ d.repeat = Spin(0, 0) /\ d.count = Spin(0, 0)
  /\ d.prevRepeat = IF Repeat(m) = 0 THEN 1 ELSE Repeat(m)
  /\ d.repeatUnits = IF Repeat(m) = 0 THEN 1 ELSE Editor!ToUnits(m.repeatUnits)
  /\ d.prevEndless = (m.count = 0)
  /\ d.prevCount = IF m.count = 0 THEN 2 ELSE m.count

LEMMA ReadsAll ==
  ASSUME NEW m
  PROVE  ReadAs(Editor!Reads([Editor!Blank EXCEPT !.current = m.type, !.pane = m.type], m), m)
<1> DEFINE a == Editor!Blank
           d == [a EXCEPT !.current = m.type, !.pane = m.type]
           du == Editor!ToUnits(m.delayUnits)
           ru == Editor!ToUnits(m.repeatUnits)
           x == Delay(m)
           y == Repeat(m)
           b == IF x = 0 THEN d ELSE [d EXCEPT !.prevDelay = x, !.delayUnits = du, !.delayOn = TRUE]
           c == IF y = 0 THEN b ELSE [b EXCEPT !.prevRepeat = y, !.repeatUnits = ru, !.repeatOn = TRUE]
           e == IF m.count # 0 THEN [c EXCEPT !.prevCount = m.count] ELSE [c EXCEPT !.prevEndless = TRUE]
<1>1. Editor!Reads(d, m) = e
  BY DEF Editor!Reads, Delay, Repeat, Mul
<1>2. /\ DOMAIN a = Fields /\ a.open = TRUE /\ a.search = FALSE /\ a.delayOn = FALSE /\ a.delay = Spin(0, 0)
      /\ a.delayUnits = 1 /\ a.prevDelay = 1 /\ a.repeatOn = FALSE /\ a.repeat = Spin(0, 0)
      /\ a.repeatUnits = 1 /\ a.prevRepeat = 1 /\ a.count = Spin(0, 0) /\ a.prevCount = 2
      /\ a.prevEndless = FALSE
  BY DEF Editor!Blank, Fields, Spin
<1> HIDE DEF a
<1>3. /\ DOMAIN d = Fields /\ d["current"] = m.type /\ d["pane"] = m.type
      /\ \A f \in Fields \ {"current", "pane"} : d[f] = a[f]
  BY <1>2 DEF Fields
<1> HIDE DEF d, x, y, du, ru
<1>4. /\ DOMAIN b = Fields /\ \A f \in Fields \ {"prevDelay", "delayUnits", "delayOn"} : b[f] = d[f]
      /\ b["prevDelay"] = (IF x = 0 THEN d["prevDelay"] ELSE x)
      /\ b["delayUnits"] = (IF x = 0 THEN d["delayUnits"] ELSE du)
      /\ b["delayOn"] = (IF x = 0 THEN d["delayOn"] ELSE TRUE)
  BY <1>3 DEF Fields
<1> HIDE DEF b
<1>5. /\ DOMAIN c = Fields /\ \A f \in Fields \ {"prevRepeat", "repeatUnits", "repeatOn"} : c[f] = b[f]
      /\ c["prevRepeat"] = (IF y = 0 THEN b["prevRepeat"] ELSE y)
      /\ c["repeatUnits"] = (IF y = 0 THEN b["repeatUnits"] ELSE ru)
      /\ c["repeatOn"] = (IF y = 0 THEN b["repeatOn"] ELSE TRUE)
  BY <1>4 DEF Fields
<1> HIDE DEF c
<1>6. /\ DOMAIN e = Fields /\ \A f \in Fields \ {"prevCount", "prevEndless"} : e[f] = c[f]
      /\ e["prevCount"] = (IF m.count # 0 THEN m.count ELSE c["prevCount"])
      /\ e["prevEndless"] = (IF m.count # 0 THEN c["prevEndless"] ELSE TRUE)
  BY <1>5 DEF Fields
<1> HIDE DEF e
<1>7. /\ e["open"] = TRUE /\ e["search"] = FALSE /\ e["current"] = m.type /\ e["pane"] = m.type
      /\ e["delay"] = Spin(0, 0) /\ e["repeat"] = Spin(0, 0) /\ e["count"] = Spin(0, 0)
  BY <1>2, <1>3, <1>4, <1>5, <1>6 DEF Fields
<1>8. /\ e["prevDelay"] = (IF x = 0 THEN 1 ELSE x) /\ e["delayUnits"] = (IF x = 0 THEN 1 ELSE du)
      /\ e["delayOn"] = (IF x = 0 THEN FALSE ELSE TRUE)
  <2>1. d["prevDelay"] = 1 /\ d["delayUnits"] = 1 /\ d["delayOn"] = FALSE
    BY <1>2, <1>3 DEF Fields
  <2>2. e["prevDelay"] = b["prevDelay"] /\ e["delayUnits"] = b["delayUnits"] /\ e["delayOn"] = b["delayOn"]
    BY <1>5, <1>6 DEF Fields
  <2> QED BY <1>4, <2>1, <2>2
<1>9. /\ e["prevRepeat"] = (IF y = 0 THEN 1 ELSE y) /\ e["repeatUnits"] = (IF y = 0 THEN 1 ELSE ru)
      /\ e["repeatOn"] = (IF y = 0 THEN FALSE ELSE TRUE)
  <2>1. b["prevRepeat"] = 1 /\ b["repeatUnits"] = 1 /\ b["repeatOn"] = FALSE
    <3>1. d["prevRepeat"] = 1 /\ d["repeatUnits"] = 1 /\ d["repeatOn"] = FALSE
      BY <1>2, <1>3 DEF Fields
    <3> QED BY <1>4, <3>1 DEF Fields
  <2>2. e["prevRepeat"] = c["prevRepeat"] /\ e["repeatUnits"] = c["repeatUnits"] /\ e["repeatOn"] = c["repeatOn"]
    BY <1>6 DEF Fields
  <2> QED BY <1>5, <2>1, <2>2
<1>10. /\ e["prevCount"] = (IF m.count # 0 THEN m.count ELSE 2)
       /\ e["prevEndless"] = (IF m.count # 0 THEN FALSE ELSE TRUE)
  <2>1. d["prevCount"] = 2 /\ d["prevEndless"] = FALSE
    BY <1>2, <1>3 DEF Fields
  <2>2. b["prevCount"] = 2 /\ b["prevEndless"] = FALSE
    BY <1>4, <2>1 DEF Fields
  <2>3. c["prevCount"] = 2 /\ c["prevEndless"] = FALSE
    BY <1>5, <2>2 DEF Fields
  <2> QED BY <1>6, <2>3
<1> QED BY <1>1, <1>6, <1>7, <1>8, <1>9, <1>10 DEF ReadAs, d, a, x, y, du, ru

(* From the fields to the widgets.                                           *)
Ready(d) ==
  Editor!RefreshButtons(Editor!RefreshRepeatInfo(Editor!RefreshDelayInfo(d)))

LEMMA OpensDialog ==
  ASSUME NEW d, DOMAIN d = Fields, d.open, d.search \in BOOLEAN, ~d.search, d.pane = d.current,
         d.current \in Types \cup {Editor!None},
         d.delayOn \in BOOLEAN, d.delayUnits \in 1..5, d.prevDelay \in Nat \ {0}, d.delay = Spin(0, 0),
         d.repeatOn \in BOOLEAN, d.repeatUnits \in 1..5, d.prevRepeat \in Nat \ {0}, d.repeat = Spin(0, 0),
         d.prevCount \in Nat, d.count = Spin(0, 0), d.prevEndless \in BOOLEAN, d.repeatOn => d.prevCount >= 2
  PROVE  /\ Dialog([Ready(d) EXCEPT !.connected = TRUE])
         /\ \A f \in {"current", "delayOn", "delayUnits", "prevDelay", "repeatOn", "repeatUnits", "prevRepeat",
                       "prevEndless"} : [Ready(d) EXCEPT !.connected = TRUE][f] = d[f]
         /\ d.repeatOn => [Ready(d) EXCEPT !.connected = TRUE].prevCount = d.prevCount
<1> DEFINE z == 0
           a == Editor!RefreshDelayInfo(d)
           b == Editor!RefreshRepeatInfo(a)
           c == Editor!RefreshButtons(b)
           e == [c EXCEPT !.connected = TRUE]
<1>1. z \in Nat /\ z \in {0, 1} /\ z \in {0, 1, 2} /\ d.delay = Spin(z, z) /\ d.repeat = Spin(z, z)
      /\ d.count = Spin(z, z)
  OBVIOUS
<1> HIDE DEF z
<1>2. DelayShown(a, d)
  BY <1>1, DelayRefreshed
<1> HIDE DEF a
<1>3. Like(a, d, {"delay"}) /\ a["delay"] = IF d.delayOn THEN Spin(1, d.prevDelay) ELSE Spin(0, 0)
  BY <1>2 DEF DelayShown
<1>4. /\ DOMAIN a = Fields /\ a.repeat = d.repeat /\ a.prevRepeat = d.prevRepeat /\ a.count = d.count
      /\ a.prevCount = d.prevCount /\ a.prevEndless = d.prevEndless /\ a.repeatOn = d.repeatOn
      /\ a.repeatUnits = d.repeatUnits
  BY <1>3 DEF Like, Fields
<1>5. /\ Like(b, a, {"repeat", "count", "prevCount", "endless"}) /\ Repeats(b)
      /\ a.prevCount >= 2 => b.prevCount = a.prevCount
  BY <1>1, <1>4, RepeatRefreshed
<1> HIDE DEF b
<1>6. /\ DOMAIN e = Fields /\ e["buttons"] = (b.current # Editor!None) /\ e["connected"] = TRUE
      /\ \A f \in Fields \ {"buttons", "connected"} : e[f] = b[f]
  BY <1>5 DEF Editor!RefreshButtons, Like, Fields
<1>7. e = [Ready(d) EXCEPT !.connected = TRUE]
  BY DEF Ready, a, b
<1> HIDE DEF e
<1>8. \A f \in Fields \ {"delay", "repeat", "count", "prevCount", "endless", "buttons", "connected"} : e[f] = d[f]
  BY <1>3, <1>5, <1>6 DEF Like
<1>9. Repeats(e)
  <2>1. /\ e.repeatOn = b.repeatOn /\ e.endless = b.endless /\ e.prevEndless = b.prevEndless
        /\ e.repeatUnits = b.repeatUnits /\ e.prevRepeat = b.prevRepeat /\ e.prevCount = b.prevCount
        /\ e.repeat = b.repeat /\ e.count = b.count
    BY <1>6 DEF Fields
  <2> QED BY <1>5, <2>1 DEF Repeats
<1>10. Delays(e)
  <2>1. e.delayOn = d.delayOn /\ e.delayUnits = d.delayUnits /\ e.prevDelay = d.prevDelay /\ e.delay = a.delay
    <3>1. e.delay = a.delay
      BY <1>5, <1>6 DEF Fields, Like
    <3> QED BY <1>8, <3>1 DEF Fields
  <2> QED BY <1>3, <2>1 DEF Delays
<1>11. Lists(e)
  <2>1. /\ e.search = d.search /\ e.pane = d.pane /\ e.current = d.current
        /\ e.buttons = (d.current # Editor!None)
    BY <1>6, <1>8 DEF Fields
  <2> QED BY <2>1 DEF Lists
<1>12. e.open /\ e.connected
  BY <1>6, <1>8 DEF Fields
<1>13. Dialog(e)
  BY <1>6, <1>9, <1>10, <1>11, <1>12 DEF Dialog
<1>14. d.repeatOn => e.prevCount = d.prevCount
  BY <1>4, <1>5, <1>6 DEF Fields
<1>15. \A f \in {"current", "delayOn", "delayUnits", "prevDelay", "repeatOn", "repeatUnits", "prevRepeat",
                 "prevEndless"} : e[f] = d[f]
  BY <1>8 DEF Fields
<1> QED BY <1>7, <1>13, <1>14, <1>15

OpensAs(e, m) ==
  /\ e.delayOn = (Delay(m) # 0)
  /\ Delay(m) # 0 => e.prevDelay = Delay(m) /\ e.delayUnits = Editor!ToUnits(m.delayUnits)
  /\ e.repeatOn = (Repeat(m) # 0)
  /\ Repeat(m) # 0 =>
       /\ e.prevRepeat = Repeat(m) /\ e.repeatUnits = Editor!ToUnits(m.repeatUnits)
       /\ e.prevCount = (IF m.count = 0 THEN 2 ELSE m.count) /\ e.prevEndless = (m.count = 0)

LEMMA OpenedFor ==
  ASSUME NEW m, Entered(m)
  PROVE  Dialog(Editor!Opened(m)) /\ OpensAs(Editor!Opened(m), m)
<1> DEFINE d == Editor!Reads([Editor!Blank EXCEPT !.current = m.type, !.pane = m.type], m)
           e == Editor!Opened(m)
<1>1. m # Editor!NoMessage
  BY EditorAssumption DEF Entered, Types, Editor!NoMessage, Editor!None
<1>2. e = [Ready(d) EXCEPT !.connected = TRUE]
  BY <1>1 DEF Editor!Opened, Ready
<1>3. ReadAs(d, m)
  BY ReadsAll
<1> HIDE DEF d, e
<1>4. /\ Editor!ToUnits(m.delayUnits) \in 1..5 /\ Editor!ToUnits(m.repeatUnits) \in 1..5
      /\ Delay(m) \in Nat /\ Repeat(m) \in Nat
  <2>1. Editor!ToUnits(m.delayUnits) \in 1..5 /\ Editor!ToUnits(m.repeatUnits) \in 1..5
    BY DEF Editor!ToUnits, Editor!Units, Entered
  <2>2. m.delay \in Nat /\ m.repeat \in Nat
    BY DEF Entered
  <2> QED BY <2>1, <2>2, UnitsDivide DEF Delay, Repeat
<1>5. m.count \in Nat /\ (Repeat(m) # 0 => m.count # 1) /\ m.type \in Types
  <2>1. m.repeat = 0 => Repeat(m) = 0
    <3>1. \A u \in 1..5 : 0 \div Mul(u) = 0
      <4> TAKE u \in 1..5
      <4>1. Mul(u) * 0 = 0 /\ (Mul(u) * 0) \div Mul(u) = 0
        <5> DEFINE z == 0
        <5>1. z \in Nat
          OBVIOUS
        <5> HIDE DEF z
        <5>2. (Mul(u) * z = 0 <=> z = 0) /\ (Mul(u) * z) \div Mul(u) = z
          BY <5>1, UnitsDivide
        <5> QED BY <5>2 DEF z
      <4> QED BY <4>1
    <3> QED BY <1>4, <3>1 DEF Repeat
  <2> QED BY <2>1 DEF Entered
<1>6. /\ DOMAIN d = Fields /\ d.open /\ d.search \in BOOLEAN /\ ~d.search /\ d.pane = d.current
      /\ d.current = m.type /\ d.delay = Spin(0, 0) /\ d.repeat = Spin(0, 0) /\ d.count = Spin(0, 0)
  BY <1>3 DEF ReadAs
<1>7. /\ d.delayOn = (Delay(m) # 0)
      /\ d.delayUnits \in 1..5 /\ (Delay(m) # 0 => d.delayUnits = Editor!ToUnits(m.delayUnits))
      /\ d.prevDelay \in Nat \ {0} /\ (Delay(m) # 0 => d.prevDelay = Delay(m))
  <2>1. /\ d.delayOn = (Delay(m) # 0) /\ d.prevDelay = (IF Delay(m) = 0 THEN 1 ELSE Delay(m))
        /\ d.delayUnits = IF Delay(m) = 0 THEN 1 ELSE Editor!ToUnits(m.delayUnits)
    BY <1>3 DEF ReadAs
  <2> QED BY <1>4, <2>1
<1>8. /\ d.repeatOn = (Repeat(m) # 0)
      /\ d.repeatUnits \in 1..5 /\ (Repeat(m) # 0 => d.repeatUnits = Editor!ToUnits(m.repeatUnits))
      /\ d.prevRepeat \in Nat \ {0} /\ (Repeat(m) # 0 => d.prevRepeat = Repeat(m))
  <2>1. /\ d.repeatOn = (Repeat(m) # 0) /\ d.prevRepeat = (IF Repeat(m) = 0 THEN 1 ELSE Repeat(m))
        /\ d.repeatUnits = IF Repeat(m) = 0 THEN 1 ELSE Editor!ToUnits(m.repeatUnits)
    BY <1>3 DEF ReadAs
  <2> QED BY <1>4, <2>1
<1>9. /\ d.prevEndless = (m.count = 0) /\ d.prevCount = (IF m.count = 0 THEN 2 ELSE m.count)
  BY <1>3 DEF ReadAs
<1>10. d.delayOn \in BOOLEAN /\ d.repeatOn \in BOOLEAN /\ d.prevEndless \in BOOLEAN
  BY <1>7, <1>8, <1>9
<1>11. d.prevCount \in Nat /\ (d.repeatOn => d.prevCount >= 2)
  <2> DEFINE n == m.count
             p == d.prevCount
  <2>1. n \in Nat /\ p = (IF n = 0 THEN 2 ELSE n)
    BY <1>5, <1>9
  <2>2. d.repeatOn => n # 1
    BY <1>5, <1>8
  <2> HIDE DEF n, p
  <2>3. p \in Nat /\ (n # 1 => p >= 2)
    BY <2>1
  <2> QED BY <2>2, <2>3 DEF p
<1>12. /\ Dialog(e)
       /\ \A f \in {"current", "delayOn", "delayUnits", "prevDelay", "repeatOn", "repeatUnits", "prevRepeat",
                     "prevEndless"} : e[f] = d[f]
       /\ d.repeatOn => e.prevCount = d.prevCount
  BY <1>2, <1>5, <1>6, <1>7, <1>8, <1>10, <1>11, OpensDialog
<1>13. /\ e.current = d.current /\ e.delayOn = d.delayOn /\ e.delayUnits = d.delayUnits
       /\ e.prevDelay = d.prevDelay /\ e.repeatOn = d.repeatOn /\ e.repeatUnits = d.repeatUnits
       /\ e.prevRepeat = d.prevRepeat /\ e.prevEndless = d.prevEndless
  BY <1>12
<1>14. OpensAs(e, m)
  <2>1. e.delayOn = (Delay(m) # 0) /\ e.repeatOn = (Repeat(m) # 0) /\ e.prevEndless = (m.count = 0)
    BY <1>7, <1>8, <1>9, <1>13
  <2>2. Delay(m) # 0 => e.prevDelay = Delay(m) /\ e.delayUnits = Editor!ToUnits(m.delayUnits)
    BY <1>7, <1>13
  <2>3. Repeat(m) # 0 => e.prevRepeat = Repeat(m) /\ e.repeatUnits = Editor!ToUnits(m.repeatUnits)
    BY <1>8, <1>13
  <2>4. Repeat(m) # 0 => e.prevCount = (IF m.count = 0 THEN 2 ELSE m.count)
    <3>1. Repeat(m) # 0 => d.repeatOn
      BY <1>8
    <3> QED BY <1>9, <1>12, <3>1
  <2> QED BY <2>1, <2>2, <2>3, <2>4 DEF OpensAs
<1> QED BY <1>12, <1>14 DEF e

LEMMA OpenedForNew == Dialog(Editor!Opened(Editor!NoMessage))
<1> DEFINE d == Editor!Blank
<1>1. Editor!Opened(Editor!NoMessage) = [Ready(d) EXCEPT !.connected = TRUE]
  BY DEF Editor!Opened, Ready
<1>2. /\ DOMAIN d = Fields /\ d.open /\ d.search \in BOOLEAN /\ ~d.search /\ d.pane = d.current
      /\ d.current = Editor!None /\ d.delay = Spin(0, 0) /\ d.repeat = Spin(0, 0) /\ d.count = Spin(0, 0)
      /\ d.delayUnits = 1 /\ d.prevDelay = 1 /\ d.repeatUnits = 1 /\ d.prevRepeat = 1 /\ d.prevCount = 2
  BY DEF Editor!Blank, Fields, Spin
<1>3. d.delayOn = FALSE /\ d.repeatOn = FALSE /\ d.prevEndless = FALSE
  BY DEF Editor!Blank
<1> HIDE DEF d
<1>4. /\ d.delayOn \in BOOLEAN /\ d.repeatOn \in BOOLEAN /\ ~d.repeatOn /\ d.prevEndless \in BOOLEAN
      /\ d.delayUnits \in 1..5 /\ d.repeatUnits \in 1..5 /\ d.prevDelay \in Nat \ {0}
      /\ d.prevRepeat \in Nat \ {0} /\ d.prevCount \in Nat
  <2>1. d.delayOn \in BOOLEAN /\ d.repeatOn \in BOOLEAN /\ ~d.repeatOn /\ d.prevEndless \in BOOLEAN
    BY <1>3
  <2>2. /\ d.delayUnits \in 1..5 /\ d.repeatUnits \in 1..5 /\ d.prevDelay \in Nat \ {0}
        /\ d.prevRepeat \in Nat \ {0} /\ d.prevCount \in Nat
    BY <1>2
  <2> QED BY <2>1, <2>2
<1> QED BY <1>1, <1>2, <1>4, OpensDialog

LEMMA AcceptedIsEntered ==
  ASSUME NEW d, Dialog(d), d.buttons
  PROVE  /\ Entered(Editor!Accepted(d))
         /\ Editor!Accepted(d).type = d.current
         /\ Delay(Editor!Accepted(d)) = d.delay.value /\ Editor!ToUnits(Editor!Accepted(d).delayUnits) = d.delayUnits
         /\ Repeat(Editor!Accepted(d)) = d.repeat.value
         /\ Editor!ToUnits(Editor!Accepted(d).repeatUnits) = d.repeatUnits
         /\ Editor!Accepted(d).count = d.count.value
<1> DEFINE m == Editor!Accepted(d)
           x == d.delay.value
           y == d.repeat.value
           n == d.count.value
<1>1. /\ m.type = d.current /\ m.delay = Mul(d.delayUnits) * x /\ m.delayUnits = d.delayUnits
      /\ m.repeat = Mul(d.repeatUnits) * y /\ m.repeatUnits = d.repeatUnits /\ m.count = n
  BY DEF Editor!Accepted, Mul
<1>2. d.current \in Types
  BY DEF Dialog, Lists
<1>3. x \in Nat /\ d.delayUnits \in 1..5
  BY DEF Dialog, Delays, Spin
<1>4. y \in Nat /\ n \in Nat /\ d.repeatUnits \in 1..5 /\ (IF y = 0 THEN n = 1 ELSE n # 1)
  <2>1. Repeats(d)
    BY DEF Dialog
  <2>2. CASE ~d.repeatOn
    BY <2>1, <2>2 DEF Repeats, Spin
  <2>3. CASE d.repeatOn /\ d.endless
    BY <2>1, <2>3 DEF Repeats, Spin
  <2>4. CASE d.repeatOn /\ ~d.endless
    BY <2>1, <2>4 DEF Repeats, Spin
  <2> QED BY <2>2, <2>3, <2>4
<1> HIDE DEF m, x, y, n
<1>5. /\ m.delay \in Nat /\ m.repeat \in Nat /\ (m.repeat = 0 <=> y = 0)
      /\ m.delay \div Mul(d.delayUnits) = x /\ m.repeat \div Mul(d.repeatUnits) = y
      /\ Editor!ToUnits(d.delayUnits) = d.delayUnits /\ Editor!ToUnits(d.repeatUnits) = d.repeatUnits
  <2> DEFINE u == d.delayUnits
             w == d.repeatUnits
  <2>1. u \in 1..5 /\ w \in 1..5
    BY <1>3, <1>4
  <2> HIDE DEF u, w
  <2>2. Mul(u) * x \in Nat /\ (Mul(u) * x) \div Mul(u) = x /\ Editor!ToUnits(u) = u
    BY <1>3, <2>1, UnitsDivide
  <2>3. Mul(w) * y \in Nat /\ (Mul(w) * y = 0 <=> y = 0) /\ (Mul(w) * y) \div Mul(w) = y /\ Editor!ToUnits(w) = w
    BY <1>4, <2>1, UnitsDivide
  <2>4. m.delay = Mul(u) * x /\ m.repeat = Mul(w) * y
    BY <1>1 DEF u, w
  <2> QED BY <2>2, <2>3, <2>4 DEF u, w
<1>6. Entered(m)
  BY <1>1, <1>2, <1>3, <1>4, <1>5 DEF Entered
<1> QED BY <1>1, <1>5, <1>6 DEF m, x, y, n, Delay, Repeat

(* Accepted and opened again, the dialog is as it was.                       *)
LEMMA DialogComesBack ==
  ASSUME NEW d, Dialog(d), d.buttons
  PROVE  LET e == Editor!Opened(Editor!Accepted(d))
         IN  /\ e.delayOn = d.delayOn /\ e.delay = d.delay
             /\ e.repeatOn = d.repeatOn /\ e.repeat = d.repeat
             /\ e.endless = d.endless /\ e.count = d.count
             /\ d.delayOn => e.delayUnits = d.delayUnits
             /\ d.repeatOn => e.repeatUnits = d.repeatUnits
<1> DEFINE m == Editor!Accepted(d)
           e == Editor!Opened(m)
<1>1. /\ Entered(m) /\ Delay(m) = d.delay.value /\ Repeat(m) = d.repeat.value /\ m.count = d.count.value
      /\ Editor!ToUnits(m.delayUnits) = d.delayUnits /\ Editor!ToUnits(m.repeatUnits) = d.repeatUnits
  BY AcceptedIsEntered
<1> HIDE DEF m
<1>2. Dialog(e) /\ OpensAs(e, m)
  BY <1>1, OpenedFor
<1> HIDE DEF e
<1>3. /\ Delays(d) /\ Repeats(d) /\ Delays(e) /\ Repeats(e)
  BY <1>2 DEF Dialog
<1>4. e.delayOn = d.delayOn /\ e.delay = d.delay /\ (d.delayOn => e.delayUnits = d.delayUnits)
  <2>1. CASE d.delayOn
    <3>1. d.delay = Spin(1, d.prevDelay) /\ d.delay.value = d.prevDelay /\ d.prevDelay # 0 /\ d.delayOn = TRUE
      BY <1>3, <2>1 DEF Delays, Spin
    <3>2. e.delayOn = TRUE /\ e.prevDelay = d.prevDelay /\ e.delayUnits = d.delayUnits
      BY <1>1, <1>2, <3>1 DEF OpensAs
    <3>3. e.delay = Spin(1, e.prevDelay)
      BY <1>3, <3>2 DEF Delays
    <3> QED BY <3>1, <3>2, <3>3
  <2>2. CASE ~d.delayOn
    <3>1. d.delay = Spin(0, 0) /\ d.delay.value = 0 /\ d.delayOn = FALSE
      BY <1>3, <2>2 DEF Delays, Spin
    <3>2. e.delayOn = FALSE
      BY <1>1, <1>2, <3>1 DEF OpensAs
    <3>3. e.delay = Spin(0, 0)
      BY <1>3, <3>2 DEF Delays
    <3> QED BY <2>2, <3>1, <3>2, <3>3
  <2> QED BY <2>1, <2>2
<1>5. CASE ~d.repeatOn
  <2>1. d.repeat = Spin(0, 0) /\ d.count = Spin(1, 1) /\ d.endless = FALSE /\ d.repeatOn = FALSE
        /\ d.repeat.value = 0
    BY <1>3, <1>5 DEF Repeats, Spin
  <2>2. e.repeatOn = FALSE
    BY <1>1, <1>2, <2>1 DEF OpensAs
  <2>3. e.repeat = Spin(0, 0) /\ e.count = Spin(1, 1) /\ e.endless = FALSE
    BY <1>3, <2>2 DEF Repeats
  <2> QED BY <1>4, <1>5, <2>1, <2>2, <2>3 DEF e, m
<1>6. CASE d.repeatOn
  <2>1. d.repeat = Spin(1, d.prevRepeat) /\ d.repeat.value = d.prevRepeat /\ d.prevRepeat # 0 /\ d.repeatOn = TRUE
    BY <1>3, <1>6 DEF Repeats, Spin
  <2>2. e.repeatOn = TRUE /\ e.prevRepeat = d.prevRepeat /\ e.repeatUnits = d.repeatUnits
    BY <1>1, <1>2, <2>1 DEF OpensAs
  <2>3. e.repeat = d.repeat
    BY <1>3, <2>1, <2>2 DEF Repeats
  <2>4. CASE d.endless
    <3>1. d.count = Spin(0, 0) /\ d.count.value = 0 /\ d.endless = TRUE
      BY <1>3, <1>6, <2>4 DEF Repeats, Spin
    <3>2. e.prevEndless = TRUE
      BY <1>1, <1>2, <2>1, <3>1 DEF OpensAs
    <3>3. e.endless = TRUE /\ e.count = Spin(0, 0)
      BY <1>3, <2>2, <3>2 DEF Repeats
    <3> QED BY <1>4, <2>1, <2>2, <2>3, <3>1, <3>3 DEF e, m
  <2>5. CASE ~d.endless
    <3>1. d.count = Spin(2, d.prevCount) /\ d.count.value = d.prevCount /\ d.prevCount # 0 /\ d.endless = FALSE
      BY <1>3, <1>6, <2>5 DEF Repeats, Spin
    <3>2. e.prevEndless = FALSE /\ e.prevCount = d.prevCount
      BY <1>1, <1>2, <2>1, <3>1 DEF OpensAs
    <3>3. e.endless = FALSE /\ e.count = Spin(2, d.prevCount)
      BY <1>3, <2>2, <3>2 DEF Repeats
    <3> QED BY <1>4, <2>1, <2>2, <2>3, <3>1, <3>3 DEF e, m
  <2> QED BY <2>4, <2>5
<1> QED BY <1>5, <1>6

-----------------------------------------------------------------------------
(* The steps of the dialog.                                                  *)
EditorRuns ==
  subject = "editor" =>
    /\ editor = Editor!Closed \/ Dialog(editor)
    /\ message = Editor!NoMessage \/ Entered(message)

LEMMA OpenIsDialog == EditorRuns /\ subject = "editor" /\ editor.open => Dialog(editor)
  BY DEF EditorRuns, Editor!Closed

LEMMA EditorInit == Init => EditorRuns
<1> SUFFICES ASSUME Init
             PROVE  editor = Editor!Closed /\ (message = Editor!NoMessage \/ Entered(message))
  BY DEF EditorRuns
<1>1. editor = Editor!Closed /\ message \in {Editor!NoMessage, Editor!Loaded}
  BY DEF Init, Editor!Init
<1>2. Entered(Editor!Loaded)
  <2>1. Head(MessageTypes) = MessageTypes[1] /\ 1 \in DOMAIN MessageTypes
    BY EditorAssumption
  <2>2. Head(MessageTypes) \in Types
    BY <2>1 DEF Types
  <2>3. /\ Editor!Loaded.type = Head(MessageTypes) /\ Editor!Loaded.delay = 15 /\ Editor!Loaded.delayUnits = 0
        /\ Editor!Loaded.repeat = 0 /\ Editor!Loaded.repeatUnits = 0 /\ Editor!Loaded.count = 1
    BY DEF Editor!Loaded
  <2> QED BY <2>2, <2>3 DEF Entered
<1> QED BY <1>1, <1>2

LEMMA ListIsOfTypes == \A d : Editor!Listed(d) = {t \in Types : d.search => t \in Matching}
  BY DEF Editor!Listed, Editor!ToSet, Types

LEMMA TypeSelected ==
  ASSUME NEW d, Dialog(d), NEW t \in Editor!Listed(d)
  PROVE  Dialog(Editor!Select(d, t))
<1> DEFINE e == Editor!Select(d, t)
<1>1. t \in Types /\ (d.search => t \in Matching)
  BY ListIsOfTypes
<1>2. DOMAIN d = Fields
  BY DEF Dialog
<1>3. /\ Like(e, d, {"current", "pane", "buttons"}) /\ e["current"] = t /\ e["pane"] = t
      /\ e["buttons"] = (t # Editor!None)
  BY <1>2 DEF Editor!Select, Editor!RefreshButtons, Like, Fields
<1> HIDE DEF e
<1>4. /\ e.open = d.open /\ e.connected = d.connected /\ e.search = d.search
      /\ e.delayOn = d.delayOn /\ e.delay = d.delay /\ e.delayUnits = d.delayUnits /\ e.prevDelay = d.prevDelay
      /\ e.repeatOn = d.repeatOn /\ e.repeat = d.repeat /\ e.repeatUnits = d.repeatUnits
      /\ e.prevRepeat = d.prevRepeat /\ e.count = d.count /\ e.prevCount = d.prevCount
      /\ e.endless = d.endless /\ e.prevEndless = d.prevEndless /\ DOMAIN e = Fields
  BY <1>3 DEF Like, Fields
<1>5. Lists(e)
  BY <1>1, <1>3, <1>4 DEF Lists, Dialog
<1> QED BY <1>4, <1>5 DEF Dialog, Delays, Repeats, e

LEMMA ListSearched ==
  ASSUME NEW d, Dialog(d)
  PROVE  Dialog(Editor!RefreshDisplayedList([d EXCEPT !.search = ~@]))
<1> DEFINE a == [d EXCEPT !.search = ~@]
           c == IF a.current \in Editor!Listed(a) THEN a.current ELSE Editor!None
           b == Editor!RefreshButtons([a EXCEPT !.current = c])
           e == Editor!RefreshDisplayedList(a)
<1>1. e = IF b.current = Editor!None THEN [b EXCEPT !.pane = Editor!None] ELSE b
  BY DEF Editor!RefreshDisplayedList
<1>2. DOMAIN d = Fields /\ d.search \in BOOLEAN /\ d.pane = d.current
  BY DEF Dialog, Lists
<1>3. /\ DOMAIN a = Fields /\ (a["search"] = ~d.search) /\ \A f \in Fields \ {"search"} : a[f] = d[f]
  BY <1>2 DEF Fields
<1>4. a.search \in BOOLEAN
  BY <1>3
<1> HIDE DEF a, e
<1>5. c = Editor!None \/ (c = d.current /\ c \in Types /\ (a.search => c \in Matching))
  BY <1>3, ListIsOfTypes DEF Fields
<1> HIDE DEF c
<1>6. /\ DOMAIN b = Fields /\ b["current"] = c /\ b["buttons"] = (c # Editor!None)
      /\ \A f \in Fields \ {"current", "buttons"} : b[f] = a[f]
  BY <1>3 DEF Editor!RefreshButtons, Fields
<1> HIDE DEF b
<1>7. /\ DOMAIN e = Fields /\ e["pane"] = (IF c = Editor!None THEN Editor!None ELSE b["pane"])
      /\ \A f \in Fields \ {"pane"} : e[f] = b[f]
  <2>1. CASE c = Editor!None
    BY <1>1, <1>6, <2>1 DEF Fields
  <2>2. CASE c # Editor!None
    BY <1>1, <1>6, <2>2 DEF Fields
  <2> QED BY <2>1, <2>2
<1>8. /\ e.open = d.open /\ e.connected = d.connected /\ e.search = a.search
      /\ e.delayOn = d.delayOn /\ e.delay = d.delay /\ e.delayUnits = d.delayUnits /\ e.prevDelay = d.prevDelay
      /\ e.repeatOn = d.repeatOn /\ e.repeat = d.repeat /\ e.repeatUnits = d.repeatUnits
      /\ e.prevRepeat = d.prevRepeat /\ e.count = d.count /\ e.prevCount = d.prevCount
      /\ e.endless = d.endless /\ e.prevEndless = d.prevEndless
  BY <1>3, <1>6, <1>7 DEF Fields
<1>9. Lists(e)
  <2>1. e.current = c /\ e.buttons = (c # Editor!None) /\ b["pane"] = d.pane
    BY <1>3, <1>6, <1>7 DEF Fields
  <2>2. e.pane = c
    BY <1>2, <1>5, <1>7, <2>1
  <2> QED BY <1>4, <1>5, <1>8, <2>1, <2>2 DEF Lists
<1> QED BY <1>7, <1>8, <1>9 DEF Dialog, Delays, Repeats, e, a

LEMMA DelayChecked ==
  ASSUME NEW d, Dialog(d)
  PROVE  /\ Dialog(Editor!RefreshDelayInfo([d EXCEPT !.delayOn = ~@]))
         /\ \A f \in {"prevDelay", "prevRepeat", "prevCount"} :
              Editor!RefreshDelayInfo([d EXCEPT !.delayOn = ~@])[f] = d[f]
<1> DEFINE a == [d EXCEPT !.delayOn = ~@]
           e == Editor!RefreshDelayInfo(a)
<1>1. DOMAIN d = Fields /\ Delays(d)
  BY DEF Dialog
<1>2. DOMAIN a = Fields /\ (a["delayOn"] = ~d.delayOn) /\ \A f \in Fields \ {"delayOn"} : a[f] = d[f]
  BY <1>1 DEF Fields
<1> HIDE DEF a
<1>3. /\ a.delay = d.delay /\ a.prevDelay = d.prevDelay
  BY <1>2 DEF Fields
<1>4. PICK m \in {0, 1}, v \in Nat : a.delay = Spin(m, v)
  <2>1. CASE d.delayOn
    BY <1>1, <1>3, <2>1 DEF Delays
  <2>2. CASE ~d.delayOn
    BY <1>1, <1>3, <2>2 DEF Delays
  <2> QED BY <2>1, <2>2
<1>5. DelayShown(e, a)
  BY <1>1, <1>2, <1>3, <1>4, DelayRefreshed DEF Delays
<1> HIDE DEF e
<1>6. Like(e, a, {"delay"}) /\ e["delay"] = (IF a.delayOn THEN Spin(1, a.prevDelay) ELSE Spin(0, 0))
  BY <1>5 DEF DelayShown
<1>7. /\ DOMAIN e = Fields /\ e.open = d.open /\ e.connected = d.connected /\ e.search = d.search
      /\ e.current = d.current /\ e.pane = d.pane /\ e.buttons = d.buttons
      /\ e.delayUnits = d.delayUnits /\ e.prevDelay = d.prevDelay
      /\ e.repeatOn = d.repeatOn /\ e.repeat = d.repeat /\ e.repeatUnits = d.repeatUnits
      /\ e.prevRepeat = d.prevRepeat /\ e.count = d.count /\ e.prevCount = d.prevCount
      /\ e.endless = d.endless /\ e.prevEndless = d.prevEndless /\ e.delayOn = a.delayOn
  BY <1>2, <1>6 DEF Like, Fields
<1>8. Delays(e)
  <2>1. a.delayOn \in BOOLEAN
    BY <1>2
  <2>2. e.delay = (IF e.delayOn THEN Spin(1, e.prevDelay) ELSE Spin(0, 0))
    BY <1>3, <1>6, <1>7
  <2> QED BY <1>1, <1>7, <2>1, <2>2 DEF Delays
<1>9. Lists(e) /\ Repeats(e) /\ e.open /\ e.connected
  BY <1>7 DEF Dialog, Lists, Repeats
<1> QED BY <1>7, <1>8, <1>9 DEF Dialog, e, a

LEMMA RepeatChecked ==
  ASSUME NEW d, Dialog(d), NEW a, Like(a, d, {"repeatOn", "endless", "prevEndless"}),
         a.repeatOn \in BOOLEAN, a.prevEndless \in BOOLEAN,
         d.repeatOn \/ a.repeatOn
  PROVE  /\ Dialog(Editor!RefreshRepeatInfo(a))
         /\ \A f \in {"prevDelay", "prevRepeat"} : Editor!RefreshRepeatInfo(a)[f] = d[f]
         /\ Editor!AtLeast(2, Editor!RefreshRepeatInfo(a).prevCount) = Editor!AtLeast(2, d.prevCount)
<1> DEFINE e == Editor!RefreshRepeatInfo(a)
<1>1. DOMAIN d = Fields /\ Repeats(d) /\ d.connected
  BY DEF Dialog
<1>2. /\ DOMAIN a = Fields /\ a.repeat = d.repeat /\ a.prevRepeat = d.prevRepeat /\ a.count = d.count
      /\ a.prevCount = d.prevCount /\ a.repeatUnits = d.repeatUnits /\ a.connected
  BY <1>1 DEF Like, Fields
<1>3. PICK m \in {0, 1}, v \in Nat : a.repeat = Spin(m, v)
  <2>1. CASE d.repeatOn
    BY <1>1, <1>2, <2>1 DEF Repeats
  <2>2. CASE ~d.repeatOn
    BY <1>1, <1>2, <2>2 DEF Repeats
  <2> QED BY <2>1, <2>2
<1>4. PICK n \in {0, 1, 2}, w \in Nat : a.count = Spin(n, w) /\ (a.prevCount < 2 => n < 2)
  <2>1. CASE ~d.repeatOn
    BY <1>1, <1>2, <2>1 DEF Repeats
  <2>2. CASE d.repeatOn /\ d.endless
    BY <1>1, <1>2, <2>2 DEF Repeats
  <2>3. CASE d.repeatOn /\ ~d.endless
    BY <1>1, <1>2, <2>3 DEF Repeats
  <2> QED BY <2>1, <2>2, <2>3
<1>5. a.prevRepeat \in Nat \ {0} /\ a.prevCount \in Nat /\ a.repeatUnits \in 1..5
  BY <1>1, <1>2 DEF Repeats
<1>6. /\ Like(e, a, {"repeat", "count", "prevCount", "endless"}) /\ Repeats(e)
      /\ Editor!AtLeast(2, e.prevCount) = Editor!AtLeast(2, a.prevCount)
  BY <1>2, <1>3, <1>4, <1>5, RepeatRefreshed
<1> HIDE DEF e
<1>7. /\ DOMAIN e = Fields /\ e.open = d.open /\ e.connected = d.connected /\ e.search = d.search
      /\ e.current = d.current /\ e.pane = d.pane /\ e.buttons = d.buttons
      /\ e.delayOn = d.delayOn /\ e.delay = d.delay /\ e.delayUnits = d.delayUnits /\ e.prevDelay = d.prevDelay
      /\ e.prevRepeat = d.prevRepeat
  BY <1>6 DEF Like, Fields
<1>8. Lists(e) /\ Delays(e) /\ e.open /\ e.connected
  BY <1>7 DEF Dialog, Lists, Delays
<1>9. Dialog(e)
  BY <1>6, <1>7, <1>8 DEF Dialog
<1> QED BY <1>2, <1>6, <1>7, <1>9 DEF e

LEMMA DelayTyped ==
  ASSUME NEW d, Dialog(d), d.delayOn, NEW n \in Nat
  PROVE  Dialog(Editor!SetValue(d, "delay", n))
<1> DEFINE e == Editor!SetValue(d, "delay", n)
           w == Editor!AtLeast(1, n)
           m == 1
<1>1. DOMAIN d = Fields /\ Delays(d) /\ d.connected
  BY DEF Dialog
<1>2. d.delay = Spin(m, d.prevDelay) /\ d.prevDelay \in Nat /\ m \in Nat /\ "delay" \in Boxes
      /\ Prev("delay") = "prevDelay" /\ d.delay.value = d.prevDelay
  BY <1>1 DEF Delays, Boxes, Prev, Spin
<1>3. w \in Nat \ {0}
  BY DEF Editor!AtLeast
<1> HIDE DEF m
<1>4. BoxIs(e, d, "delay", m, Editor!AtLeast(m, n))
  BY <1>1, <1>2, ValueSet
<1> HIDE DEF e, w
<1>5. Listens(d, "delay")
  BY <1>1 DEF Listens
<1>6. Like(e, d, {"delay", "prevDelay"}) /\ e["delay"] = Spin(1, w) /\ e["prevDelay"] = w
  BY <1>2, <1>4, <1>5 DEF BoxIs, m, w
<1>7. /\ DOMAIN e = Fields /\ e.open = d.open /\ e.connected = d.connected /\ e.search = d.search
      /\ e.current = d.current /\ e.pane = d.pane /\ e.buttons = d.buttons
      /\ e.delayUnits = d.delayUnits /\ e.delayOn = d.delayOn
      /\ e.repeatOn = d.repeatOn /\ e.repeat = d.repeat /\ e.repeatUnits = d.repeatUnits
      /\ e.prevRepeat = d.prevRepeat /\ e.count = d.count /\ e.prevCount = d.prevCount
      /\ e.endless = d.endless /\ e.prevEndless = d.prevEndless
  BY <1>6 DEF Like, Fields
<1>8. Lists(e) /\ Repeats(e) /\ e.open /\ e.connected
  BY <1>7 DEF Dialog, Lists, Repeats
<1>9. Delays(e)
  BY <1>1, <1>3, <1>6, <1>7 DEF Delays
<1> QED BY <1>7, <1>8, <1>9 DEF Dialog, e

LEMMA RepeatTyped ==
  ASSUME NEW d, Dialog(d), d.repeatOn, NEW n \in Nat
  PROVE  Dialog(Editor!SetValue(d, "repeat", n))
<1> DEFINE e == Editor!SetValue(d, "repeat", n)
           w == Editor!AtLeast(1, n)
           m == 1
<1>1. DOMAIN d = Fields /\ Repeats(d) /\ d.connected
  BY DEF Dialog
<1>2. d.repeat = Spin(m, d.prevRepeat) /\ d.prevRepeat \in Nat /\ m \in Nat /\ "repeat" \in Boxes
      /\ Prev("repeat") = "prevRepeat" /\ d.repeat.value = d.prevRepeat
  BY <1>1 DEF Repeats, Boxes, Prev, Spin
<1>3. w \in Nat \ {0}
  BY DEF Editor!AtLeast
<1> HIDE DEF m
<1>4. BoxIs(e, d, "repeat", m, Editor!AtLeast(m, n))
  BY <1>1, <1>2, ValueSet
<1> HIDE DEF e, w
<1>5. Listens(d, "repeat")
  BY <1>1 DEF Listens
<1>6. Like(e, d, {"repeat", "prevRepeat"}) /\ e["repeat"] = Spin(1, w) /\ e["prevRepeat"] = w
  BY <1>2, <1>4, <1>5 DEF BoxIs, m, w
<1>7. /\ DOMAIN e = Fields /\ e.open = d.open /\ e.connected = d.connected /\ e.search = d.search
      /\ e.current = d.current /\ e.pane = d.pane /\ e.buttons = d.buttons
      /\ e.delayOn = d.delayOn /\ e.delay = d.delay /\ e.delayUnits = d.delayUnits /\ e.prevDelay = d.prevDelay
      /\ e.repeatOn = d.repeatOn /\ e.repeatUnits = d.repeatUnits
      /\ e.count = d.count /\ e.prevCount = d.prevCount
      /\ e.endless = d.endless /\ e.prevEndless = d.prevEndless
  BY <1>6 DEF Like, Fields
<1>8. Lists(e) /\ Delays(e) /\ e.open /\ e.connected
  BY <1>7 DEF Dialog, Lists, Delays
<1>9. Repeats(e)
  BY <1>1, <1>3, <1>6, <1>7 DEF Repeats
<1> QED BY <1>7, <1>8, <1>9 DEF Dialog, e

LEMMA CountTyped ==
  ASSUME NEW d, Dialog(d), d.repeatOn, ~d.endless, NEW n \in Nat
  PROVE  Dialog(Editor!SetValue(d, "count", n))
<1> DEFINE e == Editor!SetValue(d, "count", n)
           w == Editor!AtLeast(2, n)
           m == 2
<1>1. DOMAIN d = Fields /\ Repeats(d) /\ d.connected
  BY DEF Dialog
<1>2. d.count = Spin(m, d.prevCount) /\ d.prevCount \in Nat /\ m \in Nat /\ "count" \in Boxes
      /\ Prev("count") = "prevCount" /\ d.count.value = d.prevCount
  BY <1>1 DEF Repeats, Boxes, Prev, Spin
<1>3. w \in Nat /\ w >= 2
  BY DEF Editor!AtLeast
<1> HIDE DEF m
<1>4. BoxIs(e, d, "count", m, Editor!AtLeast(m, n))
  BY <1>1, <1>2, ValueSet
<1> HIDE DEF e, w
<1>5. Listens(d, "count")
  BY <1>1 DEF Listens
<1>6. Like(e, d, {"count", "prevCount"}) /\ e["count"] = Spin(2, w) /\ e["prevCount"] = w
  BY <1>2, <1>4, <1>5 DEF BoxIs, m, w
<1>7. /\ DOMAIN e = Fields /\ e.open = d.open /\ e.connected = d.connected /\ e.search = d.search
      /\ e.current = d.current /\ e.pane = d.pane /\ e.buttons = d.buttons
      /\ e.delayOn = d.delayOn /\ e.delay = d.delay /\ e.delayUnits = d.delayUnits /\ e.prevDelay = d.prevDelay
      /\ e.repeatOn = d.repeatOn /\ e.repeatUnits = d.repeatUnits
      /\ e.repeat = d.repeat /\ e.prevRepeat = d.prevRepeat
      /\ e.endless = d.endless /\ e.prevEndless = d.prevEndless
  BY <1>6 DEF Like, Fields
<1>8. Lists(e) /\ Delays(e) /\ e.open /\ e.connected
  BY <1>7 DEF Dialog, Lists, Delays
<1>9. Repeats(e)
  BY <1>1, <1>3, <1>6, <1>7 DEF Repeats
<1> QED BY <1>7, <1>8, <1>9 DEF Dialog, e

LEMMA UnitsChosen ==
  ASSUME NEW d, Dialog(d), NEW u \in 1..5
  PROVE  Dialog([d EXCEPT !.delayUnits = u]) /\ Dialog([d EXCEPT !.repeatUnits = u])
<1>1. Dialog([d EXCEPT !.delayUnits = u])
  <2> DEFINE e == [d EXCEPT !.delayUnits = u]
  <2>1. DOMAIN e = Fields /\ e["delayUnits"] = u /\ \A f \in Fields \ {"delayUnits"} : e[f] = d[f]
    BY DEF Dialog, Fields
  <2> HIDE DEF e
  <2>2. /\ e.open = d.open /\ e.connected = d.connected /\ e.search = d.search
        /\ e.current = d.current /\ e.pane = d.pane /\ e.buttons = d.buttons
        /\ e.delayOn = d.delayOn /\ e.delay = d.delay /\ e.prevDelay = d.prevDelay
        /\ e.repeatOn = d.repeatOn /\ e.repeatUnits = d.repeatUnits
        /\ e.repeat = d.repeat /\ e.prevRepeat = d.prevRepeat /\ e.count = d.count /\ e.prevCount = d.prevCount
        /\ e.endless = d.endless /\ e.prevEndless = d.prevEndless
    BY <2>1 DEF Fields
  <2> QED BY <2>1, <2>2 DEF Dialog, Lists, Delays, Repeats, e
<1>2. Dialog([d EXCEPT !.repeatUnits = u])
  <2> DEFINE e == [d EXCEPT !.repeatUnits = u]
  <2>1. DOMAIN e = Fields /\ e["repeatUnits"] = u /\ \A f \in Fields \ {"repeatUnits"} : e[f] = d[f]
    BY DEF Dialog, Fields
  <2> HIDE DEF e
  <2>2. /\ e.open = d.open /\ e.connected = d.connected /\ e.search = d.search
        /\ e.current = d.current /\ e.pane = d.pane /\ e.buttons = d.buttons
        /\ e.delayOn = d.delayOn /\ e.delay = d.delay /\ e.prevDelay = d.prevDelay
        /\ e.repeatOn = d.repeatOn /\ e.delayUnits = d.delayUnits
        /\ e.repeat = d.repeat /\ e.prevRepeat = d.prevRepeat /\ e.count = d.count /\ e.prevCount = d.prevCount
        /\ e.endless = d.endless /\ e.prevEndless = d.prevEndless
    BY <2>1 DEF Fields
  <2> QED BY <2>1, <2>2 DEF Dialog, Lists, Delays, Repeats, e
<1> QED BY <1>1, <1>2

(* What the three boxes that are ticked keep.                                *)
Keeps ==
  /\ editor'.prevDelay = editor.prevDelay /\ editor'.prevRepeat = editor.prevRepeat
  /\ Editor!AtLeast(2, editor'.prevCount) = Editor!AtLeast(2, editor.prevCount)

LEMMA BoxTicked ==
  ASSUME EditorRuns, subject = "editor", Editor!DelayCheck \/ Editor!RepeatCheck \/ Editor!EndlessCheck
  PROVE  Dialog(editor') /\ message' = message /\ Keeps
<1>1. Dialog(editor)
  BY OpenIsDialog DEF Editor!DelayCheck, Editor!RepeatCheck, Editor!EndlessCheck
<1>2. CASE Editor!DelayCheck
  <2>1. editor' = Editor!RefreshDelayInfo([editor EXCEPT !.delayOn = ~@]) /\ message' = message
    BY <1>2 DEF Editor!DelayCheck, Editor!Becomes
  <2>2. /\ Dialog(editor')
        /\ \A f \in {"prevDelay", "prevRepeat", "prevCount"} : editor'[f] = editor[f]
    BY <1>1, <2>1, DelayChecked
  <2> QED BY <2>1, <2>2 DEF Keeps
<1>3. CASE Editor!RepeatCheck
  <2> DEFINE a == [editor EXCEPT !.repeatOn = ~@]
  <2>1. editor' = Editor!RefreshRepeatInfo(a) /\ message' = message
    BY <1>3 DEF Editor!RepeatCheck, Editor!Becomes
  <2>2. DOMAIN editor = Fields /\ editor.repeatOn \in BOOLEAN /\ editor.prevEndless \in BOOLEAN
    BY <1>1 DEF Dialog, Repeats
  <2>3. DOMAIN a = Fields /\ a["repeatOn"] = ~editor.repeatOn /\ \A f \in Fields \ {"repeatOn"} : a[f] = editor[f]
    BY <2>2 DEF Fields
  <2> HIDE DEF a
  <2>4. Like(a, editor, {"repeatOn", "endless", "prevEndless"}) /\ a.prevEndless = editor.prevEndless
    BY <2>3 DEF Like, Fields
  <2>5. a.repeatOn \in BOOLEAN /\ (editor.repeatOn \/ a.repeatOn)
    BY <2>2, <2>3
  <2> QED BY <1>1, <2>1, <2>2, <2>4, <2>5, RepeatChecked DEF Keeps
<1>4. CASE Editor!EndlessCheck
  <2> DEFINE b == [editor EXCEPT !.endless = ~@]
             a == [b EXCEPT !.prevEndless = b.endless]
  <2>1. DOMAIN editor = Fields /\ editor.repeatOn \in BOOLEAN /\ editor.endless \in BOOLEAN
    BY <1>1 DEF Dialog, Repeats
  <2>2. DOMAIN b = Fields /\ b["endless"] = ~editor.endless /\ \A f \in Fields \ {"endless"} : b[f] = editor[f]
    BY <2>1 DEF Fields
  <2>3. editor.repeatOn /\ message' = message /\ editor' = Editor!IndefinitelyUpdated(b)
    BY <1>4 DEF Editor!EndlessCheck, Editor!Becomes
  <2> HIDE DEF b
  <2>4. b.repeatOn = editor.repeatOn /\ b.endless \in BOOLEAN
    BY <2>1, <2>2 DEF Fields
  <2>5. editor' = Editor!RefreshRepeatInfo(a)
    BY <2>3, <2>4 DEF Editor!IndefinitelyUpdated
  <2>6. DOMAIN a = Fields /\ a["prevEndless"] = b.endless /\ \A f \in Fields \ {"prevEndless"} : a[f] = b[f]
    BY <2>2 DEF Fields
  <2> HIDE DEF a
  <2>7. Like(a, editor, {"repeatOn", "endless", "prevEndless"}) /\ a.prevEndless = b.endless /\ a.repeatOn = b.repeatOn
    BY <2>2, <2>6 DEF Like, Fields
  <2>8. a.repeatOn \in BOOLEAN /\ a.prevEndless \in BOOLEAN /\ a.repeatOn
    BY <2>1, <2>3, <2>4, <2>7
  <2> QED BY <1>1, <2>3, <2>5, <2>7, <2>8, RepeatChecked DEF Keeps
<1> QED BY <1>2, <1>3, <1>4

LEMMA EditorNext == EditorRuns /\ [Next]_vars => EditorRuns'
<1> SUFFICES ASSUME EditorRuns, [Next]_vars, subject' = "editor"
             PROVE  /\ editor' = Editor!Closed \/ Dialog(editor')
                    /\ message' = Editor!NoMessage \/ Entered(message')
  BY DEF EditorRuns
<1>1. subject = "editor"
  BY DEF Next, vars
<1>2. /\ editor = Editor!Closed \/ Dialog(editor)
      /\ message = Editor!NoMessage \/ Entered(message)
  BY <1>1 DEF EditorRuns
<1>3. CASE UNCHANGED vars
  BY <1>2, <1>3 DEF vars, editorVars
<1>4. CASE Editor!Open
  <2>1. editor' = Editor!Opened(message) /\ message' = message
    BY <1>4 DEF Editor!Open
  <2> QED BY <1>2, <2>1, OpenedFor, OpenedForNew
<1>5. ASSUME NEW t \in Editor!ToSet(MessageTypes), Editor!SelectType(t)
      PROVE  Dialog(editor') /\ message' = message
  BY <1>1, <1>5, OpenIsDialog, TypeSelected DEF Editor!SelectType, Editor!Becomes
<1>6. CASE Editor!Search
  BY <1>1, <1>2, <1>6, OpenIsDialog, ListSearched DEF Editor!Search, Editor!Becomes
<1>7. CASE Editor!DelayCheck \/ Editor!RepeatCheck \/ Editor!EndlessCheck
  BY <1>1, <1>2, <1>7, BoxTicked
<1>8. ASSUME NEW n \in Typed, Editor!TypeDelay(n) \/ Editor!TypeRepeat(n) \/ Editor!TypeCount(n)
      PROVE  Dialog(editor') /\ message' = message
  <2>1. n \in Nat
    BY EditorAssumption
  <2>2. CASE Editor!TypeDelay(n)
    BY <1>1, <2>1, <2>2, OpenIsDialog, DelayTyped DEF Editor!TypeDelay, Editor!Becomes
  <2>3. CASE Editor!TypeRepeat(n)
    BY <1>1, <2>1, <2>3, OpenIsDialog, RepeatTyped DEF Editor!TypeRepeat, Editor!Becomes
  <2>4. CASE Editor!TypeCount(n)
    BY <1>1, <2>1, <2>4, OpenIsDialog, CountTyped DEF Editor!TypeCount, Editor!Becomes
  <2> QED BY <1>8, <2>2, <2>3, <2>4
<1>9. ASSUME NEW u \in {1, 2, 5}, Editor!ChooseUnits(u)
      PROVE  Dialog(editor') /\ message' = message
  <2>1. u \in 1..5
    OBVIOUS
  <2>2. /\ editor.open /\ message' = message
        /\ editor' = [editor EXCEPT !.delayUnits = u] \/ editor' = [editor EXCEPT !.repeatUnits = u]
    BY <1>9 DEF Editor!ChooseUnits, Editor!Becomes
  <2>3. Dialog([editor EXCEPT !.delayUnits = u]) /\ Dialog([editor EXCEPT !.repeatUnits = u])
    BY <1>1, <2>1, <2>2, OpenIsDialog, UnitsChosen
  <2> QED BY <2>2, <2>3
<1>10. CASE Editor!Accept
  <2>1. editor' = Editor!Closed /\ message' = Editor!Accepted(editor) /\ Dialog(editor) /\ editor.buttons
    BY <1>1, <1>10, OpenIsDialog DEF Editor!Accept
  <2> QED BY <2>1, AcceptedIsEntered
<1>11. CASE Editor!Reject
  BY <1>2, <1>11 DEF Editor!Reject
<1>12. EditorStep \/ UNCHANGED vars
  BY <1>1 DEF Next, SendStep, PluginsStep, DisplayStep, FilterStep
<1> QED BY <1>2, <1>3, <1>4, <1>5, <1>6, <1>7, <1>8, <1>9, <1>10, <1>11, <1>12 DEF EditorStep, Editor!Next

(* The pane and the buttons of the message dialog follow its list; the delay   *)
(* and the repetition that were accepted are there when the message is edited  *)
(* again; and none is accepted that repeats without end and without a period   *)
(* (MessageUpdateDialog.cpp).                                                *)
THEOREM DialogKeepsMessage == Spec => []AcceptedComesBack
<1>1. EditorRuns => AcceptedComesBack
  <2> SUFFICES ASSUME EditorRuns, subject = "editor"
               PROVE  Editor!PaneIsCurrent /\ Editor!AcceptedComesBack /\ Editor!AcceptedCanBeSent
    BY DEF AcceptedComesBack
  <2>1. Editor!PaneIsCurrent
    BY OpenIsDialog, ListIsOfTypes DEF Editor!PaneIsCurrent, Dialog, Lists
  <2>2. Editor!AcceptedComesBack
    BY OpenIsDialog, DialogComesBack DEF Editor!AcceptedComesBack
  <2>3. Editor!AcceptedCanBeSent
    BY DEF Editor!AcceptedCanBeSent, EditorRuns, Entered
  <2> QED BY <2>1, <2>2, <2>3
<1> QED BY <1>1, EditorInit, EditorNext, PTL DEF Spec

LEMMA EditorForgetsNothing ==
  ASSUME EditorRuns, subject = "editor", EditorRuns', subject' = "editor"
  PROVE  Editor!NothingForgottenStep
<1>1. ASSUME editor'.open PROVE Editor!Remembered(editor')
  <2>1. Dialog(editor')
    BY <1>1 DEF EditorRuns, Editor!Closed
  <2>2. Delays(editor') /\ Repeats(editor')
    BY <2>1 DEF Dialog
  <2>3. editor'.delayOn => editor'.prevDelay = editor'.delay.value
    BY <2>2 DEF Delays, Spin
  <2>4. editor'.repeatOn => editor'.prevRepeat = editor'.repeat.value /\ editor'.prevEndless = editor'.endless
    BY <2>2 DEF Repeats, Spin
  <2>5. editor'.repeatOn /\ ~editor'.endless => editor'.prevCount = editor'.count.value
    BY <2>2 DEF Repeats, Spin
  <2> QED BY <2>3, <2>4, <2>5 DEF Editor!Remembered
<1>2. Editor!DelayCheck \/ Editor!RepeatCheck \/ Editor!EndlessCheck => Keeps
  BY BoxTicked
<1> QED BY <1>1, <1>2 DEF Editor!NothingForgottenStep, Keeps

-----------------------------------------------------------------------------
(* An element that is moved in a list.                                      *)
LEMMA ElementMoved ==
  ASSUME NEW S, NEW s \in Seq(S), Distinct(s), NEW from \in 1..Len(s), NEW to \in 1..Len(s)
  PROVE  LET t == Send!InsertAt(Send!RemoveAt(s, from), to, s[from])
         IN  t \in Seq(S) /\ Len(t) = Len(s) /\ t[to] = s[from] /\ Distinct(t)
<1> DEFINE n == Len(s)
           r == Send!RemoveAt(s, from)
           t == Send!InsertAt(r, to, s[from])
           Skip(k) == IF k < from THEN k ELSE k + 1
           Was(k) == IF k = to THEN from ELSE IF k < to THEN Skip(k) ELSE Skip(k - 1)
<1>1. n \in Nat /\ s[from] \in S /\ from \in 1..n /\ to \in 1..n
  BY LenProperties, ElementOfSeq
<1>2. r \in Seq(S) /\ Len(r) = n - 1 /\ \A k \in 1..(n - 1) : r[k] = s[Skip(k)]
  <2>1. /\ r \in Seq(S) /\ Len(r) = Len(s) - 1
        /\ \A k \in 1..(Len(s) - 1) : r[k] = IF k < from THEN s[k] ELSE s[k + 1]
    BY ElementRemoved
  <2> QED BY <2>1
<1> HIDE DEF r
<1>3. to \in 1..(Len(r) + 1)
  BY <1>1, <1>2
<1>4. /\ t \in Seq(S) /\ Len(t) = Len(r) + 1
      /\ \A k \in 1..(Len(r) + 1) : t[k] = IF k < to THEN r[k] ELSE IF k = to THEN s[from] ELSE r[k - 1]
  <2> DEFINE e == s[from]
  <2>1. e \in S
    BY <1>1
  <2> HIDE DEF e
  <2>2. /\ Send!InsertAt(r, to, e) \in Seq(S) /\ Len(Send!InsertAt(r, to, e)) = Len(r) + 1
        /\ \A k \in 1..(Len(r) + 1) :
             Send!InsertAt(r, to, e)[k] = IF k < to THEN r[k] ELSE IF k = to THEN e ELSE r[k - 1]
    BY <1>2, <1>3, <2>1, ElementInserted
  <2> QED BY <2>2 DEF e
<1> HIDE DEF t, n
<1>5. Len(t) = n /\ t[to] = s[from]
  BY <1>1, <1>2, <1>4
<1>6. ASSUME NEW k \in 1..n PROVE Was(k) \in 1..n /\ t[k] = s[Was(k)]
  <2>1. k \in 1..(Len(r) + 1)
    BY <1>1, <1>2
  <2>2. CASE k = to
    BY <1>1, <1>4, <2>1, <2>2
  <2>3. CASE k < to
    <3>1. k \in 1..(n - 1)
      BY <1>1, <2>3
    <3>2. t[k] = r[k] /\ r[k] = s[Skip(k)]
      BY <1>2, <1>4, <2>1, <2>3, <3>1
    <3>3. Was(k) = Skip(k) /\ Skip(k) \in 1..n
      BY <1>1, <2>3, <3>1
    <3> QED BY <3>2, <3>3
  <2>4. CASE k > to
    <3> DEFINE j == k - 1
    <3>1. j \in 1..(n - 1)
      BY <1>1, <2>4
    <3> HIDE DEF j
    <3>2. r[j] = s[Skip(j)] /\ t[k] = r[j]
      <4>1. t[k] = r[k - 1]
        BY <1>1, <1>4, <2>1, <2>4
      <4> QED BY <1>2, <3>1, <4>1 DEF j
    <3>3. Was(k) = Skip(j) /\ Skip(j) \in 1..n
      BY <1>1, <2>4, <3>1 DEF j
    <3> QED BY <3>2, <3>3
  <2> QED BY <1>1, <2>2, <2>3, <2>4
<1>7. ASSUME NEW i \in 1..n, NEW j \in 1..n, t[i] = t[j] PROVE i = j
  <2>1. s[Was(i)] = s[Was(j)] /\ Was(i) \in 1..n /\ Was(j) \in 1..n
    BY <1>6, <1>7
  <2>2. Was(i) = Was(j)
    <3> HIDE DEF Was
    <3> QED BY <2>1 DEF Distinct, n
  <2> QED BY <1>1, <2>2
<1>8. Distinct(t)
  BY <1>5, <1>7 DEF Distinct
<1> QED BY <1>4, <1>5, <1>8 DEF t, r, n

-----------------------------------------------------------------------------
(* The send area: what the calls do to its fields.                           *)
AreaFields ==
  {"rows", "current", "clicked", "selType", "count", "state", "total", "selIdx", "active", "recvSel", "ok"}

AreaLike(e, a, but) == DOMAIN e = AreaFields /\ \A f \in AreaFields \ but : e[f] = a[f]

(* What is displayed is a message of the list, of the receive list, or none. *)
Told(a) ==
  \/ a.selType = "none" /\ a.clicked = <<>>
  \/ a.selType = "Send" /\ a.clicked \in Send!Messages
  \/ a.selType = "Recv" /\ a.clicked \in Send!Received

LEMMA MessagesDiffer ==
  /\ \A m \in Send!Messages : m # <<>> /\ m \notin Send!Received
  /\ \A m \in Send!Received : m # <<>>
<1>1. ASSUME NEW m \in Send!Messages PROVE m # <<>> /\ m \notin Send!Received
  <2>1. m[1] \in {"p", "q"} /\ Len(m) = 2
    BY <1>1 DEF Send!Messages
  <2>2. \A r \in Send!Received : r[1] = "none"
    BY DEF Send!Received, Send!None
  <2>3. Len(<<>>) = 0
    OBVIOUS
  <2> QED BY <2>1, <2>2, <2>3
<1>2. ASSUME NEW m \in Send!Received PROVE m # <<>>
  BY DEF Send!Received, Send!None
<1> QED BY <1>1, <1>2

LEMMA BarRefreshed ==
  ASSUME NEW a, DOMAIN a = AreaFields, a.ok, a.selIdx <= a.total
  PROVE  AreaLike(Send!RefreshBar(a), a, {"ok"}) /\ Send!RefreshBar(a).ok
  BY DEF Send!RefreshBar, Send!Check, AreaLike, AreaFields

BarIs(e, a, i) == AreaLike(e, a, {"selIdx", "ok"}) /\ e.selIdx = i /\ e.ok
TotalIs(e, a) == AreaLike(e, a, {"total", "ok"}) /\ e.total = a.count /\ e.ok
RowIs(e, a, i) == AreaLike(e, a, {"current", "ok"}) /\ e.current = i /\ e.ok
SelectedIs(e, a, i) ==
  AreaLike(e, a, {"selIdx", "current", "ok"}) /\ e.selIdx = i /\ e.current = i /\ e.ok

LEMMA BarSelects ==
  ASSUME NEW a, DOMAIN a = AreaFields, a.ok, NEW i, i <= a.total
  PROVE  BarIs(Send!BarSelected(a, i), a, i)
<1> DEFINE b == [a EXCEPT !.selIdx = i]
           e == Send!RefreshBar(b)
<1>1. DOMAIN b = AreaFields /\ b["selIdx"] = i /\ \A f \in AreaFields \ {"selIdx"} : b[f] = a[f]
  BY DEF AreaFields
<1>2. Send!BarSelected(a, i) = e
  BY DEF Send!BarSelected
<1> HIDE DEF b
<1>3. b.ok /\ b.selIdx <= b.total
  <2>1. b.ok = a.ok /\ b.total = a.total
    BY <1>1 DEF AreaFields
  <2> QED BY <1>1, <2>1
<1>4. AreaLike(e, b, {"ok"}) /\ e.ok
  BY <1>1, <1>3, BarRefreshed
<1> HIDE DEF e
<1>5. AreaLike(e, a, {"selIdx", "ok"}) /\ e["selIdx"] = i
  BY <1>1, <1>4 DEF AreaLike, AreaFields
<1> QED BY <1>2, <1>4, <1>5 DEF BarIs

LEMMA BarCounts ==
  ASSUME NEW a, DOMAIN a = AreaFields, a.ok, a.selIdx <= a.count
  PROVE  TotalIs(Send!BarCount(a), a)
<1> DEFINE b == [a EXCEPT !.total = a.count]
           e == Send!RefreshBar(b)
<1>1. DOMAIN b = AreaFields /\ b["total"] = a.count /\ \A f \in AreaFields \ {"total"} : b[f] = a[f]
  BY DEF AreaFields
<1>2. Send!BarCount(a) = e
  BY DEF Send!BarCount
<1> HIDE DEF b
<1>3. b.ok /\ b.selIdx <= b.total
  <2>1. b.ok = a.ok /\ b.selIdx = a.selIdx
    BY <1>1 DEF AreaFields
  <2> QED BY <1>1, <2>1
<1>4. AreaLike(e, b, {"ok"}) /\ e.ok
  BY <1>1, <1>3, BarRefreshed
<1> HIDE DEF e
<1>5. AreaLike(e, a, {"total", "ok"}) /\ e["total"] = a.count
  BY <1>1, <1>4 DEF AreaLike, AreaFields
<1> QED BY <1>2, <1>4, <1>5 DEF TotalIs

LEMMA RowSelects ==
  ASSUME NEW a, DOMAIN a = AreaFields, a.ok, NEW i, i <= Len(a.rows)
  PROVE  RowIs(Send!SelectMsg(a, i), a, i)
<1> DEFINE b == [a EXCEPT !.current = i]
           e == Send!Check(b, i <= Len(a.rows))
<1>1. DOMAIN b = AreaFields /\ b["current"] = i /\ \A f \in AreaFields \ {"current"} : b[f] = a[f]
  BY DEF AreaFields
<1>2. Send!SelectMsg(a, i) = e
  BY DEF Send!SelectMsg
<1> HIDE DEF b
<1>3. b.ok
  BY <1>1 DEF AreaFields
<1>4. AreaLike(e, b, {"ok"}) /\ e.ok
  BY <1>1, <1>3 DEF Send!Check, AreaLike, AreaFields
<1> HIDE DEF e
<1>5. AreaLike(e, a, {"current", "ok"}) /\ e["current"] = i
  BY <1>1, <1>4 DEF AreaLike, AreaFields
<1> QED BY <1>2, <1>4, <1>5 DEF RowIs

LEMMA Selects ==
  ASSUME NEW a, DOMAIN a = AreaFields, a.ok, NEW i, i <= a.total, i <= Len(a.rows)
  PROVE  SelectedIs(Send!Selected(a, i), a, i)
<1> DEFINE b == Send!BarSelected(a, i)
           e == Send!SelectMsg(b, i)
<1>1. Send!Selected(a, i) = e
  BY DEF Send!Selected
<1>2. BarIs(b, a, i)
  BY BarSelects
<1> HIDE DEF b
<1>3. AreaLike(b, a, {"selIdx", "ok"}) /\ b["selIdx"] = i /\ b.ok
  BY <1>2 DEF BarIs
<1>4. DOMAIN b = AreaFields /\ b.rows = a.rows
  BY <1>3 DEF AreaLike, AreaFields
<1>5. RowIs(e, b, i)
  BY <1>3, <1>4, RowSelects
<1> HIDE DEF e
<1>6. AreaLike(e, a, {"selIdx", "current", "ok"}) /\ e["selIdx"] = i /\ e["current"] = i /\ e.ok
  BY <1>3, <1>5 DEF RowIs, AreaLike, AreaFields
<1> QED BY <1>1, <1>6 DEF SelectedIs

(* A click on a message: the second one takes the first one back.            *)
ClickedIs(e, a, m, i) ==
  /\ AreaLike(e, a, {"selIdx", "current", "ok", "selType", "clicked", "recvSel"})
  /\ e.ok /\ e.recvSel = <<>>
  /\ IF a.clicked = m
     THEN e.selType = "none" /\ e.clicked = <<>> /\ e.selIdx = 0 /\ e.current = 0
     ELSE e.selType = "Send" /\ e.clicked = m /\ e.selIdx = i /\ e.current = i

LEMMA SendClicked ==
  ASSUME NEW a, DOMAIN a = AreaFields, a.ok, Told(a), NEW m \in Send!Messages,
         a.total \in Nat, Len(a.rows) \in Nat, NEW i \in Nat, i <= a.total, i <= Len(a.rows)
  PROVE  ClickedIs(Send!SendMsgClicked(a, m, i), a, m, i)
<1> DEFINE a1 == [a EXCEPT !.recvSel = <<>>]
           b == Send!MsgClicked(a1, m, "Send")
           e == Send!SendMsgClicked(a, m, i)
           z == 0
<1>1. e = IF b.clicked = <<>> THEN Send!Selected(Send!ClearSelection(b), z) ELSE Send!Selected(b, i)
  BY DEF Send!SendMsgClicked, Send!NotSelected, Send!NoMsg
<1>2. DOMAIN a1 = AreaFields /\ a1["recvSel"] = <<>> /\ \A f \in AreaFields \ {"recvSel"} : a1[f] = a[f]
  BY DEF AreaFields
<1> HIDE DEF a1, e
<1>3. a1.ok /\ a1.clicked = a.clicked /\ a1.selType = a.selType
  BY <1>2 DEF AreaFields
<1>4. m # <<>> /\ z <= a.total /\ z <= Len(a.rows) /\ z \in Nat
  BY MessagesDiffer
<1>5. CASE a.clicked = m
  <2> DEFINE c == Send!Check(a1, a1.selType = "Send")
             x == Send!ClearSelection(b)
             y == Send!Selected(x, z)
  <2>1. a1.selType = "Send"
    BY <1>3, <1>5, MessagesDiffer DEF Told
  <2>2. DOMAIN c = AreaFields /\ c.ok /\ \A f \in AreaFields \ {"ok"} : c[f] = a1[f]
    BY <1>2, <1>3, <2>1 DEF Send!Check, AreaFields
  <2>3. b = [c EXCEPT !.selType = "none", !.clicked = <<>>]
    BY <1>3, <1>5 DEF Send!MsgClicked, Send!ClearDisplayed, Send!None, Send!NoMsg
  <2> HIDE DEF b, c
  <2>4. /\ DOMAIN b = AreaFields /\ b["selType"] = "none" /\ b["clicked"] = <<>>
        /\ \A f \in AreaFields \ {"selType", "clicked"} : b[f] = c[f]
    BY <2>2, <2>3 DEF AreaFields
  <2>5. DOMAIN x = AreaFields /\ x["current"] = 0 /\ \A f \in AreaFields \ {"current"} : x[f] = b[f]
    BY <2>4 DEF Send!ClearSelection, AreaFields
  <2> HIDE DEF x
  <2>6. /\ \A f \in AreaFields \ {"current", "selType", "clicked", "recvSel", "ok"} : x[f] = a[f]
        /\ x["selType"] = "none" /\ x["clicked"] = <<>> /\ x["recvSel"] = <<>>
    BY <1>2, <2>2, <2>4, <2>5 DEF AreaFields
  <2>7. x.ok /\ x.total = a.total /\ x.rows = a.rows
    BY <2>2, <2>4, <2>5, <2>6 DEF AreaFields
  <2> HIDE DEF z
  <2>8. SelectedIs(y, x, z)
    BY <1>4, <2>5, <2>7, Selects
  <2>9. e = y
    BY <1>1, <2>4 DEF x
  <2> HIDE DEF y
  <2>10. /\ AreaLike(y, a, {"selIdx", "current", "ok", "selType", "clicked", "recvSel"})
         /\ y.ok /\ y["recvSel"] = <<>> /\ y["selType"] = "none" /\ y["clicked"] = <<>>
         /\ y["selIdx"] = z /\ y["current"] = z
    BY <2>6, <2>8 DEF SelectedIs, AreaLike, AreaFields
  <2> QED BY <1>5, <2>9, <2>10 DEF ClickedIs, e, z
<1>6. CASE a.clicked # m
  <2> DEFINE y == Send!Selected(b, i)
  <2>1. b = [a1 EXCEPT !.selType = "Send", !.clicked = m]
    BY <1>3, <1>6 DEF Send!MsgClicked
  <2> HIDE DEF b
  <2>2. /\ DOMAIN b = AreaFields /\ b["selType"] = "Send" /\ b["clicked"] = m
        /\ \A f \in AreaFields \ {"selType", "clicked"} : b[f] = a1[f]
    BY <1>2, <2>1 DEF AreaFields
  <2>3. b.ok /\ b.total = a.total /\ b.rows = a.rows /\ b.recvSel = <<>>
    BY <1>2, <1>3, <2>2 DEF AreaFields
  <2>4. SelectedIs(y, b, i)
    BY <2>2, <2>3, Selects
  <2>5. e = y
    BY <1>1, <1>4, <2>2
  <2> HIDE DEF y
  <2>6. /\ AreaLike(y, a, {"selIdx", "current", "ok", "selType", "clicked", "recvSel"})
        /\ y.ok /\ y["recvSel"] = <<>> /\ y["selType"] = "Send" /\ y["clicked"] = m
        /\ y["selIdx"] = i /\ y["current"] = i
    BY <1>2, <2>2, <2>3, <2>4 DEF SelectedIs, AreaLike, AreaFields
  <2> QED BY <1>6, <2>5, <2>6 DEF ClickedIs, e
<1> QED BY <1>5, <1>6

-----------------------------------------------------------------------------
(* The send area between two calls: the list has different messages of the    *)
(* protocol p, counted by all; and one thing is selected or nothing is.       *)
Listed(a, p) ==
  /\ DOMAIN a = AreaFields /\ a.ok
  /\ a.rows \in Seq(Send!Messages) /\ Distinct(a.rows)
  /\ \A i \in 1..Len(a.rows) : a.rows[i][1] = p
  /\ a.count = Len(a.rows) /\ a.total = Len(a.rows)

ChosenSend(a) ==
  /\ a.selType = "Send" /\ a.current \in 1..Len(a.rows) /\ a.selIdx = a.current
  /\ a.rows[a.current] = a.clicked /\ a.recvSel = <<>>
ChosenRecv(a) ==
  /\ a.selType = "Recv" /\ a.clicked \in Send!Received /\ a.recvSel = a.clicked /\ a.selIdx = 0
ChosenNone(a) == a.selType = "none" /\ a.clicked = <<>> /\ a.recvSel = <<>> /\ a.selIdx = 0
Chosen(a) == a.current \in 0..Len(a.rows) /\ (ChosenSend(a) \/ ChosenRecv(a) \/ ChosenNone(a))

LEMMA ChosenIsTold ==
  ASSUME NEW a, NEW p, Listed(a, p), Chosen(a)
  PROVE  /\ Told(a) /\ Len(a.rows) \in Nat /\ a.total \in Nat /\ a.count \in Nat
         /\ a.selIdx \in Nat /\ a.selIdx <= Len(a.rows) /\ a.selIdx <= a.total /\ a.selIdx <= a.count
<1>1. Len(a.rows) \in Nat /\ a.total = Len(a.rows) /\ a.count = Len(a.rows)
  BY LenProperties DEF Listed
<1>2. a.selIdx \in Nat /\ a.selIdx <= Len(a.rows)
  BY <1>1 DEF Chosen, ChosenSend, ChosenRecv, ChosenNone
<1>3. Told(a)
  <2>1. CASE ChosenSend(a)
    BY <2>1, ElementOfSeq DEF Listed, ChosenSend, Told
  <2>2. CASE ChosenRecv(a)
    BY <2>2 DEF ChosenRecv, Told
  <2>3. CASE ChosenNone(a)
    BY <2>3 DEF ChosenNone, Told
  <2> QED BY <2>1, <2>2, <2>3 DEF Chosen
<1> QED BY <1>1, <1>2, <1>3

(* A message that is not in the list is not the one that is displayed.        *)
LEMMA FreshIsNotClicked ==
  ASSUME NEW a, NEW p, Listed(a, p), Chosen(a), NEW m \in Send!Messages,
         \A i \in 1..Len(a.rows) : a.rows[i] # m
  PROVE  a.clicked # m
<1>1. CASE ChosenSend(a)
  BY <1>1 DEF ChosenSend
<1>2. CASE ChosenRecv(a)
  BY <1>2, MessagesDiffer DEF ChosenRecv
<1>3. CASE ChosenNone(a)
  BY <1>3, MessagesDiffer DEF ChosenNone
<1> QED BY <1>1, <1>2, <1>3 DEF Chosen

(* What does not depend on the assertions, the sending state and the plug-in. *)
Aside == {"ok", "state", "active"}

LEMMA StaysChosen ==
  ASSUME NEW a, NEW p, NEW e, Listed(a, p), Chosen(a), AreaLike(e, a, Aside), e.ok
  PROVE  Listed(e, p) /\ Chosen(e)
<1>1. /\ e.rows = a.rows /\ e.count = a.count /\ e.total = a.total /\ e.current = a.current
      /\ e.selType = a.selType /\ e.clicked = a.clicked /\ e.selIdx = a.selIdx /\ e.recvSel = a.recvSel
  BY DEF AreaLike, AreaFields, Aside
<1>2. Listed(e, p)
  BY <1>1 DEF Listed, AreaLike
<1>3. Chosen(e)
  BY <1>1 DEF Chosen, ChosenSend, ChosenRecv, ChosenNone
<1> QED BY <1>2, <1>3

LEMMA Checked ==
  ASSUME NEW a, DOMAIN a = AreaFields, a.ok, NEW c, c
  PROVE  AreaLike(Send!Check(a, c), a, {"ok"}) /\ Send!Check(a, c).ok
  BY DEF Send!Check, AreaLike, AreaFields

LEMMA CheckedStays ==
  ASSUME NEW a, NEW p, Listed(a, p), Chosen(a), NEW c, c
  PROVE  Listed(Send!Check(a, c), p) /\ Chosen(Send!Check(a, c)) /\ AreaLike(Send!Check(a, c), a, {"ok"})
<1> DEFINE e == Send!Check(a, c)
<1>1. AreaLike(e, a, {"ok"}) /\ e.ok
  BY Checked DEF Listed
<1> HIDE DEF e
<1>2. AreaLike(e, a, Aside)
  BY <1>1 DEF AreaLike, Aside, AreaFields
<1>3. Listed(e, p) /\ Chosen(e)
  BY <1>1, <1>2, StaysChosen
<1> QED BY <1>1, <1>3 DEF e

LEMMA RefreshedStays ==
  ASSUME NEW a, NEW p, Listed(a, p), Chosen(a)
  PROVE  Listed(Send!RefreshBar(a), p) /\ Chosen(Send!RefreshBar(a)) /\ AreaLike(Send!RefreshBar(a), a, {"ok"})
<1> DEFINE e == Send!RefreshBar(a)
<1>1. AreaLike(e, a, {"ok"}) /\ e.ok
  BY BarRefreshed, ChosenIsTold DEF Listed
<1> HIDE DEF e
<1>2. AreaLike(e, a, Aside)
  BY <1>1 DEF AreaLike, Aside, AreaFields
<1>3. Listed(e, p) /\ Chosen(e)
  BY <1>1, <1>2, StaysChosen
<1> QED BY <1>1, <1>3 DEF e

-----------------------------------------------------------------------------
(* The clicks.                                                              *)
LEMMA RowClicked ==
  ASSUME NEW a, NEW p, Listed(a, p), Told(a), NEW i \in 1..Len(a.rows)
  PROVE  LET e == Send!SendMsgClicked(a, a.rows[i], i)
         IN  ClickedIs(e, a, a.rows[i], i) /\ Listed(e, p) /\ Chosen(e)
<1> DEFINE m == a.rows[i]
           e == Send!SendMsgClicked(a, m, i)
<1>1. m \in Send!Messages /\ Len(a.rows) \in Nat /\ a.total = Len(a.rows) /\ i \in Nat /\ i <= Len(a.rows)
  BY LenProperties, ElementOfSeq DEF Listed
<1> HIDE DEF m
<1>2. ClickedIs(e, a, m, i)
  <2>1. DOMAIN a = AreaFields /\ a.ok /\ a.total \in Nat /\ i <= a.total
    BY <1>1 DEF Listed
  <2> QED BY <1>1, <2>1, SendClicked
<1> HIDE DEF e
<1>3. e.ok /\ e.rows = a.rows /\ e.count = a.count /\ e.total = a.total /\ DOMAIN e = AreaFields
  BY <1>2 DEF ClickedIs, AreaLike, AreaFields
<1>4. Listed(e, p)
  BY <1>3 DEF Listed
<1>5. Chosen(e)
  <2>1. CASE a.clicked = m
    BY <1>1, <1>2, <1>3, <2>1 DEF ClickedIs, Chosen, ChosenNone
  <2>2. CASE a.clicked # m
    <3>1. e.selType = "Send" /\ e.clicked = m /\ e.selIdx = i /\ e.current = i /\ e.recvSel = <<>>
      BY <1>2, <2>2 DEF ClickedIs
    <3> QED BY <1>1, <1>3, <3>1 DEF Chosen, ChosenSend, m
  <2> QED BY <2>1, <2>2
<1> QED BY <1>2, <1>4, <1>5 DEF e, m

LEMMA RecvClicked ==
  ASSUME NEW a, NEW p, Listed(a, p), Chosen(a), NEW m \in Send!Received
  PROVE  Listed(Send!RecvMsgClicked(a, m), p) /\ Chosen(Send!RecvMsgClicked(a, m))
<1> DEFINE x == Send!ClearSelection(a)
           z == 0
           y == Send!Selected(x, z)
           b == Send!MsgClicked(y, m, "Recv")
           e == Send!RecvMsgClicked(a, m)
<1>1. e = [b EXCEPT !.recvSel = b.clicked]
  BY DEF Send!RecvMsgClicked, Send!NotSelected
<1>2. Told(a) /\ Len(a.rows) \in Nat /\ a.total \in Nat /\ DOMAIN a = AreaFields /\ a.ok /\ a.total = Len(a.rows)
  BY ChosenIsTold DEF Listed
<1>3. DOMAIN x = AreaFields /\ x["current"] = 0 /\ \A f \in AreaFields \ {"current"} : x[f] = a[f]
  BY <1>2 DEF Send!ClearSelection, AreaFields
<1> HIDE DEF x, e
<1>4. x.ok /\ x.total = a.total /\ x.rows = a.rows
  BY <1>2, <1>3 DEF AreaFields
<1>5. z <= x.total /\ z <= Len(x.rows)
  BY <1>2, <1>4
<1> HIDE DEF z
<1>6. SelectedIs(y, x, z)
  BY <1>3, <1>4, <1>5, Selects
<1> HIDE DEF y
<1>7. /\ AreaLike(y, a, {"selIdx", "current", "ok"}) /\ y["selIdx"] = 0 /\ y["current"] = 0 /\ y.ok
  BY <1>3, <1>6 DEF SelectedIs, AreaLike, AreaFields, z
<1>8. y.clicked = a.clicked /\ y.selType = a.selType
  BY <1>7 DEF AreaLike, AreaFields
<1>9. m # <<>>
  BY MessagesDiffer
<1>10. /\ DOMAIN b = AreaFields /\ b.ok
       /\ \A f \in AreaFields \ {"selType", "clicked", "ok"} : b[f] = y[f]
       /\ IF a.clicked = m THEN b["selType"] = "none" /\ b["clicked"] = <<>>
          ELSE b["selType"] = "Recv" /\ b["clicked"] = m
  <2>1. CASE a.clicked = m
    <3> DEFINE c == Send!Check(y, y.selType = "Recv")
    <3>1. y.selType = "Recv"
      BY <1>2, <1>8, <2>1, MessagesDiffer DEF Told
    <3>2. AreaLike(c, y, {"ok"}) /\ c.ok
      BY <1>7, <3>1, Checked DEF AreaLike
    <3>3. b = [c EXCEPT !.selType = "none", !.clicked = <<>>]
      BY <1>8, <2>1 DEF Send!MsgClicked, Send!ClearDisplayed, Send!None, Send!NoMsg
    <3> HIDE DEF c, b
    <3>4. /\ DOMAIN b = AreaFields /\ b["selType"] = "none" /\ b["clicked"] = <<>>
          /\ \A f \in AreaFields \ {"selType", "clicked"} : b[f] = c[f]
      BY <3>2, <3>3 DEF AreaLike, AreaFields
    <3>5. b.ok
      BY <3>2, <3>4 DEF AreaFields
    <3> QED BY <2>1, <3>2, <3>4, <3>5 DEF AreaLike, AreaFields
  <2>2. CASE a.clicked # m
    <3>1. b = [y EXCEPT !.selType = "Recv", !.clicked = m]
      BY <1>8, <2>2 DEF Send!MsgClicked
    <3> HIDE DEF b
    <3>2. /\ DOMAIN b = AreaFields /\ b["selType"] = "Recv" /\ b["clicked"] = m
          /\ \A f \in AreaFields \ {"selType", "clicked"} : b[f] = y[f]
      BY <1>7, <3>1 DEF AreaLike, AreaFields
    <3>3. b.ok
      BY <1>7, <3>2 DEF AreaFields
    <3> QED BY <2>2, <3>2, <3>3
  <2> QED BY <2>1, <2>2
<1> HIDE DEF b
<1>11. /\ DOMAIN e = AreaFields /\ e["recvSel"] = b.clicked
       /\ \A f \in AreaFields \ {"recvSel"} : e[f] = b[f]
  BY <1>1, <1>10 DEF AreaFields
<1>12. /\ e.rows = a.rows /\ e.count = a.count /\ e.total = a.total /\ e.selIdx = 0 /\ e.current = 0
       /\ e.recvSel = e.clicked /\ e.clicked = b["clicked"] /\ e.selType = b["selType"]
  BY <1>7, <1>10, <1>11 DEF AreaLike, AreaFields
<1>13. e.ok
  BY <1>10, <1>11 DEF AreaFields
<1>14. Listed(e, p)
  BY <1>11, <1>12, <1>13 DEF Listed
<1>15. Chosen(e)
  <2>1. e.current \in 0..Len(e.rows)
    BY <1>2, <1>12
  <2>2. ChosenRecv(e) \/ ChosenNone(e)
    BY <1>10, <1>12 DEF ChosenRecv, ChosenNone
  <2> QED BY <2>1, <2>2 DEF Chosen
<1> QED BY <1>14, <1>15 DEF e

-----------------------------------------------------------------------------
(* The changes of the list.                                                 *)
AddedIs(e, a, p, m) ==
  /\ Listed(e, p) /\ Chosen(e) /\ e.rows = Append(a.rows, m)

LEMMA Adds ==
  ASSUME NEW a, NEW p, Listed(a, p), Chosen(a), NEW m \in Send!Messages, m[1] = p,
         \A i \in 1..Len(a.rows) : a.rows[i] # m
  PROVE  AddedIs(Send!AddNew(a, m), a, p, m)
<1> DEFINE n == Len(a.rows)
           k == n + 1
           a1 == [a EXCEPT !.count = @ + 1]
           a2 == Send!BarCount(a1)
           b == Send!AddRow(a2, m)
           c == Send!SendMsgClicked(b, b.rows[k], k)
           e == Send!Check(c, c.selType = "Send" /\ c.clicked # <<>>)
<1>1. /\ n \in Nat /\ Told(a) /\ a.selIdx \in Nat /\ a.selIdx <= n /\ DOMAIN a = AreaFields /\ a.ok
      /\ a.count = n /\ a.rows \in Seq(Send!Messages)
  BY ChosenIsTold DEF Listed
<1>2. a.clicked # m
  BY FreshIsNotClicked
<1> HIDE DEF n
<1>3. DOMAIN a1 = AreaFields /\ a1["count"] = k /\ \A f \in AreaFields \ {"count"} : a1[f] = a[f]
  BY <1>1 DEF AreaFields
<1> HIDE DEF a1
<1>4. a1.ok /\ a1.selIdx <= a1.count
  BY <1>1, <1>3 DEF AreaFields
<1>5. TotalIs(a2, a1)
  BY <1>3, <1>4, BarCounts
<1> HIDE DEF a2
<1>6. /\ DOMAIN a2 = AreaFields /\ a2["total"] = k /\ a2["count"] = k /\ a2.ok
      /\ \A f \in AreaFields \ {"total", "count", "ok"} : a2[f] = a[f]
  BY <1>3, <1>5 DEF TotalIs, AreaLike, AreaFields
<1>7. b = [a2 EXCEPT !.rows = Append(a2.rows, m), !.current = Len(a2.rows) + 1]
  BY DEF Send!AddRow
<1> HIDE DEF b
<1>8. a2.rows = a.rows
  BY <1>6 DEF AreaFields
<1>9. /\ DOMAIN b = AreaFields /\ b["rows"] = Append(a.rows, m) /\ b["current"] = k
      /\ \A f \in AreaFields \ {"rows", "current"} : b[f] = a2[f]
  BY <1>6, <1>7, <1>8 DEF AreaFields, n
<1>10. b.ok
  BY <1>6, <1>9 DEF AreaFields
<1>11. /\ b.rows = Append(a.rows, m) /\ b.count = k /\ b.total = k
       /\ b.clicked = a.clicked /\ b.selType = a.selType
  BY <1>6, <1>9 DEF AreaFields
<1>12. /\ b.rows \in Seq(Send!Messages) /\ Len(b.rows) = k /\ b.rows[k] = m
       /\ \A i \in 1..n : b.rows[i] = a.rows[i]
  BY <1>1, <1>11, AppendProperties DEF n
<1>13. Distinct(b.rows)
  <2>1. ASSUME NEW i \in 1..k, NEW j \in 1..k, b.rows[i] = b.rows[j] PROVE i = j
    <3>1. CASE i \in 1..n /\ j \in 1..n
      BY <1>1, <1>12, <2>1, <3>1 DEF Distinct, Listed, n
    <3>2. CASE i = k /\ j \in 1..n
      BY <1>12, <2>1, <3>2 DEF n
    <3>3. CASE j = k /\ i \in 1..n
      BY <1>12, <2>1, <3>3 DEF n
    <3> QED BY <1>1, <3>1, <3>2, <3>3
  <2> QED BY <1>12, <2>1 DEF Distinct
<1>14. \A i \in 1..Len(b.rows) : b.rows[i][1] = p
  BY <1>1, <1>12 DEF Listed, n
<1>15. Listed(b, p) /\ Told(b)
  <2>1. Listed(b, p)
    BY <1>9, <1>10, <1>11, <1>12, <1>13, <1>14 DEF Listed
  <2>2. Told(b)
    BY <1>1, <1>11 DEF Told
  <2> QED BY <2>1, <2>2
<1>16. k \in 1..Len(b.rows)
  BY <1>1, <1>12
<1>17. ClickedIs(c, b, b.rows[k], k) /\ Listed(c, p) /\ Chosen(c)
  BY <1>15, <1>16, RowClicked
<1>18. Send!AddNew(a, m) = e
  <2>1. b.count = k /\ b.rows[k] = m
    BY <1>11, <1>12
  <2> QED BY <2>1 DEF Send!AddNew, Send!NoMsg, b, a2, a1
<1> HIDE DEF c
<1>19. c.selType = "Send" /\ c.clicked # <<>> /\ c.rows = b.rows
  BY <1>2, <1>11, <1>12, <1>17, MessagesDiffer DEF ClickedIs, AreaLike, AreaFields
<1>20. Listed(e, p) /\ Chosen(e) /\ AreaLike(e, c, {"ok"})
  BY <1>17, <1>19, CheckedStays
<1>21. e.rows = c.rows
  BY <1>20 DEF AreaLike, AreaFields
<1> QED BY <1>11, <1>18, <1>19, <1>20, <1>21 DEF AddedIs

UpdatedIs(e, a, p) == Listed(e, p) /\ Chosen(e) /\ ChosenSend(e) /\ Len(e.rows) = Len(a.rows)

LEMMA Updates ==
  ASSUME NEW a, NEW p, Listed(a, p), ChosenSend(a), NEW m \in Send!Messages, m[1] = p,
         \A i \in 1..Len(a.rows) : a.rows[i] # m
  PROVE  UpdatedIs(Send!Update(a, m), a, p)
<1> DEFINE n == Len(a.rows)
           k == a.current
           c == a.count > 0 /\ a.clicked # <<>> /\ a.current > 0
           b == Send!Check(a, c)
           t == [a.rows EXCEPT ![k] = m]
           e == Send!Update(a, m)
<1>1. n \in Nat /\ k \in 1..n /\ a.count = n /\ a.rows \in Seq(Send!Messages) /\ a.rows[k] = a.clicked
  BY LenProperties DEF Listed, ChosenSend
<1>2. c
  <2>1. a.clicked # <<>>
    BY <1>1, ElementOfSeq, MessagesDiffer
  <2> QED BY <1>1, <2>1
<1> HIDE DEF c
<1>3. AreaLike(b, a, {"ok"}) /\ b.ok
  BY <1>2, Checked DEF Listed
<1>4. e = [b EXCEPT !.clicked = m, !.rows = [b.rows EXCEPT ![k] = m]]
  BY DEF Send!Update, Send!NoMsg, c
<1> HIDE DEF b, e
<1>5. b.rows = a.rows
  BY <1>3 DEF AreaLike, AreaFields
<1>6. /\ DOMAIN e = AreaFields /\ e["clicked"] = m /\ e["rows"] = t
      /\ \A f \in AreaFields \ {"clicked", "rows"} : e[f] = b[f]
  BY <1>3, <1>4, <1>5 DEF AreaLike, AreaFields
<1>7. e.ok
  BY <1>3, <1>6 DEF AreaFields
<1>8. /\ e.rows = t /\ e.clicked = m /\ e.count = a.count /\ e.total = a.total /\ e.current = k
      /\ e.selType = a.selType /\ e.selIdx = a.selIdx /\ e.recvSel = a.recvSel
  BY <1>3, <1>6 DEF AreaLike, AreaFields
<1> HIDE DEF k
<1>9. t \in Seq(Send!Messages) /\ Len(t) = n /\ \A i \in 1..n : t[i] = IF i = k THEN m ELSE a.rows[i]
  BY <1>1, ExceptSeq
<1> HIDE DEF t
<1>10. Distinct(t)
  <2>1. ASSUME NEW i \in 1..n, NEW j \in 1..n, t[i] = t[j] PROVE i = j
    <3>1. CASE i # k /\ j # k
      BY <1>1, <1>9, <2>1, <3>1 DEF Distinct, Listed
    <3>2. CASE i = k
      BY <1>9, <2>1, <3>2
    <3>3. CASE j = k
      BY <1>9, <2>1, <3>3
    <3> QED BY <3>1, <3>2, <3>3
  <2> HIDE DEF n
  <2> QED BY <1>9, <2>1 DEF Distinct
<1>11. \A i \in 1..n : t[i][1] = p
  BY <1>9 DEF Listed
<1>12. Listed(e, p)
  <2>1. e.count = n /\ e.total = n /\ DOMAIN e = AreaFields
    BY <1>6, <1>8 DEF Listed
  <2> HIDE DEF n
  <2> QED BY <1>7, <1>8, <1>9, <1>10, <1>11, <2>1 DEF Listed
<1>13. ChosenSend(e)
  <2>1. t[k] = m /\ a.selType = "Send" /\ a.selIdx = k /\ a.recvSel = <<>>
    BY <1>1, <1>9 DEF ChosenSend, k
  <2> HIDE DEF n
  <2> QED BY <1>1, <1>8, <1>9, <2>1 DEF ChosenSend
<1>14. Chosen(e)
  BY <1>1, <1>8, <1>9, <1>13 DEF Chosen
<1>15. UpdatedIs(e, a, p)
  BY <1>8, <1>9, <1>12, <1>13, <1>14 DEF UpdatedIs
<1> QED BY <1>15 DEF e

(* deleteCurrentMessage() takes the row away and selects the next one.        *)
DeletedIs(e, a, p) ==
  /\ DOMAIN e = AreaFields /\ e.ok /\ e.rows \in Seq(Send!Messages) /\ Distinct(e.rows)
  /\ \A i \in 1..Len(e.rows) : e.rows[i][1] = p
  /\ Len(e.rows) = Len(a.rows) - 1 /\ e.count = a.count /\ e.total = a.total
  /\ IF Len(e.rows) = 0 THEN e.current = 0 /\ e.selType = "none" /\ e.clicked = <<>> /\ e.recvSel = <<>>
     ELSE ChosenSend(e)

LEMMA RowDeleted ==
  ASSUME NEW a, NEW p, Listed(a, p), a.current \in 1..Len(a.rows),
         a.selType = "none", a.clicked = <<>>, a.recvSel = <<>>
  PROVE  DeletedIs(Send!DeleteRow(a), a, p)
<1> DEFINE n == Len(a.rows)
           k == a.current
           rest == Send!RemoveAt(a.rows, k)
           next == IF k <= Len(rest) THEN k ELSE Len(rest)
           b == [a EXCEPT !.rows = rest, !.current = next]
           m == rest[next]
           c == Send!SendMsgClicked(b, m, next)
           e == Send!DeleteRow(a)
<1>1. n \in Nat /\ k \in 1..n /\ a.count = n /\ a.total = n /\ a.rows \in Seq(Send!Messages)
  BY LenProperties DEF Listed
<1>2. e = IF next = 0 THEN b ELSE c
  BY DEF Send!DeleteRow
<1> HIDE DEF k, e
<1>3. /\ rest \in Seq(Send!Messages) /\ Len(rest) = n - 1
      /\ \A i \in 1..(n - 1) : rest[i] = IF i < k THEN a.rows[i] ELSE a.rows[i + 1]
  BY <1>1, ElementRemoved
<1> HIDE DEF rest
<1>4. Distinct(rest)
  <2>1. ASSUME NEW i \in 1..(n - 1), NEW j \in 1..(n - 1), rest[i] = rest[j] PROVE i = j
    <3> DEFINE x == IF i < k THEN i ELSE i + 1
               y == IF j < k THEN j ELSE j + 1
    <3>1. x \in 1..n /\ y \in 1..n
      BY <1>1
    <3>2. a.rows[x] = a.rows[y]
      BY <1>3, <2>1
    <3>3. x = y
      <4> HIDE DEF x, y
      <4> QED BY <3>1, <3>2 DEF Distinct, Listed
    <3> QED BY <1>1, <3>3
  <2> QED BY <1>3, <2>1 DEF Distinct
<1>5. \A i \in 1..Len(rest) : rest[i][1] = p
  <2>1. ASSUME NEW i \in 1..(n - 1) PROVE rest[i][1] = p
    <3> DEFINE x == IF i < k THEN i ELSE i + 1
    <3>1. x \in 1..n /\ rest[i] = a.rows[x]
      BY <1>1, <1>3
    <3> HIDE DEF x
    <3> QED BY <3>1 DEF Listed
  <2> QED BY <1>3, <2>1
<1>6. next \in Nat /\ next <= Len(rest) /\ (next = 0 <=> Len(rest) = 0)
  BY <1>1, <1>3
<1> HIDE DEF next
<1>7. /\ DOMAIN b = AreaFields /\ b["rows"] = rest /\ b["current"] = next
      /\ \A f \in AreaFields \ {"rows", "current"} : b[f] = a[f]
  BY DEF Listed, AreaFields
<1> HIDE DEF b
<1>8. b.ok
  BY <1>7 DEF Listed, AreaFields
<1>9. /\ b.rows = rest /\ b.current = next /\ b.total = n /\ b.count = n
      /\ b.selType = "none" /\ b.clicked = <<>> /\ b.recvSel = <<>>
  BY <1>1, <1>7 DEF AreaFields
<1>10. ASSUME next = 0 PROVE DeletedIs(e, a, p)
  <2>1. e = b /\ Len(rest) = 0
    BY <1>2, <1>6, <1>10
  <2> QED BY <1>1, <1>3, <1>4, <1>5, <1>7, <1>8, <1>9, <1>10, <2>1 DEF DeletedIs
<1>11. ASSUME next # 0 PROVE DeletedIs(e, a, p)
  <2>1. next \in 1..Len(rest) /\ n \in Nat /\ next <= n /\ Len(rest) \in Nat
    BY <1>1, <1>3, <1>6, <1>11
  <2>2. m \in Send!Messages
    BY <1>3, <2>1, ElementOfSeq
  <2>3. m # <<>>
    BY <2>2, MessagesDiffer
  <2> HIDE DEF m
  <2>4. Told(b) /\ b.total \in Nat /\ Len(b.rows) \in Nat /\ next <= b.total /\ next <= Len(b.rows)
    BY <1>9, <2>1 DEF Told
  <2>5. ClickedIs(c, b, m, next)
    BY <1>6, <1>7, <1>8, <2>2, <2>4, SendClicked
  <2> HIDE DEF c
  <2>6. /\ c.ok /\ DOMAIN c = AreaFields /\ c.rows = rest /\ c.count = n /\ c.total = n
        /\ c.selType = "Send" /\ c.clicked = m /\ c.selIdx = next /\ c.current = next /\ c.recvSel = <<>>
    BY <1>9, <2>3, <2>5 DEF ClickedIs, AreaLike, AreaFields
  <2>7. ChosenSend(c)
    BY <2>1, <2>6 DEF ChosenSend, m
  <2>8. e = c /\ Len(rest) # 0
    BY <1>2, <1>6, <1>11
  <2> QED BY <1>1, <1>3, <1>4, <1>5, <2>6, <2>7, <2>8 DEF DeletedIs
<1> QED BY <1>10, <1>11 DEF e

LEMMA Unselects ==
  ASSUME NEW a, DOMAIN a = AreaFields, a.ok, a.total \in Nat, Len(a.rows) \in Nat
  PROVE  SelectedIs(Send!NotSelected(a), a, 0)
<1> DEFINE z == 0
<1>1. z <= a.total /\ z <= Len(a.rows)
  OBVIOUS
<1> HIDE DEF z
<1>2. SelectedIs(Send!Selected(a, z), a, z)
  BY <1>1, Selects
<1> QED BY <1>2 DEF Send!NotSelected, z

LEMMA Deletes ==
  ASSUME NEW a, NEW p, Listed(a, p), ChosenSend(a)
  PROVE  Listed(Send!Delete(a), p) /\ Chosen(Send!Delete(a))
<1> DEFINE n == Len(a.rows)
           c == a.count > 0 /\ a.selType = "Send" /\ a.clicked # <<>> /\ a.current > 0
           b == Send!Check(a, c)
           d == Send!ClearDisplayed(b)
           r == Send!DeleteRow(d)
           x == [r EXCEPT !.count = r.count - 1]
           y == IF x.count = 0 THEN Send!NotSelected(x) ELSE x
           e == Send!BarCount(y)
<1>1. n \in Nat /\ a.current \in 1..n /\ a.count = n /\ a.total = n /\ a.rows[a.current] \in Send!Messages
  BY LenProperties, ElementOfSeq DEF Listed, ChosenSend
<1>2. c
  BY <1>1, MessagesDiffer DEF ChosenSend
<1>3. Send!Delete(a) = e
  BY DEF Send!Delete, Send!DecCount, Send!NoMsg
<1> HIDE DEF c
<1>4. AreaLike(b, a, {"ok"}) /\ b.ok
  BY <1>2, Checked DEF Listed
<1> HIDE DEF b
<1>5. d = [b EXCEPT !.selType = "none", !.clicked = <<>>]
  BY DEF Send!ClearDisplayed, Send!None, Send!NoMsg
<1> HIDE DEF d
<1>6. /\ DOMAIN d = AreaFields /\ d["selType"] = "none" /\ d["clicked"] = <<>>
      /\ \A f \in AreaFields \ {"selType", "clicked"} : d[f] = b[f]
  BY <1>4, <1>5 DEF AreaLike, AreaFields
<1>7. d.ok
  BY <1>4, <1>6 DEF AreaFields
<1>8. /\ d.rows = a.rows /\ d.count = a.count /\ d.total = a.total /\ d.current = a.current
      /\ d.selType = "none" /\ d.clicked = <<>> /\ d.recvSel = <<>>
  BY <1>4, <1>6 DEF AreaLike, AreaFields, ChosenSend
<1>9. Listed(d, p) /\ d.current \in 1..Len(d.rows)
  BY <1>6, <1>7, <1>8 DEF Listed, ChosenSend
<1>10. DeletedIs(r, d, p)
  BY <1>8, <1>9, RowDeleted
<1> HIDE DEF r
<1>11. /\ DOMAIN r = AreaFields /\ r.ok /\ r.rows \in Seq(Send!Messages) /\ Distinct(r.rows)
       /\ \A i \in 1..Len(r.rows) : r.rows[i][1] = p
       /\ Len(r.rows) = n - 1 /\ r.count = n /\ r.total = n
       /\ Len(r.rows) = 0 => r.current = 0 /\ r.selType = "none" /\ r.clicked = <<>> /\ r.recvSel = <<>>
       /\ Len(r.rows) # 0 => ChosenSend(r)
  BY <1>1, <1>8, <1>10 DEF DeletedIs
<1>12. DOMAIN x = AreaFields /\ x["count"] = n - 1 /\ \A f \in AreaFields \ {"count"} : x[f] = r[f]
  BY <1>11 DEF AreaFields
<1> HIDE DEF x
<1>13. x.ok
  BY <1>11, <1>12 DEF AreaFields
<1>14. /\ x.count = n - 1 /\ x.rows = r.rows /\ x.total = n /\ x.current = r.current
       /\ x.selType = r.selType /\ x.clicked = r.clicked /\ x.recvSel = r.recvSel /\ x.selIdx = r.selIdx
  BY <1>11, <1>12 DEF AreaFields
<1> HIDE DEF n
<1>15. /\ DOMAIN y = AreaFields /\ y.ok /\ y.rows = r.rows /\ y.count = n - 1 /\ y.recvSel = r.recvSel
       /\ y.selType = r.selType /\ y.clicked = r.clicked
       /\ IF n - 1 = 0 THEN y.selIdx = 0 /\ y.current = 0 ELSE y.selIdx = r.selIdx /\ y.current = r.current
  <2>1. CASE n - 1 = 0
    <3> DEFINE w == Send!NotSelected(x)
    <3>1. x.total \in Nat /\ Len(x.rows) \in Nat
      BY <1>1, <1>11, <1>14, <2>1
    <3>2. SelectedIs(w, x, 0)
      BY <1>12, <1>13, <3>1, Unselects
    <3>3. y = w
      BY <1>14, <2>1
    <3> HIDE DEF w, y
    <3>4. /\ DOMAIN w = AreaFields /\ w.ok /\ w.rows = x.rows /\ w.count = x.count /\ w.recvSel = x.recvSel
          /\ w.selType = x.selType /\ w.clicked = x.clicked /\ w.selIdx = 0 /\ w.current = 0
      BY <3>2 DEF SelectedIs, AreaLike, AreaFields
    <3> QED BY <1>14, <2>1, <3>3, <3>4
  <2>2. CASE n - 1 # 0
    <3>1. y = x
      BY <1>14, <2>2
    <3> HIDE DEF y
    <3> QED BY <1>12, <1>13, <1>14, <2>2, <3>1
  <2> QED BY <2>1, <2>2
<1> HIDE DEF y
<1>16. y.selIdx <= y.count
  <2>1. CASE n - 1 = 0
    BY <1>15, <2>1
  <2>2. CASE n - 1 # 0
    BY <1>1, <1>11, <1>15, <2>2 DEF ChosenSend
  <2> QED BY <2>1, <2>2
<1>17. TotalIs(e, y)
  BY <1>15, <1>16, BarCounts
<1> HIDE DEF e
<1>18. /\ DOMAIN e = AreaFields /\ e.ok /\ e.rows = r.rows /\ e.count = n - 1 /\ e.total = n - 1
       /\ e.recvSel = r.recvSel /\ e.selType = r.selType /\ e.clicked = r.clicked
       /\ IF n - 1 = 0 THEN e.selIdx = 0 /\ e.current = 0 ELSE e.selIdx = r.selIdx /\ e.current = r.current
  <2>1. /\ DOMAIN e = AreaFields /\ e.ok /\ e.rows = y.rows /\ e.count = y.count /\ e.total = y.count
        /\ e.recvSel = y.recvSel /\ e.selType = y.selType /\ e.clicked = y.clicked
        /\ e.selIdx = y.selIdx /\ e.current = y.current
    BY <1>17 DEF TotalIs, AreaLike, AreaFields
  <2> QED BY <1>15, <2>1
<1>19. Listed(e, p)
  BY <1>11, <1>18 DEF Listed
<1>20. Chosen(e)
  <2>1. CASE n - 1 = 0
    BY <1>11, <1>18, <2>1 DEF Chosen, ChosenNone
  <2>2. CASE n - 1 # 0
    <3>1. ChosenSend(r)
      BY <1>11, <2>2
    <3>2. ChosenSend(e)
      BY <1>18, <2>2, <3>1 DEF ChosenSend
    <3>3. e.current \in 0..Len(e.rows)
      BY <1>1, <1>11, <1>18, <3>2 DEF ChosenSend
    <3> QED BY <3>2, <3>3 DEF Chosen
  <2> QED BY <2>1, <2>2
<1> QED BY <1>3, <1>19, <1>20

ClearedIs(e) == Chosen(e) /\ e.rows = <<>> /\ \A p \in {"p", "q"} : Listed(e, p)

LEMMA Clears ==
  ASSUME NEW a, NEW p, Listed(a, p), Chosen(a), a.count > 0
  PROVE  ClearedIs(Send!Clear(a)) /\ Send!Clear(a).active = a.active
<1> DEFINE c == a.count > 0 /\ (a.selType = "Send" => a.clicked # <<>>)
           w == [a EXCEPT !.rows = <<>>, !.current = 0]
           b == Send!Check(w, c)
           d == [b EXCEPT !.count = 0]
           x == Send!ClearDisplayed(d)
           y == IF a.selType = "Send" THEN Send!NotSelected(x) ELSE d
           e == Send!BarCount(y)
<1>1. c
  <2>1. ASSUME a.selType = "Send" PROVE a.clicked # <<>>
    BY <2>1, ChosenIsTold, MessagesDiffer DEF Told
  <2> QED BY <2>1
<1>2. Send!Clear(a) = e
  BY DEF Send!Clear, Send!NoMsg
<1> HIDE DEF c
<1>3. /\ DOMAIN w = AreaFields /\ w["rows"] = <<>> /\ w["current"] = 0
      /\ \A f \in AreaFields \ {"rows", "current"} : w[f] = a[f]
  BY DEF Listed, AreaFields
<1> HIDE DEF w
<1>4. w.ok
  BY <1>3 DEF Listed, AreaFields
<1>5. AreaLike(b, w, {"ok"}) /\ b.ok
  BY <1>1, <1>3, <1>4, Checked
<1> HIDE DEF b
<1>6. DOMAIN d = AreaFields /\ d["count"] = 0 /\ \A f \in AreaFields \ {"count"} : d[f] = b[f]
  BY <1>5 DEF AreaLike, AreaFields
<1> HIDE DEF d
<1>7. d.ok
  BY <1>5, <1>6 DEF AreaFields
<1>8. /\ d.rows = <<>> /\ d.current = 0 /\ d.count = 0 /\ d.total = a.total /\ d.active = a.active
      /\ d.selType = a.selType /\ d.clicked = a.clicked /\ d.recvSel = a.recvSel /\ d.selIdx = a.selIdx
  BY <1>3, <1>5, <1>6 DEF AreaLike, AreaFields
<1>9. /\ DOMAIN y = AreaFields /\ y.ok /\ y.rows = <<>> /\ y.current = 0 /\ y.count = 0 /\ y.active = a.active
      /\ y.selIdx = 0 /\ (ChosenRecv(y) \/ ChosenNone(y))
  <2>1. CASE a.selType = "Send"
    <3> DEFINE u == Send!NotSelected(x)
    <3>1. y = u
      BY <2>1
    <3>2. x = [d EXCEPT !.selType = "none", !.clicked = <<>>]
      BY DEF Send!ClearDisplayed, Send!None, Send!NoMsg
    <3> HIDE DEF x, u, y
    <3>3. /\ DOMAIN x = AreaFields /\ x["selType"] = "none" /\ x["clicked"] = <<>>
          /\ \A f \in AreaFields \ {"selType", "clicked"} : x[f] = d[f]
      BY <1>6, <3>2 DEF AreaFields
    <3>4. x.ok
      BY <1>7, <3>3 DEF AreaFields
    <3>5. a.recvSel = <<>>
      BY <2>1 DEF Chosen, ChosenSend, ChosenRecv, ChosenNone
    <3>6. /\ x.rows = <<>> /\ x.current = 0 /\ x.count = 0 /\ x.total = a.total /\ x.active = a.active
          /\ x.selType = "none" /\ x.clicked = <<>> /\ x.recvSel = <<>>
      BY <1>8, <3>3, <3>5 DEF AreaFields
    <3>7. x.total \in Nat /\ Len(x.rows) \in Nat
      BY <3>6, ChosenIsTold
    <3>8. SelectedIs(u, x, 0)
      BY <3>3, <3>4, <3>7, Unselects DEF u
    <3>9. /\ DOMAIN u = AreaFields /\ u.ok /\ u.rows = <<>> /\ u.current = 0 /\ u.count = 0 /\ u.selIdx = 0
          /\ u.selType = "none" /\ u.clicked = <<>> /\ u.recvSel = <<>> /\ u.active = a.active
      BY <3>6, <3>8 DEF SelectedIs, AreaLike, AreaFields
    <3> QED BY <3>1, <3>9 DEF ChosenNone
  <2>2. CASE a.selType # "Send"
    <3>1. y = d
      BY <2>2
    <3> HIDE DEF y
    <3>2. ChosenRecv(a) \/ ChosenNone(a)
      BY <2>2 DEF Chosen, ChosenSend
    <3>3. (ChosenRecv(d) \/ ChosenNone(d)) /\ d.selIdx = 0
      BY <1>8, <3>2 DEF ChosenRecv, ChosenNone
    <3> QED BY <1>6, <1>7, <1>8, <3>1, <3>3
  <2> QED BY <2>1, <2>2
<1> HIDE DEF y
<1>10. y.selIdx <= y.count
  BY <1>9
<1>11. TotalIs(e, y)
  BY <1>9, <1>10, BarCounts
<1> HIDE DEF e
<1>12. /\ DOMAIN e = AreaFields /\ e.ok /\ e.rows = <<>> /\ e.current = 0 /\ e.count = 0 /\ e.total = 0
       /\ e.selIdx = 0 /\ e.selType = y.selType /\ e.clicked = y.clicked /\ e.recvSel = y.recvSel
       /\ e.active = a.active
  <2>1. /\ DOMAIN e = AreaFields /\ e.ok /\ e.rows = y.rows /\ e.current = y.current /\ e.count = y.count
        /\ e.total = y.count /\ e.selIdx = y.selIdx /\ e.selType = y.selType /\ e.clicked = y.clicked
        /\ e.recvSel = y.recvSel /\ e.active = y.active
    BY <1>11 DEF TotalIs, AreaLike, AreaFields
  <2> QED BY <1>9, <2>1
<1>13. Chosen(e)
  BY <1>9, <1>12 DEF Chosen, ChosenRecv, ChosenNone
<1>14. <<>> \in Seq(Send!Messages) /\ Len(<<>>) = 0
  OBVIOUS
<1>15. ASSUME NEW q \in {"p", "q"} PROVE Listed(e, q)
  BY <1>12, <1>14 DEF Listed, Distinct
<1>16. ClearedIs(e) /\ e.active = a.active
  BY <1>12, <1>13, <1>15 DEF ClearedIs
<1> QED BY <1>2, <1>16

-----------------------------------------------------------------------------
(* A row that is moved keeps the selection.                                  *)
MovedIs(e, a, p) == Listed(e, p) /\ Chosen(e) /\ e.clicked = a.clicked

LEMMA ItemMoves ==
  ASSUME NEW a, NEW p, Listed(a, p), ChosenSend(a), NEW to \in 1..Len(a.rows), to # a.current
  PROVE  MovedIs(Send!MoveItem(a, to), a, p)
<1> DEFINE n == Len(a.rows)
           from == a.current
           m == a.rows[from]
           next == IF from < n THEN from + 1 ELSE from - 1
           o == a.rows[next]
           w == [a EXCEPT !.current = next]
           b == Send!SendMsgClicked(w, o, next)
           t == Send!InsertAt(Send!RemoveAt(a.rows, from), to, m)
           c == [b EXCEPT !.rows = Send!InsertAt(Send!RemoveAt(b.rows, from), to, m), !.current = to]
           d == Send!SendMsgClicked(c, m, to)
           x == Send!Check(d, d.clicked # <<>> /\ d.selType = "Send")
           e == Send!Selected(x, to)
<1>1. /\ n \in Nat /\ from \in 1..n /\ a.count = n /\ a.total = n /\ a.rows \in Seq(Send!Messages)
      /\ m \in Send!Messages /\ m = a.clicked /\ a.selType = "Send" /\ to \in 1..n /\ to # from
  BY LenProperties, ElementOfSeq DEF Listed, ChosenSend
<1>2. next \in 1..n /\ next # from
  BY <1>1
<1>3. o \in Send!Messages /\ o # m /\ m # <<>>
  <2>1. o \in Send!Messages
    BY <1>1, <1>2, ElementOfSeq
  <2>2. o # m
    <3> HIDE DEF next, from
    <3> QED BY <1>1, <1>2 DEF Listed, Distinct
  <2> QED BY <1>1, <2>1, <2>2, MessagesDiffer
<1>4. t \in Seq(Send!Messages) /\ Len(t) = n /\ t[to] = m /\ Distinct(t)
  <2>1. a.rows \in Seq(Send!Messages) /\ Distinct(a.rows) /\ from \in 1..Len(a.rows) /\ to \in 1..Len(a.rows)
    BY <1>1 DEF Listed
  <2> HIDE DEF from
  <2> DEFINE t1 == Send!InsertAt(Send!RemoveAt(a.rows, from), to, a.rows[from])
  <2>2. t1 \in Seq(Send!Messages) /\ Len(t1) = Len(a.rows) /\ t1[to] = a.rows[from] /\ Distinct(t1)
    BY <2>1, ElementMoved
  <2> QED BY <2>2
<1>5. \A i \in 1..n : t[i][1] = p
  <2>1. ASSUME NEW i \in 1..n PROVE \E j \in 1..n : t[i] = a.rows[j]
    <3> DEFINE r == Send!RemoveAt(a.rows, from)
               j == IF i = to THEN from ELSE IF i < to THEN IF i < from THEN i ELSE i + 1
                    ELSE IF i - 1 < from THEN i - 1 ELSE i
    <3>1. /\ r \in Seq(Send!Messages) /\ Len(r) = n - 1
          /\ \A k \in 1..(n - 1) : r[k] = IF k < from THEN a.rows[k] ELSE a.rows[k + 1]
      BY <1>1, ElementRemoved
    <3> HIDE DEF r, from, n
    <3>2. to \in 1..(Len(r) + 1)
      BY <1>1, <3>1
    <3> HIDE DEF m
    <3>3. /\ Len(Send!InsertAt(r, to, m)) = n
          /\ \A k \in 1..n :
               Send!InsertAt(r, to, m)[k] = IF k < to THEN r[k] ELSE IF k = to THEN m ELSE r[k - 1]
      <4>1. /\ Len(Send!InsertAt(r, to, m)) = Len(r) + 1
            /\ \A k \in 1..(Len(r) + 1) :
                 Send!InsertAt(r, to, m)[k] = IF k < to THEN r[k] ELSE IF k = to THEN m ELSE r[k - 1]
        <5>1. r \in Seq(Send!Messages) /\ m \in Send!Messages
          BY <1>1, <3>1
        <5> QED BY <3>2, <5>1, ElementInserted
      <4>2. Len(r) + 1 = n
        BY <1>1, <3>1
      <4> QED BY <4>1, <4>2
    <3>4. t[i] = IF i < to THEN r[i] ELSE IF i = to THEN m ELSE r[i - 1]
      BY <3>3 DEF r
    <3>5. j \in 1..n
      BY <1>1
    <3>6. t[i] = a.rows[j]
      <4>1. CASE i = to
        BY <3>4, <4>1 DEF m
      <4>2. CASE i < to
        <5>1. i \in 1..(n - 1)
          BY <1>1, <4>2
        <5> QED BY <1>1, <3>1, <3>4, <4>2, <5>1
      <4>3. CASE i > to
        <5> DEFINE k == i - 1
        <5>1. k \in 1..(n - 1) /\ t[i] = r[k]
          BY <1>1, <3>4, <4>3
        <5>2. r[k] = IF k < from THEN a.rows[k] ELSE a.rows[k + 1]
          BY <3>1, <5>1
        <5>3. k + 1 = i
          BY <1>1
        <5>4. i # to /\ ~(i < to) /\ j = IF k < from THEN k ELSE i
          BY <1>1, <4>3
        <5> HIDE DEF k, j, t
        <5> QED BY <5>1, <5>2, <5>3, <5>4
      <4>4. i < to \/ i = to \/ i > to
        BY <1>1
      <4> QED BY <4>1, <4>2, <4>3, <4>4
    <3> HIDE DEF j, t
    <3> QED BY <3>5, <3>6
  <2> HIDE DEF t
  <2> QED BY <2>1 DEF Listed
<1>6. Send!MoveItem(a, to) = e
  BY DEF Send!MoveItem, Send!Moved, Send!NoMsg
<1>7. DOMAIN w = AreaFields /\ \A f \in AreaFields \ {"current"} : w[f] = a[f]
  BY DEF Listed, AreaFields
<1> HIDE DEF w
<1>8. w.ok
  BY <1>7 DEF Listed, AreaFields
<1>9. /\ w.rows = a.rows /\ w.total = n /\ w.count = n /\ w.clicked = m /\ w.selType = "Send"
  BY <1>1, <1>7 DEF AreaFields
<1> HIDE DEF n, m, o, next, from, t
<1>10. next \in Nat /\ next <= n /\ to \in Nat /\ to <= n
  BY <1>1, <1>2
<1>11. ClickedIs(b, w, o, next)
  <2>1. Told(w) /\ w.total \in Nat /\ Len(w.rows) \in Nat /\ next <= w.total /\ next <= Len(w.rows)
    BY <1>1, <1>9, <1>10 DEF Told, n
  <2> QED BY <1>3, <1>7, <1>8, <1>10, <2>1, SendClicked
<1> HIDE DEF b
<1>12. /\ DOMAIN b = AreaFields /\ b.ok /\ b.rows = a.rows /\ b.count = n /\ b.total = n
       /\ b.clicked = o /\ b.selType = "Send"
  BY <1>3, <1>9, <1>11 DEF ClickedIs, AreaLike, AreaFields
<1>13. c = [b EXCEPT !.rows = t, !.current = to]
  BY <1>12 DEF c, t
<1> HIDE DEF c
<1>14. /\ DOMAIN c = AreaFields /\ c["rows"] = t /\ \A f \in AreaFields \ {"rows", "current"} : c[f] = b[f]
  BY <1>12, <1>13 DEF AreaFields
<1>15. c.ok
  BY <1>12, <1>14 DEF AreaFields
<1>16. c.rows = t /\ c.count = n /\ c.total = n /\ c.clicked = o /\ c.selType = "Send"
  BY <1>12, <1>14 DEF AreaFields
<1>17. Listed(c, p) /\ Told(c)
  <2>1. Listed(c, p)
    BY <1>4, <1>5, <1>14, <1>15, <1>16 DEF Listed
  <2>2. Told(c)
    BY <1>3, <1>16 DEF Told
  <2> QED BY <2>1, <2>2
<1>18. ClickedIs(d, c, m, to) /\ Listed(d, p) /\ Chosen(d)
  <2>1. c.rows[to] = m /\ to \in 1..Len(c.rows)
    BY <1>1, <1>4, <1>16
  <2>2. ClickedIs(Send!SendMsgClicked(c, c.rows[to], to), c, c.rows[to], to)
        /\ Listed(Send!SendMsgClicked(c, c.rows[to], to), p) /\ Chosen(Send!SendMsgClicked(c, c.rows[to], to))
    BY <1>17, <2>1, RowClicked
  <2> QED BY <2>1, <2>2
<1> HIDE DEF d
<1>19. /\ d.selType = "Send" /\ d.clicked = m /\ d.rows = t /\ d.total = n /\ DOMAIN d = AreaFields /\ d.ok
       /\ d.selIdx = to /\ d.current = to /\ d.count = n /\ d.recvSel = <<>>
  BY <1>3, <1>16, <1>18 DEF ClickedIs, AreaLike, AreaFields
<1>20. AreaLike(x, d, {"ok"}) /\ x.ok
  BY <1>3, <1>19, Checked
<1> HIDE DEF x
<1>21. /\ DOMAIN x = AreaFields /\ x.rows = t /\ x.total = n /\ x.count = n /\ x.selType = "Send" /\ x.clicked = m
       /\ x.recvSel = <<>>
  BY <1>19, <1>20 DEF AreaLike, AreaFields
<1>22. to <= x.total /\ to <= Len(x.rows)
  BY <1>4, <1>10, <1>21
<1>23. SelectedIs(e, x, to)
  BY <1>20, <1>21, <1>22, Selects
<1> HIDE DEF e
<1>24. /\ DOMAIN e = AreaFields /\ e.ok /\ e.rows = t /\ e.total = n /\ e.count = n /\ e.selType = "Send"
       /\ e.clicked = m /\ e.recvSel = <<>> /\ e.selIdx = to /\ e.current = to
  BY <1>21, <1>23 DEF SelectedIs, AreaLike, AreaFields
<1>25. Listed(e, p)
  BY <1>4, <1>5, <1>24 DEF Listed
<1>26. Chosen(e)
  BY <1>1, <1>4, <1>24 DEF Chosen, ChosenSend
<1> QED BY <1>1, <1>6, <1>24, <1>25, <1>26 DEF MovedIs

-----------------------------------------------------------------------------
(* sendUpdateList() after the rows were loaded.                              *)
Loaded(a, p) ==
  /\ DOMAIN a = AreaFields /\ a.ok
  /\ a.rows \in Seq(Send!Messages) /\ Distinct(a.rows)
  /\ \A i \in 1..Len(a.rows) : a.rows[i][1] = p
  /\ a.current \in 0..Len(a.rows) /\ a.total \in Nat
  /\ \/ a.selType = "Send" /\ a.clicked \in Send!Messages /\ a.count > 0
     \/ ChosenRecv(a) \/ ChosenNone(a)

Listing(m, s) == \E i \in 1..Len(s) : s[i] = m

RelistedIs(e, a, p) ==
  /\ Listed(e, p) /\ Chosen(e) /\ e.rows = a.rows
  /\ e.clicked = a.clicked \/ (a.selType = "Send" /\ ~Listing(a.clicked, a.rows))

LEMMA Relists ==
  ASSUME NEW a, NEW p, Loaded(a, p)
  PROVE  RelistedIs(Send!UpdateList(a), a, p)
<1> DEFINE n == Len(a.rows)
           deselect == a.selType = "Send"
           k == Send!Check(a, a.clicked # <<>> /\ a.count > 0)
           z == 0
           b == IF deselect THEN Send!SendMsgClicked(k, a.clicked, z) ELSE a
           d == [b EXCEPT !.count = Len(b.rows)]
           c == Send!BarCount(d)
           place == Send!Place(a.clicked, a.rows)
           e == IF deselect /\ place > 0 THEN Send!SendMsgClicked(c, a.clicked, place) ELSE c
<1>1. Send!UpdateList(a) = e
  BY DEF Send!UpdateList, Send!NoMsg
<1>2. n \in Nat /\ DOMAIN a.rows = 1..n
  BY LenProperties DEF Loaded
<1>3. place \in 0..n /\ (Listing(a.clicked, a.rows) => place \in 1..n /\ a.rows[place] = a.clicked)
      /\ (~Listing(a.clicked, a.rows) => place = 0)
  <2>1. CASE Listing(a.clicked, a.rows)
    <3>1. place = CHOOSE i \in 1..n : a.rows[i] = a.clicked
      BY <1>2, <2>1 DEF Listing, Send!Place
    <3> QED BY <1>2, <2>1, <3>1 DEF Listing
  <2>2. CASE ~Listing(a.clicked, a.rows)
    BY <1>2, <2>2 DEF Listing, Send!Place
  <2> QED BY <2>1, <2>2
<1> HIDE DEF place, n
<1>4. /\ DOMAIN b = AreaFields /\ b.ok /\ b.rows = a.rows /\ b.total = a.total /\ b.selIdx = 0
      /\ b.current \in 0..n
      /\ deselect => b.clicked = <<>> /\ b.selType = "none" /\ b.recvSel = <<>>
      /\ ~deselect => b.clicked = a.clicked /\ b.selType = a.selType /\ b.recvSel = a.recvSel
  <2>1. CASE deselect
    <3> DEFINE m == a.clicked
               y == Send!SendMsgClicked(k, m, z)
    <3>1. a.clicked \in Send!Messages /\ a.count > 0
      BY <2>1 DEF Loaded, ChosenRecv, ChosenNone
    <3>2. a.clicked # <<>>
      BY <3>1, MessagesDiffer
    <3>3. AreaLike(k, a, {"ok"}) /\ k.ok
      BY <3>1, <3>2, Checked DEF Loaded
    <3> HIDE DEF k
    <3>4. /\ DOMAIN k = AreaFields /\ k.rows = a.rows /\ k.total = a.total /\ k.clicked = m /\ k.selType = "Send"
      BY <2>1, <3>3 DEF AreaLike, AreaFields
    <3>5. z \in Nat /\ z <= k.total /\ z <= Len(k.rows) /\ k.total \in Nat /\ Len(k.rows) \in Nat
      BY <1>2, <3>4 DEF Loaded, n
    <3> HIDE DEF z, m
    <3>6. Told(k) /\ m \in Send!Messages
      BY <3>1, <3>4 DEF Told, m
    <3>7. ClickedIs(y, k, m, z)
      BY <3>3, <3>4, <3>5, <3>6, SendClicked
    <3>8. b = y
      BY <2>1 DEF m
    <3> HIDE DEF y, b
    <3>9. /\ DOMAIN y = AreaFields /\ y.ok /\ y.rows = k.rows /\ y.total = k.total /\ y.selIdx = 0
          /\ y.current = 0 /\ y.clicked = <<>> /\ y.selType = "none" /\ y.recvSel = <<>>
      BY <3>4, <3>7 DEF ClickedIs, AreaLike, AreaFields
    <3> QED BY <1>2, <2>1, <3>4, <3>8, <3>9
  <2>2. CASE ~deselect
    <3>1. b = a
      BY <2>2
    <3> HIDE DEF b
    <3>2. a.selIdx = 0
      BY <2>2 DEF Loaded, ChosenRecv, ChosenNone
    <3> QED BY <2>2, <3>1, <3>2 DEF Loaded, n
  <2> QED BY <2>1, <2>2
<1> HIDE DEF b
<1>5. DOMAIN d = AreaFields /\ d["count"] = n /\ \A f \in AreaFields \ {"count"} : d[f] = b[f]
  BY <1>4 DEF AreaFields, n
<1> HIDE DEF d
<1>6. d.ok
  BY <1>4, <1>5 DEF AreaFields
<1>7. /\ d.rows = a.rows /\ d.count = n /\ d.selIdx = 0 /\ d.current = b.current
      /\ d.clicked = b.clicked /\ d.selType = b.selType /\ d.recvSel = b.recvSel
  BY <1>4, <1>5 DEF AreaFields
<1>8. d.selIdx <= d.count
  BY <1>2, <1>7
<1>9. TotalIs(c, d)
  BY <1>5, <1>6, <1>8, BarCounts
<1> HIDE DEF c
<1>10. /\ DOMAIN c = AreaFields /\ c.ok /\ c.rows = a.rows /\ c.count = n /\ c.total = n /\ c.selIdx = 0
       /\ c.current = b.current /\ c.clicked = b.clicked /\ c.selType = b.selType /\ c.recvSel = b.recvSel
  <2>1. /\ DOMAIN c = AreaFields /\ c.ok /\ c.rows = d.rows /\ c.count = d.count /\ c.total = d.count
        /\ c.selIdx = d.selIdx /\ c.current = d.current
        /\ c.clicked = d.clicked /\ c.selType = d.selType /\ c.recvSel = d.recvSel
    BY <1>9 DEF TotalIs, AreaLike, AreaFields
  <2> QED BY <1>7, <2>1
<1>11. Listed(c, p) /\ Chosen(c)
  <2>1. Listed(c, p)
    BY <1>10 DEF Listed, Loaded, n
  <2>2. ChosenRecv(c) \/ ChosenNone(c)
    <3>1. CASE deselect
      BY <1>4, <1>10, <3>1 DEF ChosenNone
    <3>2. CASE ~deselect
      <4>1. ChosenRecv(a) \/ ChosenNone(a)
        BY <3>2 DEF Loaded
      <4> QED BY <1>4, <1>10, <3>2, <4>1 DEF ChosenRecv, ChosenNone
    <3> QED BY <3>1, <3>2
  <2>3. c.current \in 0..Len(c.rows)
    BY <1>4, <1>10 DEF n
  <2> QED BY <2>1, <2>2, <2>3 DEF Chosen
<1> DEFINE s == Send!SendMsgClicked(c, a.clicked, place)
<1>12. ASSUME deselect, place > 0 PROVE RelistedIs(e, a, p)
  <2>1. Listing(a.clicked, a.rows)
    BY <1>2, <1>3, <1>12
  <2>2. place \in 1..Len(c.rows) /\ c.rows[place] = a.clicked
    BY <1>3, <1>10, <2>1 DEF n
  <2>3. Told(c)
    BY <1>11, ChosenIsTold
  <2> DEFINE y == Send!SendMsgClicked(c, c.rows[place], place)
  <2>4. ClickedIs(y, c, c.rows[place], place) /\ Listed(y, p) /\ Chosen(y)
    BY <1>11, <2>2, <2>3, RowClicked
  <2>5. e = y
    BY <1>12, <2>2
  <2> HIDE DEF y, e
  <2>6. a.clicked # <<>>
    BY <1>12, MessagesDiffer DEF Loaded, ChosenRecv, ChosenNone
  <2>7. c.clicked = <<>>
    BY <1>4, <1>10, <1>12
  <2>8. y.rows = a.rows /\ y.clicked = a.clicked
    BY <1>10, <2>2, <2>4, <2>6, <2>7 DEF ClickedIs, AreaLike, AreaFields
  <2> QED BY <2>4, <2>5, <2>8 DEF RelistedIs
<1>13. ASSUME ~(deselect /\ place > 0) PROVE RelistedIs(e, a, p)
  <2>1. e = c
    BY <1>13
  <2> HIDE DEF e
  <2>2. CASE deselect
    <3>1. ~Listing(a.clicked, a.rows)
      BY <1>2, <1>3, <1>13, <2>2
    <3> QED BY <1>10, <1>11, <2>1, <2>2, <3>1 DEF RelistedIs
  <2>3. CASE ~deselect
    BY <1>4, <1>10, <1>11, <2>1, <2>3 DEF RelistedIs
  <2> QED BY <2>2, <2>3
<1> QED BY <1>1, <1>12, <1>13

(* What is loaded: different messages of the protocol that are not listed.    *)
News(a, p, ms) ==
  /\ ms \in Seq(Send!Messages) /\ Distinct(ms)
  /\ \A i \in 1..Len(ms) : ms[i][1] = p /\ \A j \in 1..Len(a.rows) : a.rows[j] # ms[i]

LoadedIs(e, a, p, clear) ==
  /\ Listed(e, p) /\ Chosen(e)
  /\ clear \/ e.clicked = a.clicked
  /\ a.selType # "Send" => e.clicked = a.clicked

LEMMA Loads ==
  ASSUME NEW a, NEW p, Listed(a, p), Chosen(a), NEW clear \in BOOLEAN, NEW ms, News(a, p, ms)
  PROVE  /\ LoadedIs(Send!Load(a, clear, ms), a, p, clear)
         /\ clear => Send!Load(a, clear, ms).rows = ms
<1> DEFINE old == IF clear THEN <<>> ELSE a.rows
           b == IF clear THEN [a EXCEPT !.rows = <<>>, !.current = 0] ELSE a
           d == Send!AddRows(b, ms)
           e == Send!UpdateList(d)
           n == Len(old)
           k == Len(ms)
<1>1. Send!Load(a, clear, ms) = e
  BY DEF Send!Load
<1>2. ms \in Seq(Send!Messages) /\ k \in Nat
  BY LenProperties DEF News
<1>3. old \in Seq(Send!Messages) /\ Distinct(old) /\ n \in Nat /\ \A i \in 1..n : old[i][1] = p
  <2>1. CASE clear
    <3>1. old = <<>>
      BY <2>1
    <3> HIDE DEF old
    <3>2. <<>> \in Seq(Send!Messages) /\ Len(<<>>) = 0
      OBVIOUS
    <3> QED BY <3>1, <3>2 DEF Distinct
  <2>2. CASE ~clear
    <3>1. old = a.rows
      BY <2>2
    <3> HIDE DEF old
    <3> QED BY <3>1, LenProperties DEF Listed
  <2> QED BY <2>1, <2>2
<1>4. \A i \in 1..n, j \in 1..k : old[i] # ms[j]
  <2>1. CASE clear
    <3>1. old = <<>>
      BY <2>1
    <3> HIDE DEF old
    <3>2. Len(<<>>) = 0
      OBVIOUS
    <3> QED BY <3>1, <3>2
  <2>2. CASE ~clear
    BY <2>2 DEF News
  <2> QED BY <2>1, <2>2
<1>5. /\ DOMAIN b = AreaFields /\ b["rows"] = old /\ b["current"] \in 0..n
      /\ \A f \in AreaFields \ {"rows", "current"} : b[f] = a[f]
  <2>1. CASE clear
    <3>1. b = [a EXCEPT !.rows = <<>>, !.current = 0] /\ old = <<>>
      BY <2>1
    <3> HIDE DEF b, old
    <3>2. Len(<<>>) = 0
      OBVIOUS
    <3>3. /\ DOMAIN b = AreaFields /\ b["rows"] = old /\ b["current"] = 0
          /\ \A f \in AreaFields \ {"rows", "current"} : b[f] = a[f]
      BY <3>1 DEF Listed, AreaFields
    <3>4. 0 \in 0..n
      BY <3>1, <3>2
    <3> QED BY <3>3, <3>4
  <2>2. CASE ~clear
    <3>1. b = a /\ old = a.rows
      BY <2>2
    <3> HIDE DEF b, old
    <3> QED BY <3>1 DEF Listed, Chosen, AreaFields
  <2> QED BY <2>1, <2>2
<1> HIDE DEF b, old
<1>6. b.rows = old /\ b.current \in 0..n
  BY <1>5
<1> DEFINE r == old \o ms
           cur == IF ms = <<>> THEN b.current ELSE n + k
<1>7. /\ DOMAIN d = AreaFields /\ d["rows"] = r /\ d["current"] = cur
      /\ \A f \in AreaFields \ {"rows", "current"} : d[f] = b[f]
  <2>1. d = [b EXCEPT !.rows = r, !.current = cur]
    BY <1>6 DEF Send!AddRows
  <2> HIDE DEF d, r, cur
  <2> QED BY <1>5, <2>1 DEF AreaFields
<1> HIDE DEF d
<1>8. d.ok
  BY <1>5, <1>7 DEF Listed, AreaFields
<1>9. /\ d.rows = r /\ d.current = cur /\ d.total = a.total /\ d.count = a.count /\ d.selType = a.selType
      /\ d.clicked = a.clicked /\ d.recvSel = a.recvSel /\ d.selIdx = a.selIdx
  BY <1>5, <1>7 DEF AreaFields
<1>10. /\ r \in Seq(Send!Messages) /\ Len(r) = n + k
       /\ \A i \in 1..(n + k) : r[i] = IF i <= n THEN old[i] ELSE ms[i - n]
  BY <1>2, <1>3, ConcatProperties
<1> HIDE DEF n, k
<1>11. Distinct(r)
  <2>1. ASSUME NEW i \in 1..(n + k), NEW j \in 1..(n + k), r[i] = r[j] PROVE i = j
    <3> DEFINE x == i - n
               y == j - n
    <3>1. CASE i <= n /\ j <= n
      <4>1. i \in 1..n /\ j \in 1..n /\ old[i] = old[j]
        BY <1>2, <1>3, <1>10, <2>1, <3>1
      <4> QED BY <1>3, <4>1 DEF Distinct, n
    <3>2. CASE i <= n /\ ~(j <= n)
      <4>1. i \in 1..n /\ y \in 1..k /\ old[i] = ms[y]
        BY <1>2, <1>3, <1>10, <2>1, <3>2
      <4> HIDE DEF y
      <4> QED BY <1>4, <4>1
    <3>3. CASE ~(i <= n) /\ j <= n
      <4>1. j \in 1..n /\ x \in 1..k /\ old[j] = ms[x]
        BY <1>2, <1>3, <1>10, <2>1, <3>3
      <4> HIDE DEF x
      <4> QED BY <1>4, <4>1
    <3>4. CASE ~(i <= n) /\ ~(j <= n)
      <4>1. x \in 1..k /\ y \in 1..k /\ ms[x] = ms[y]
        BY <1>2, <1>3, <1>10, <2>1, <3>4
      <4>2. x = y
        <5> HIDE DEF x, y
        <5> QED BY <4>1 DEF News, Distinct, k
      <4> QED BY <1>3, <4>2
    <3> QED BY <3>1, <3>2, <3>3, <3>4
  <2> QED BY <1>10, <2>1 DEF Distinct
<1>12. \A i \in 1..Len(r) : r[i][1] = p
  <2>1. ASSUME NEW i \in 1..(n + k) PROVE r[i][1] = p
    <3> DEFINE x == i - n
    <3>1. CASE i <= n
      <4>1. i \in 1..n /\ r[i] = old[i]
        BY <1>2, <1>3, <1>10, <3>1
      <4> QED BY <1>3, <4>1
    <3>2. CASE ~(i <= n)
      <4>1. x \in 1..k /\ r[i] = ms[x]
        BY <1>2, <1>3, <1>10, <3>2
      <4> HIDE DEF x
      <4> QED BY <4>1 DEF News, k
    <3> QED BY <3>1, <3>2
  <2> QED BY <1>10, <2>1
<1> HIDE DEF r
<1>13. Loaded(d, p)
  <2>1. d.current \in 0..Len(d.rows)
    <3>1. cur \in 0..(n + k)
      BY <1>2, <1>3, <1>6
    <3> HIDE DEF cur
    <3> QED BY <1>9, <1>10, <3>1
  <2>2. d.total \in Nat
    BY <1>9, ChosenIsTold
  <2>3. \/ d.selType = "Send" /\ d.clicked \in Send!Messages /\ d.count > 0
        \/ ChosenRecv(d) \/ ChosenNone(d)
    <3>1. CASE ChosenSend(a)
      <4>1. a.clicked \in Send!Messages
        BY <3>1, ElementOfSeq DEF ChosenSend, Listed
      <4>2. a.count > 0
        BY <3>1, LenProperties DEF ChosenSend, Listed
      <4> QED BY <1>9, <3>1, <4>1, <4>2 DEF ChosenSend
    <3>2. CASE ChosenRecv(a) \/ ChosenNone(a)
      BY <1>9, <3>2 DEF ChosenRecv, ChosenNone
    <3> QED BY <3>1, <3>2 DEF Chosen
  <2> HIDE DEF cur
  <2> QED BY <1>7, <1>8, <1>9, <1>10, <1>11, <1>12, <2>1, <2>2, <2>3 DEF Loaded
<1>14. RelistedIs(e, d, p)
  BY <1>13, Relists
<1> HIDE DEF e
<1>15. a.selType # "Send" => e.clicked = a.clicked
  BY <1>9, <1>14 DEF RelistedIs
<1>16. ASSUME ~clear PROVE e.clicked = a.clicked
  <2>1. CASE a.selType # "Send"
    BY <1>15, <2>1
  <2>2. CASE a.selType = "Send"
    <3>1. ChosenSend(a)
      BY <2>2 DEF Chosen, ChosenRecv, ChosenNone
    <3> DEFINE i == a.current
    <3>2. i \in 1..n /\ old[i] = a.clicked
      BY <1>16, <3>1 DEF ChosenSend, old, n
    <3> HIDE DEF i
    <3>3. i \in 1..Len(r) /\ r[i] = a.clicked
      BY <1>2, <1>3, <1>10, <3>2
    <3>4. Listing(d.clicked, d.rows)
      BY <1>9, <3>3 DEF Listing
    <3> QED BY <1>9, <1>14, <3>4 DEF RelistedIs
  <2> QED BY <2>1, <2>2
<1>17. ASSUME clear PROVE e.rows = ms
  <2>1. old = <<>>
    BY <1>17 DEF old
  <2>2. r = ms
    BY <1>2, <2>1 DEF r
  <2> QED BY <1>9, <1>14, <2>2 DEF RelistedIs
<1>18. LoadedIs(e, a, p, clear)
  BY <1>14, <1>15, <1>16 DEF LoadedIs, RelistedIs
<1> QED BY <1>1, <1>17, <1>18

-----------------------------------------------------------------------------
(* The actions.                                                             *)
AreaRuns == Listed(area, protocol) /\ Chosen(area) /\ protocol \in {"p", "q"}

LEMMA FreshIsNew ==
  ASSUME Listed(area, protocol), NEW m \in Send!Fresh
  PROVE  m \in Send!Messages /\ m[1] = protocol /\ \A i \in 1..Len(area.rows) : area.rows[i] # m
<1>1. DOMAIN area.rows = 1..Len(area.rows)
  BY LenProperties DEF Listed
<1> QED BY <1>1 DEF Send!Fresh

LEMMA SelectedIsSend ==
  ASSUME Listed(area, protocol), Chosen(area), area.selIdx > 0
  PROVE  ChosenSend(area)
  BY DEF Chosen, ChosenRecv, ChosenNone

LEMMA AreaBecomes ==
  ASSUME NEW a, AreaRuns, Send!Becomes(a), Listed(a, protocol), Chosen(a)
  PROVE  AreaRuns'
  BY DEF Send!Becomes, AreaRuns

LEMMA NewDialogRuns ==
  ASSUME AreaRuns, Send!NewDialog
  PROVE  AreaRuns'
<1>1. PICK m \in Send!Fresh : Send!Becomes(Send!AddNew(area, m))
  BY DEF Send!NewDialog
<1>2. AddedIs(Send!AddNew(area, m), area, protocol, m)
  BY Adds, FreshIsNew DEF AreaRuns
<1> QED BY <1>1, <1>2, AreaBecomes DEF AddedIs

LEMMA RawDialogRuns ==
  ASSUME AreaRuns, Send!RawDialog
  PROVE  AreaRuns'
<1> DEFINE b(m) == Send!AddNew(area, m)
<1>1. PICK m \in Send!Fresh, n \in Send!Fresh : m # n /\ Send!Becomes(Send!AddNew(b(m), n))
  BY DEF Send!RawDialog
<1> DEFINE x == b(m)
<1>2. AddedIs(x, area, protocol, m)
  BY Adds, FreshIsNew DEF AreaRuns
<1>3. n \in Send!Messages /\ n[1] = protocol /\ \A i \in 1..Len(area.rows) : area.rows[i] # n
  BY FreshIsNew DEF AreaRuns
<1> HIDE DEF x
<1>4. Listed(x, protocol) /\ Chosen(x) /\ x.rows = Append(area.rows, m)
  BY <1>2 DEF AddedIs
<1>5. \A i \in 1..Len(x.rows) : x.rows[i] # n
  <2>1. m \in Send!Messages /\ area.rows \in Seq(Send!Messages) /\ Len(area.rows) \in Nat
    BY FreshIsNew, LenProperties DEF AreaRuns, Listed
  <2>2. /\ Len(x.rows) = Len(area.rows) + 1 /\ x.rows[Len(area.rows) + 1] = m
        /\ \A i \in 1..Len(area.rows) : x.rows[i] = area.rows[i]
    BY <1>4, <2>1, AppendProperties
  <2> QED BY <1>1, <1>3, <2>1, <2>2
<1>6. AddedIs(Send!AddNew(x, n), x, protocol, n)
  BY <1>3, <1>4, <1>5, Adds
<1>7. Send!Becomes(Send!AddNew(x, n))
  BY <1>1 DEF x
<1> QED BY <1>6, <1>7, AreaBecomes DEF AddedIs

LEMMA EditDialogRuns ==
  ASSUME AreaRuns, Send!EditDialog
  PROVE  AreaRuns'
<1>1. PICK m \in Send!Fresh : Send!Becomes(Send!Update(area, m))
  BY DEF Send!EditDialog
<1>2. ChosenSend(area)
  BY SelectedIsSend DEF AreaRuns, Send!EditDialog, Send!EditEnabled, Send!MsgSelected
<1>3. UpdatedIs(Send!Update(area, m), area, protocol)
  BY <1>2, FreshIsNew, Updates DEF AreaRuns
<1> QED BY <1>1, <1>3, AreaBecomes DEF UpdatedIs

LEMMA CommentDialogRuns ==
  ASSUME AreaRuns, Send!CommentDialog
  PROVE  AreaRuns'
<1> DEFINE c == /\ area.selType = "Send" /\ area.current > 0
                /\ area.rows[area.current] = area.clicked
<1>1. ChosenSend(area)
  BY SelectedIsSend DEF AreaRuns, Send!CommentDialog, Send!CommentEnabled, Send!MsgSelected
<1>2. c
  BY <1>1, LenProperties DEF ChosenSend, AreaRuns, Listed
<1>3. Send!Becomes(Send!Check(area, c))
  BY DEF Send!CommentDialog
<1> HIDE DEF c
<1>4. Listed(Send!Check(area, c), protocol) /\ Chosen(Send!Check(area, c))
  BY <1>2, CheckedStays DEF AreaRuns
<1> QED BY <1>3, <1>4, AreaBecomes

LEMMA FreshAreNews ==
  ASSUME Listed(area, protocol), NEW n \in 0..2, NEW ms \in [1..n -> Send!Fresh], Send!IsInjective(ms)
  PROVE  News(area, protocol, ms)
<1>1. \A i \in 1..n : ms[i] \in Send!Messages /\ ms[i][1] = protocol
                      /\ \A j \in 1..Len(area.rows) : area.rows[j] # ms[i]
  BY FreshIsNew
<1>2. ms \in [1..n -> Send!Messages]
  BY <1>1
<1>3. ms \in Seq(Send!Messages) /\ Len(ms) = n
  BY <1>2
<1>4. Distinct(ms)
  BY <1>3 DEF Distinct, Send!IsInjective
<1> QED BY <1>1, <1>3, <1>4 DEF News

LEMMA LoadDialogRuns ==
  ASSUME AreaRuns, Send!LoadDialog
  PROVE  AreaRuns' /\ (Send!IsPrefix(area.rows, area'.rows) => area'.clicked = area.clicked)
<1>1. PICK clear \in BOOLEAN, n \in 0..2 : \E ms \in [1..n -> Send!Fresh] :
        Send!IsInjective(ms) /\ (clear => area.count > 0) /\ Send!Becomes(Send!Load(area, clear, ms))
  BY DEF Send!LoadDialog
<1>2. PICK ms \in [1..n -> Send!Fresh] :
        Send!IsInjective(ms) /\ (clear => area.count > 0) /\ Send!Becomes(Send!Load(area, clear, ms))
  BY <1>1
<1>3. News(area, protocol, ms)
  BY <1>2, FreshAreNews DEF AreaRuns
<1> DEFINE e == Send!Load(area, clear, ms)
<1>4. LoadedIs(e, area, protocol, clear) /\ (clear => e.rows = ms)
  BY <1>3, Loads DEF AreaRuns
<1> HIDE DEF e
<1>5. Send!Becomes(e)
  BY <1>2 DEF e
<1>6. AreaRuns'
  BY <1>4, <1>5, AreaBecomes DEF LoadedIs
<1>7. ASSUME Send!IsPrefix(area.rows, area'.rows) PROVE area'.clicked = area.clicked
  <2>1. area' = e
    BY <1>5 DEF Send!Becomes
  <2>2. CASE ~clear
    BY <1>4, <2>1, <2>2 DEF LoadedIs
  <2>3. CASE clear
    <3> DEFINE s == area.rows
               one == 1
    <3>1. /\ s \in Seq(Send!Messages) /\ Len(s) \in Nat /\ Len(s) > 0 /\ area'.rows = ms
          /\ ms \in Seq(Send!Messages) /\ Len(ms) \in Nat
      BY <1>2, <1>3, <1>4, <2>1, <2>3, LenProperties DEF AreaRuns, Listed, News
    <3>2. Len(s) <= Len(ms) /\ SubSeq(s, one, Len(s)) = SubSeq(ms, one, Len(s))
      BY <1>7, <3>1 DEF Send!IsPrefix
    <3>3. SubSeq(s, one, Len(s))[1] = s[1] /\ SubSeq(ms, one, Len(s))[1] = ms[1]
      <4> HIDE DEF s
      <4> DEFINE k == Len(s)
      <4>1. k \in Int /\ one \in Int /\ one <= k /\ 1 \in 1..(k - one + 1)
        BY <3>1
      <4>2. \A i \in one..k : s[i] \in Send!Messages /\ ms[i] \in Send!Messages
        BY <3>1, <3>2, ElementOfSeq
      <4> HIDE DEF k, one
      <4>3. \A i \in 1..(k - one + 1) : SubSeq(s, one, k)[i] = s[one + i - 1] /\ SubSeq(ms, one, k)[i] = ms[one + i - 1]
        BY <4>1, <4>2, SubSeqProperties
      <4> QED BY <4>1, <4>3 DEF k, one
    <3>4. s[1] # ms[1]
      BY <1>3, <3>1, <3>2 DEF News
    <3> QED BY <3>2, <3>3, <3>4
  <2> QED BY <2>2, <2>3
<1> QED BY <1>6, <1>7

LEMMA DupClickedRuns ==
  ASSUME AreaRuns, Send!DupClicked
  PROVE  AreaRuns'
<1> DEFINE c == area.selType = "Send" /\ area.clicked # <<>>
           x == Send!Check(area, c)
<1>1. PICK m \in Send!Fresh : Send!Becomes(Send!AddNew(x, m))
  BY DEF Send!DupClicked, Send!NoMsg
<1>2. ChosenSend(area)
  BY SelectedIsSend DEF AreaRuns, Send!DupClicked, Send!DupEnabled, Send!MsgSelected
<1>3. c
  BY <1>2, ElementOfSeq, MessagesDiffer DEF ChosenSend, AreaRuns, Listed
<1> HIDE DEF c
<1>4. Listed(x, protocol) /\ Chosen(x) /\ AreaLike(x, area, {"ok"})
  BY <1>3, CheckedStays DEF AreaRuns
<1> HIDE DEF x
<1>5. x.rows = area.rows
  BY <1>4 DEF AreaLike, AreaFields
<1>6. AddedIs(Send!AddNew(x, m), x, protocol, m)
  BY <1>4, <1>5, FreshIsNew, Adds DEF AreaRuns
<1> QED BY <1>1, <1>6, AreaBecomes DEF AddedIs

LEMMA DeleteClickedRuns ==
  ASSUME AreaRuns, Send!DeleteClicked
  PROVE  AreaRuns'
<1>1. ChosenSend(area)
  BY SelectedIsSend DEF AreaRuns, Send!DeleteClicked, Send!DeleteEnabled, Send!MsgSelected
<1>2. Listed(Send!Delete(area), protocol) /\ Chosen(Send!Delete(area))
  BY <1>1, Deletes DEF AreaRuns
<1> QED BY <1>2, AreaBecomes DEF Send!DeleteClicked

LEMMA ClearClickedRuns ==
  ASSUME AreaRuns, Send!ClearClicked
  PROVE  AreaRuns'
<1>1. area.count > 0
  <2>1. area.total # 0 /\ area.count = area.total /\ area.total \in Nat
    BY LenProperties DEF AreaRuns, Listed, Send!ClearClicked, Send!ClearEnabled, Send!ListEmpty
  <2> QED BY <2>1
<1>2. ClearedIs(Send!Clear(area))
  BY <1>1, Clears DEF AreaRuns
<1> QED BY <1>2, AreaBecomes DEF Send!ClearClicked, ClearedIs, AreaRuns

Moves == Send!TopClicked \/ Send!UpClicked \/ Send!DownClicked \/ Send!BottomClicked

LEMMA MovesRun ==
  ASSUME AreaRuns, Moves
  PROVE  AreaRuns' /\ area'.clicked = area.clicked
<1> DEFINE n == Len(area.rows)
           k == area.current
           up == k - 1
           down == k + 1
           top == 1
<1>1. /\ n \in Nat /\ area.total = n /\ area.selIdx > 0
      /\ Send!TopClicked \/ Send!UpClicked => area.selIdx > 1
      /\ Send!DownClicked \/ Send!BottomClicked => area.selIdx < area.total
  <2>1. n \in Nat /\ area.total = n /\ area.selIdx \in Nat
    BY ChosenIsTold DEF AreaRuns, Listed
  <2>2. Send!TopClicked \/ Send!UpClicked => area.selIdx > 1
    BY DEF Send!TopClicked, Send!UpClicked, Send!UpEnabled
  <2>3. Send!DownClicked \/ Send!BottomClicked => area.selIdx > 0 /\ area.selIdx < area.total
    BY DEF Send!DownClicked, Send!BottomClicked, Send!DownEnabled, Send!MsgSelected
  <2> QED BY <2>1, <2>2, <2>3 DEF Moves
<1>2. ChosenSend(area)
  BY <1>1, SelectedIsSend DEF AreaRuns
<1>3. /\ k \in 1..n
      /\ Send!TopClicked \/ Send!UpClicked => k > 1
      /\ Send!DownClicked \/ Send!BottomClicked => k < n
  BY <1>1, <1>2 DEF ChosenSend
<1>4. ASSUME NEW to \in 1..n, to # k, Send!Becomes(Send!MoveItem(area, to))
      PROVE  AreaRuns' /\ area'.clicked = area.clicked
  <2>1. MovedIs(Send!MoveItem(area, to), area, protocol)
    BY <1>2, <1>4, ItemMoves DEF AreaRuns
  <2>2. AreaRuns'
    BY <1>4, <2>1, AreaBecomes DEF MovedIs
  <2>3. area' = Send!MoveItem(area, to)
    BY <1>4 DEF Send!Becomes
  <2> QED BY <2>1, <2>2, <2>3 DEF MovedIs
<1>5. CASE Send!TopClicked
  <2>1. ~(k <= 1)
    BY <1>3, <1>5
  <2>2. Send!Becomes(Send!MoveItem(area, top))
    BY <1>5, <2>1 DEF Send!TopClicked, Send!MoveUp
  <2>3. top \in 1..n /\ top # k
    BY <1>3, <2>1
  <2> HIDE DEF top
  <2> QED BY <1>4, <2>2, <2>3
<1>6. CASE Send!UpClicked
  <2>1. ~(k <= 1)
    BY <1>3, <1>6
  <2>2. Send!Becomes(Send!MoveItem(area, up))
    BY <1>6, <2>1 DEF Send!UpClicked, Send!MoveUp
  <2>3. up \in 1..n /\ up # k
    BY <1>3, <2>1
  <2> HIDE DEF up
  <2> QED BY <1>4, <2>2, <2>3
<1>7. CASE Send!DownClicked
  <2>1. ~(k >= n)
    BY <1>1, <1>3, <1>7
  <2>2. Send!Becomes(Send!MoveItem(area, down))
    BY <1>7, <2>1 DEF Send!DownClicked, Send!MoveDown
  <2>3. down \in 1..n /\ down # k
    BY <1>1, <1>3, <2>1
  <2> HIDE DEF down
  <2> QED BY <1>4, <2>2, <2>3
<1>8. CASE Send!BottomClicked
  <2>1. ~(k >= n)
    BY <1>1, <1>3, <1>8
  <2>2. Send!Becomes(Send!MoveItem(area, n))
    BY <1>8, <2>1 DEF Send!BottomClicked, Send!MoveDown
  <2>3. n \in 1..n /\ n # k
    BY <1>1, <1>3, <2>1
  <2> HIDE DEF n
  <2> QED BY <1>4, <2>2, <2>3
<1> QED BY <1>5, <1>6, <1>7, <1>8 DEF Moves

(* A new sending state, and the tool bar refreshed.                          *)
LEMMA StateChanges ==
  ASSUME NEW a, NEW p, Listed(a, p), Chosen(a), NEW s, NEW c, c
  PROVE  LET e == Send!RefreshBar([a EXCEPT !.state = s])
         IN  /\ Listed(e, p) /\ Chosen(e) /\ Listed(Send!Check(e, c), p) /\ Chosen(Send!Check(e, c))
<1> DEFINE b == [a EXCEPT !.state = s]
           e == Send!RefreshBar(b)
<1>1. DOMAIN b = AreaFields /\ \A f \in AreaFields \ {"state"} : b[f] = a[f]
  BY DEF Listed, AreaFields
<1> HIDE DEF b
<1>2. b.ok /\ AreaLike(b, a, Aside)
  BY <1>1 DEF Listed, AreaLike, AreaFields, Aside
<1>3. Listed(b, p) /\ Chosen(b)
  BY <1>2, StaysChosen
<1>4. Listed(e, p) /\ Chosen(e)
  BY <1>3, RefreshedStays
<1> HIDE DEF e
<1>5. Listed(Send!Check(e, c), p) /\ Chosen(Send!Check(e, c))
  BY <1>4, CheckedStays
<1> QED BY <1>4, <1>5 DEF e, b

LEMMA StartRuns ==
  ASSUME AreaRuns, NEW state, NEW ms, NEW c, c, Send!Start(state, ms, c)
  PROVE  AreaRuns'
<1>1. CASE area' = Send!Check(Send!RefreshBar([area EXCEPT !.state = state]), c) /\ UNCHANGED protocol
  BY <1>1, StateChanges DEF AreaRuns
<1>2. CASE Send!Becomes(Send!Check(Send!RefreshBar(area), c))
  <2> DEFINE e == Send!RefreshBar(area)
  <2>1. Listed(e, protocol) /\ Chosen(e)
    BY RefreshedStays DEF AreaRuns
  <2> HIDE DEF e
  <2>2. Listed(Send!Check(e, c), protocol) /\ Chosen(Send!Check(e, c))
    BY <2>1, CheckedStays
  <2>3. Send!Becomes(Send!Check(e, c))
    BY <1>2 DEF e
  <2> QED BY <2>2, <2>3, AreaBecomes
<1> QED BY <1>1, <1>2 DEF Send!Start

LEMMA StartStopRun ==
  ASSUME AreaRuns, Send!StartClicked \/ Send!StartAllClicked \/ Send!StopClicked
  PROVE  AreaRuns'
<1>1. CASE Send!StartClicked
  <2> DEFINE c == area.current > 0
             ms == IF area.current > 0 THEN <<area.rows[area.current]>> ELSE <<>>
  <2>1. area.selIdx > 0
    BY <1>1 DEF Send!StartClicked, Send!StartEnabled, Send!MsgSelected
  <2>2. ChosenSend(area)
    BY <2>1, SelectedIsSend DEF AreaRuns
  <2>3. c
    BY <2>1, <2>2 DEF ChosenSend
  <2>4. Send!Start("SendingSingle", ms, c)
    BY <1>1 DEF Send!StartClicked
  <2> HIDE DEF c, ms
  <2> QED BY <2>3, <2>4, StartRuns
<1>2. CASE Send!StartAllClicked
  <2> DEFINE c == area.rows # <<>>
  <2>1. area.total # 0 /\ area.total = Len(area.rows)
    BY <1>2 DEF Send!StartAllClicked, Send!StartAllEnabled, Send!ListEmpty, AreaRuns, Listed
  <2>2. c
    BY <2>1
  <2>3. Send!Start("SendingAll", area.rows, c)
    BY <1>2 DEF Send!StartAllClicked
  <2> HIDE DEF c
  <2> QED BY <2>2, <2>3, StartRuns
<1>3. CASE Send!StopClicked
  <2> DEFINE e == Send!RefreshBar([area EXCEPT !.state = "Idle"])
  <2>1. Listed(e, protocol) /\ Chosen(e)
    BY StateChanges DEF AreaRuns
  <2> QED BY <1>3, <2>1 DEF Send!StopClicked, AreaRuns
<1> QED BY <1>1, <1>2, <1>3

(* A click makes its row the current one before it is handled.               *)
LEMMA RowIsCurrent ==
  ASSUME NEW a, NEW p, Listed(a, p), Told(a), NEW i \in 1..Len(a.rows)
  PROVE  LET e == [a EXCEPT !.current = i]
         IN  Listed(e, p) /\ Told(e) /\ e.rows = a.rows /\ e.clicked = a.clicked
<1> DEFINE e == [a EXCEPT !.current = i]
<1>1. DOMAIN e = AreaFields /\ \A f \in AreaFields \ {"current"} : e[f] = a[f]
  BY DEF Listed, AreaFields
<1> HIDE DEF e
<1>2. e.ok /\ e.rows = a.rows /\ e.clicked = a.clicked /\ e.selType = a.selType
      /\ e.count = a.count /\ e.total = a.total
  BY <1>1 DEF Listed, AreaFields
<1>3. Listed(e, p)
  BY <1>1, <1>2 DEF Listed
<1>4. Told(e)
  BY <1>2 DEF Told
<1> QED BY <1>2, <1>3, <1>4 DEF e

LEMMA OtherRowClicked ==
  ASSUME NEW a, NEW p, Listed(a, p), Told(a), NEW i \in 1..Len(a.rows)
  PROVE  LET e == Send!SendMsgClicked([a EXCEPT !.current = i], a.rows[i], i)
         IN  /\ Listed(e, p) /\ Chosen(e) /\ e.rows = a.rows
             /\ a.rows[i] # a.clicked => e.clicked = a.rows[i] /\ ChosenSend(e) /\ e.current = i
<1> DEFINE b == [a EXCEPT !.current = i]
           m == a.rows[i]
           e == Send!SendMsgClicked(b, m, i)
<1>1. Listed(b, p) /\ Told(b) /\ b.rows = a.rows /\ b.clicked = a.clicked
  BY RowIsCurrent
<1> HIDE DEF b
<1>2. i \in 1..Len(b.rows) /\ b.rows[i] = m
  BY <1>1
<1>3. ClickedIs(Send!SendMsgClicked(b, b.rows[i], i), b, b.rows[i], i)
      /\ Listed(Send!SendMsgClicked(b, b.rows[i], i), p) /\ Chosen(Send!SendMsgClicked(b, b.rows[i], i))
  BY <1>1, <1>2, RowClicked
<1>4. ClickedIs(e, b, m, i) /\ Listed(e, p) /\ Chosen(e)
  BY <1>2, <1>3
<1> HIDE DEF e
<1>5. e.rows = a.rows
  BY <1>1, <1>4 DEF ClickedIs, AreaLike, AreaFields
<1>6. ASSUME m # a.clicked PROVE e.clicked = m /\ ChosenSend(e) /\ e.current = i
  <2>1. e.clicked = m /\ e.selType = "Send" /\ e.selIdx = i /\ e.current = i /\ e.recvSel = <<>>
    BY <1>1, <1>4, <1>6 DEF ClickedIs
  <2> QED BY <1>5, <2>1 DEF ChosenSend
<1> QED BY <1>4, <1>5, <1>6 DEF e, b

LEMMA ClickRowRuns ==
  ASSUME AreaRuns, NEW i \in DOMAIN area.rows, Send!ClickRow(i)
  PROVE  AreaRuns'
<1> DEFINE x == Send!SendMsgClicked([area EXCEPT !.current = i], area.rows[i], i)
           y == Send!SendMsgClicked(x, area.rows[i], i)
<1>1. i \in 1..Len(area.rows)
  BY LenProperties DEF AreaRuns, Listed
<1>2. Listed(x, protocol) /\ Chosen(x) /\ x.rows = area.rows
  BY <1>1, OtherRowClicked, ChosenIsTold DEF AreaRuns
<1>3. Send!Becomes(x) \/ Send!Becomes(y)
  BY DEF Send!ClickRow
<1> HIDE DEF x
<1>4. Told(x) /\ i \in 1..Len(x.rows)
  BY <1>1, <1>2, ChosenIsTold
<1>5. /\ ClickedIs(Send!SendMsgClicked(x, x.rows[i], i), x, x.rows[i], i)
      /\ Listed(Send!SendMsgClicked(x, x.rows[i], i), protocol) /\ Chosen(Send!SendMsgClicked(x, x.rows[i], i))
  BY <1>2, <1>4, RowClicked
<1>6. Listed(y, protocol) /\ Chosen(y)
  BY <1>2, <1>5
<1> HIDE DEF y
<1> QED BY <1>2, <1>3, <1>6, AreaBecomes

LEMMA DoubleClickRowRuns ==
  ASSUME AreaRuns, NEW i \in DOMAIN area.rows, Send!DoubleClickRow(i)
  PROVE  AreaRuns'
<1> DEFINE m == area.rows[i]
           b == IF m = area.clicked THEN area
                ELSE Send!SendMsgClicked([area EXCEPT !.current = i], m, i)
           c == Send!Check(b, b.clicked = m)
<1>1. i \in 1..Len(area.rows)
  BY LenProperties DEF AreaRuns, Listed
<1>2. Send!Becomes(c) \/ \E n \in Send!Fresh : Send!Becomes(Send!Update(c, n))
  BY DEF Send!DoubleClickRow
<1>3. m \in Send!Messages
  BY <1>1, ElementOfSeq DEF AreaRuns, Listed
<1>4. Listed(b, protocol) /\ Chosen(b) /\ ChosenSend(b) /\ b.clicked = m /\ b.rows = area.rows
  <2>1. CASE m = area.clicked
    <3>1. b = area
      BY <2>1
    <3> HIDE DEF b
    <3>2. ChosenSend(area)
      BY <1>3, <2>1, MessagesDiffer DEF AreaRuns, Chosen, ChosenRecv, ChosenNone
    <3> QED BY <2>1, <3>1, <3>2 DEF AreaRuns
  <2>2. CASE m # area.clicked
    <3> DEFINE x == Send!SendMsgClicked([area EXCEPT !.current = i], m, i)
    <3>1. Listed(x, protocol) /\ Chosen(x) /\ x.rows = area.rows /\ x.clicked = m /\ ChosenSend(x)
      BY <1>1, <2>2, OtherRowClicked, ChosenIsTold DEF AreaRuns
    <3>2. b = x
      BY <2>2
    <3> HIDE DEF b, x, m
    <3> QED BY <3>1, <3>2
  <2> QED BY <2>1, <2>2
<1> HIDE DEF b, m
<1> DEFINE g == b.clicked = m
<1>5. g
  BY <1>4
<1> HIDE DEF g
<1>6. Listed(Send!Check(b, g), protocol) /\ Chosen(Send!Check(b, g)) /\ AreaLike(Send!Check(b, g), b, {"ok"})
  BY <1>4, <1>5, CheckedStays
<1>7. c = Send!Check(b, g)
  BY DEF g
<1> HIDE DEF c
<1>8. Listed(c, protocol) /\ Chosen(c) /\ ChosenSend(c) /\ c.rows = area.rows
  <2>1. /\ c.rows = b.rows /\ c.selType = b.selType /\ c.current = b.current /\ c.selIdx = b.selIdx
        /\ c.clicked = b.clicked /\ c.recvSel = b.recvSel
    BY <1>6, <1>7 DEF AreaLike, AreaFields
  <2> QED BY <1>4, <1>6, <1>7, <2>1 DEF ChosenSend
<1>9. ASSUME NEW n \in Send!Fresh, Send!Becomes(Send!Update(c, n)) PROVE AreaRuns'
  <2>1. UpdatedIs(Send!Update(c, n), c, protocol)
    BY <1>8, FreshIsNew, Updates DEF AreaRuns
  <2> QED BY <1>9, <2>1, AreaBecomes DEF UpdatedIs
<1> QED BY <1>2, <1>8, <1>9, AreaBecomes

LEMMA DupReceivedRuns ==
  ASSUME AreaRuns, Send!DupReceived
  PROVE  AreaRuns'
<1> DEFINE c == area.selType = "Recv"
           x == Send!Check(area, c)
<1>1. PICK m \in Send!Fresh : Send!Becomes(Send!AddNew(x, m))
  BY DEF Send!DupReceived
<1>2. c
  BY DEF Send!DupReceived, Send!NoMsg, AreaRuns, Chosen, ChosenSend, ChosenRecv, ChosenNone
<1> HIDE DEF c
<1>3. Listed(x, protocol) /\ Chosen(x) /\ AreaLike(x, area, {"ok"})
  BY <1>2, CheckedStays DEF AreaRuns
<1> HIDE DEF x
<1>4. x.rows = area.rows
  BY <1>3 DEF AreaLike, AreaFields
<1>5. AddedIs(Send!AddNew(x, m), x, protocol, m)
  BY <1>3, <1>4, FreshIsNew, Adds DEF AreaRuns
<1> QED BY <1>1, <1>5, AreaBecomes DEF AddedIs

LEMMA ReceivedCleared ==
  ASSUME NEW a, NEW p, Listed(a, p), Chosen(a)
  PROVE  Listed(Send!ClearReceived(a), p) /\ Chosen(Send!ClearReceived(a))
<1> DEFINE x == IF a.selType # "Send" THEN Send!ClearDisplayed(a) ELSE a
           e == Send!ClearReceived(a)
<1>1. e = [x EXCEPT !.recvSel = <<>>]
  BY DEF Send!ClearReceived, Send!NoMsg
<1>2. /\ DOMAIN x = AreaFields /\ x.ok
      /\ x.rows = a.rows /\ x.count = a.count /\ x.total = a.total /\ x.current = a.current
      /\ x.selIdx = a.selIdx
      /\ IF a.selType = "Send" THEN x.selType = "Send" /\ x.clicked = a.clicked
         ELSE x.selType = "none" /\ x.clicked = <<>>
  <2>1. CASE a.selType = "Send"
    <3>1. x = a
      BY <2>1
    <3> HIDE DEF x
    <3> QED BY <2>1, <3>1 DEF Listed
  <2>2. CASE a.selType # "Send"
    <3>1. x = [a EXCEPT !.selType = "none", !.clicked = <<>>]
      BY <2>2 DEF Send!ClearDisplayed, Send!None, Send!NoMsg
    <3> HIDE DEF x
    <3>2. /\ DOMAIN x = AreaFields /\ x["selType"] = "none" /\ x["clicked"] = <<>>
          /\ \A f \in AreaFields \ {"selType", "clicked"} : x[f] = a[f]
      BY <3>1 DEF Listed, AreaFields
    <3>3. x.ok
      BY <3>2 DEF Listed, AreaFields
    <3> QED BY <2>2, <3>2, <3>3 DEF AreaFields
  <2> QED BY <2>1, <2>2
<1> HIDE DEF x, e
<1>3. /\ DOMAIN e = AreaFields /\ e["recvSel"] = <<>> /\ \A f \in AreaFields \ {"recvSel"} : e[f] = x[f]
  BY <1>1, <1>2 DEF AreaFields
<1>4. e.ok
  BY <1>2, <1>3 DEF AreaFields
<1>5. /\ e.rows = x.rows /\ e.count = x.count /\ e.total = x.total /\ e.current = x.current /\ e.selIdx = x.selIdx
      /\ e.selType = x.selType /\ e.clicked = x.clicked /\ e.recvSel = <<>>
  BY <1>3 DEF AreaFields
<1>6. Listed(e, p)
  BY <1>2, <1>3, <1>4, <1>5 DEF Listed
<1>7. Chosen(e)
  <2>1. CASE ChosenSend(a)
    BY <1>2, <1>5, <2>1 DEF Chosen, ChosenSend
  <2>2. CASE ChosenRecv(a) \/ ChosenNone(a)
    BY <1>2, <1>5, <2>2 DEF Chosen, ChosenRecv, ChosenNone
  <2> QED BY <2>1, <2>2 DEF Chosen
<1> QED BY <1>6, <1>7 DEF e

LEMMA Activates ==
  ASSUME NEW a, NEW p, Listed(a, p), Chosen(a), NEW on
  PROVE  LET e == Send!RefreshBar([a EXCEPT !.active = on]) IN Listed(e, p) /\ Chosen(e)
<1> DEFINE b == [a EXCEPT !.active = on]
<1>1. DOMAIN b = AreaFields /\ \A f \in AreaFields \ {"active"} : b[f] = a[f]
  BY DEF Listed, AreaFields
<1> HIDE DEF b
<1>2. b.ok /\ AreaLike(b, a, Aside)
  BY <1>1 DEF Listed, AreaLike, AreaFields, Aside
<1>3. Listed(b, p) /\ Chosen(b)
  BY <1>2, StaysChosen
<1>4. Listed(Send!RefreshBar(b), p) /\ Chosen(Send!RefreshBar(b))
  BY <1>3, RefreshedStays
<1> QED BY <1>4 DEF b

LEMMA ApplyNewPluginsRuns ==
  ASSUME AreaRuns, NEW p \in {"p", "q"}, Send!ApplyNewPlugins(p)
  PROVE  AreaRuns'
<1> DEFINE a == IF area.count > 0 /\ p # protocol THEN Send!Clear(area) ELSE area
           b == IF area.active THEN Send!ClearReceived(a) ELSE a
           x == [b EXCEPT !.active = FALSE]
           c == Send!RefreshBar(x)
           d == [c EXCEPT !.active = TRUE]
           e == Send!RefreshBar(d)
<1>1. area' = e /\ protocol' = p
  BY DEF Send!ApplyNewPlugins
<1>2. Listed(a, p) /\ Chosen(a)
  <2>1. CASE area.count > 0 /\ p # protocol
    <3>1. ClearedIs(Send!Clear(area))
      BY <2>1, Clears DEF AreaRuns
    <3>2. a = Send!Clear(area)
      BY <2>1
    <3> HIDE DEF a
    <3> QED BY <3>1, <3>2 DEF ClearedIs
  <2>2. CASE p = protocol
    <3>1. a = area
      BY <2>2
    <3> HIDE DEF a
    <3> QED BY <2>2, <3>1 DEF AreaRuns
  <2>3. CASE ~(area.count > 0)
    <3>1. a = area
      BY <2>3
    <3>2. Len(area.rows) = 0
      BY <2>3, LenProperties DEF AreaRuns, Listed
    <3> HIDE DEF a
    <3>3. Listed(area, p)
      BY <3>2 DEF AreaRuns, Listed
    <3> QED BY <3>1, <3>3 DEF AreaRuns
  <2> QED BY <2>1, <2>2, <2>3
<1> HIDE DEF a
<1>3. Listed(b, p) /\ Chosen(b)
  <2>1. CASE area.active
    <3>1. Listed(Send!ClearReceived(a), p) /\ Chosen(Send!ClearReceived(a))
      BY <1>2, ReceivedCleared
    <3>2. b = Send!ClearReceived(a)
      BY <2>1
    <3> HIDE DEF b
    <3> QED BY <3>1, <3>2
  <2>2. CASE ~area.active
    <3>1. b = a
      BY <2>2
    <3> HIDE DEF b
    <3> QED BY <1>2, <3>1
  <2> QED BY <2>1, <2>2
<1> HIDE DEF b
<1>4. Listed(c, p) /\ Chosen(c)
  BY <1>3, Activates
<1> HIDE DEF c
<1>5. Listed(e, p) /\ Chosen(e)
  BY <1>4, Activates
<1> HIDE DEF e
<1> QED BY <1>1, <1>5 DEF AreaRuns

(* Each step of the send area keeps what the selection and the counts are.    *)
LEMMA AreaNext ==
  ASSUME AreaRuns, Send!Next
  PROVE  AreaRuns' /\ Send!KeepsSelectionStep
<1>1. CASE Send!LoadDialog
  <2>1. AreaRuns' /\ (Send!IsPrefix(area.rows, area'.rows) => area'.clicked = area.clicked)
    BY <1>1, LoadDialogRuns
  <2>2. Moves => area'.clicked = area.clicked
    BY MovesRun
  <2> QED BY <2>1, <2>2 DEF Send!KeepsSelectionStep, Moves
<1>2. CASE Moves
  <2>1. AreaRuns' /\ area'.clicked = area.clicked
    BY <1>2, MovesRun
  <2> QED BY <2>1 DEF Send!KeepsSelectionStep
<1>3. CASE ~Send!LoadDialog /\ ~Moves
  <2>1. Send!KeepsSelectionStep
    BY <1>3 DEF Send!KeepsSelectionStep, Moves
  <2>2. CASE Send!ToolBarClicked
    <3>1. \/ Send!StartClicked \/ Send!StartAllClicked \/ Send!NewDialog \/ Send!RawDialog \/ Send!EditDialog
          \/ Send!CommentDialog \/ Send!DupClicked \/ Send!DeleteClicked \/ Send!ClearClicked
      BY <1>3, <2>2 DEF Send!ToolBarClicked, Moves
    <3>2. AreaRuns'
      BY <3>1, StartStopRun, NewDialogRuns, RawDialogRuns, EditDialogRuns, CommentDialogRuns, DupClickedRuns,
         DeleteClickedRuns, ClearClickedRuns
    <3> QED BY <2>1, <3>2
  <2>3. CASE Send!StopClicked \/ Send!DupReceived
    BY <2>1, <2>3, StartStopRun, DupReceivedRuns
  <2>4. CASE \E i \in DOMAIN area.rows : Send!ClickRow(i) \/ Send!DoubleClickRow(i)
    BY <2>1, <2>4, ClickRowRuns, DoubleClickRowRuns
  <2>5. CASE \E m \in Send!Received : Send!ClickReceived(m)
    <3>1. PICK m \in Send!Received : Send!Becomes(Send!RecvMsgClicked(area, m))
      BY <2>5 DEF Send!ClickReceived
    <3>2. Listed(Send!RecvMsgClicked(area, m), protocol) /\ Chosen(Send!RecvMsgClicked(area, m))
      BY RecvClicked DEF AreaRuns
    <3> QED BY <2>1, <3>1, <3>2, AreaBecomes
  <2>6. CASE area.active /\ Send!Becomes(Send!ClearReceived(area))
    <3>1. Listed(Send!ClearReceived(area), protocol) /\ Chosen(Send!ClearReceived(area))
      BY ReceivedCleared DEF AreaRuns
    <3> QED BY <2>1, <2>6, <3>1, AreaBecomes
  <2>7. CASE \E p \in {"p", "q"} : Send!ApplyNewPlugins(p)
    BY <2>1, <2>7, ApplyNewPluginsRuns
  <2> QED BY <2>2, <2>3, <2>4, <2>5, <2>6, <2>7 DEF Send!Next
<1> QED BY <1>1, <1>2, <1>3

LEMMA AreaInitRuns ==
  ASSUME Send!Init
  PROVE  AreaRuns
<1>1. area = Send!AreaInit /\ protocol \in {"p", "q"}
  BY DEF Send!Init
<1>2. <<>> \in Seq(Send!Messages) /\ Len(<<>>) = 0
  OBVIOUS
<1>3. DOMAIN area = AreaFields
  BY <1>1 DEF Send!AreaInit, AreaFields
<1>4. /\ area.ok /\ area.rows = <<>> /\ area.current = 0 /\ area.count = 0 /\ area.total = 0
      /\ area.selType = "none" /\ area.clicked = <<>> /\ area.recvSel = <<>> /\ area.selIdx = 0
  BY <1>1 DEF Send!AreaInit, Send!None, Send!NoMsg
<1>5. Listed(area, protocol)
  BY <1>2, <1>3, <1>4 DEF Listed, Distinct
<1>6. Chosen(area)
  BY <1>2, <1>4 DEF Chosen, ChosenNone
<1> QED BY <1>1, <1>5, <1>6 DEF AreaRuns

SendRuns == subject = "send_area" => AreaRuns

LEMMA SendNext ==
  ASSUME SendRuns, [Next]_vars
  PROVE  SendRuns'
<1>1. CASE SendStep /\ UNCHANGED subject
  BY <1>1, AreaNext DEF SendStep, SendRuns
<1>2. CASE UNCHANGED vars
  BY <1>2 DEF vars, sendVars, SendRuns, AreaRuns
<1>3. CASE UNCHANGED subject /\ (PluginsStep \/ EditorStep \/ FilterStep \/ DisplayStep)
  BY <1>3 DEF PluginsStep, EditorStep, FilterStep, DisplayStep, sendVars, SendRuns, AreaRuns
<1> QED BY <1>1, <1>2, <1>3 DEF Next

LEMMA SendIsRight ==
  ASSUME AreaRuns
  PROVE  Send!SelectedIsCurrent /\ Send!ListsAgree /\ Send!NoAssertionFails
<1>1. DOMAIN area.rows = 1..Len(area.rows)
  BY LenProperties DEF AreaRuns, Listed
<1>2. Send!ListsAgree /\ Send!NoAssertionFails
  BY <1>1 DEF Send!ListsAgree, Send!NoAssertionFails, AreaRuns, Listed
<1>3. Send!SelectedIsCurrent
  <2>1. CASE ChosenSend(area)
    BY <2>1 DEF Send!SelectedIsCurrent, Send!NoMsg, ChosenSend
  <2>2. CASE ChosenRecv(area) \/ ChosenNone(area)
    BY <2>2 DEF Send!SelectedIsCurrent, ChosenRecv, ChosenNone
  <2> QED BY <2>1, <2>2 DEF AreaRuns, Chosen
<1> QED BY <1>2, <1>3

(* The row of the send list, the row the tool bar acts on and the message on   *)
(* display are the same, and manager, tool bar and list count the same          *)
(* messages, after every click, dialog, move, load and new protocol, however   *)
(* many rows the list has (GuiAppMgr.cpp, MsgListWidget.cpp,                    *)
(* SendAreaToolBar.cpp).                                                       *)
THEOREM SendListAgrees == Spec => []SendAreaAgrees
<1>1. Init => SendRuns
  BY AreaInitRuns DEF Init, SendRuns
<1>2. SendRuns /\ [Next]_vars => SendRuns'
  BY SendNext
<1>3. SendRuns => SendAreaAgrees
  BY SendIsRight DEF SendRuns, SendAreaAgrees
<1> QED BY <1>1, <1>2, <1>3, PTL DEF Spec

-----------------------------------------------------------------------------
(* Lists in order.                                                           *)
LEMMA OrderedRises ==
  ASSUME NEW s \in Seq(Nat), Distinct(s), Filter!Ordered(s)
  PROVE  Rising(s)
<1> DEFINE T == {d \in Nat : \A i, j \in 1 .. Len(s) : j = i + d => s[i] <= s[j]}
<1>1. Len(s) \in Nat /\ \A i \in 1 .. Len(s) : s[i] \in Nat
  BY LenProperties, ElementOfSeq
<1>2. 0 \in T
  <2> SUFFICES ASSUME NEW i \in 1 .. Len(s), NEW j \in 1 .. Len(s), j = i + 0 PROVE s[i] <= s[j]
    OBVIOUS
  <2>1. i = j /\ s[i] \in Nat
    BY <1>1
  <2> QED BY <2>1
<1>3. ASSUME NEW d \in Nat, d \in T PROVE d + 1 \in T
  <2> SUFFICES ASSUME NEW i \in 1 .. Len(s), NEW j \in 1 .. Len(s), j = i + (d + 1) PROVE s[i] <= s[j]
    OBVIOUS
  <2> DEFINE k == j - 1
  <2>1. k \in 1 .. Len(s) - 1 /\ k = i + d /\ j = k + 1 /\ k \in 1 .. Len(s)
    BY <1>1
  <2> HIDE DEF k
  <2>2. s[i] <= s[k]
    BY <1>3, <2>1
  <2>3. s[k] <= s[j]
    BY <2>1 DEF Filter!Ordered
  <2>4. s[i] \in Nat /\ s[k] \in Nat /\ s[j] \in Nat
    BY <1>1, <2>1
  <2> QED BY <2>2, <2>3, <2>4
<1> HIDE DEF T
<1>4. \A d \in Nat : d \in T
  BY <1>2, <1>3, Upwards
<1>5. ASSUME NEW i \in 1 .. Len(s), NEW j \in 1 .. Len(s), i < j PROVE s[i] < s[j]
  <2> DEFINE d == j - i
  <2>1. d \in Nat /\ j = i + d /\ i # j
    BY <1>1, <1>5
  <2> HIDE DEF d
  <2>2. s[i] <= s[j]
    BY <1>4, <2>1 DEF T
  <2>3. s[i] # s[j] /\ s[i] \in Nat /\ s[j] \in Nat
    BY <1>1, <2>1 DEF Distinct
  <2> QED BY <2>2, <2>3
<1> QED BY <1>5 DEF Rising

LEMMA RisingIsOrdered ==
  ASSUME NEW s \in Seq(Nat), Rising(s)
  PROVE  Filter!Ordered(s) /\ Distinct(s)
<1>1. Len(s) \in Nat /\ \A i \in 1 .. Len(s) : s[i] \in Nat
  BY LenProperties, ElementOfSeq
<1>2. ASSUME NEW i \in 1 .. Len(s) - 1 PROVE s[i] <= s[i + 1]
  <2>1. i \in 1 .. Len(s) /\ i + 1 \in 1 .. Len(s) /\ i < i + 1
    BY <1>1
  <2>2. s[i] < s[i + 1]
    BY <2>1 DEF Rising
  <2>3. s[i] \in Nat /\ s[i + 1] \in Nat
    BY <1>1, <2>1
  <2> QED BY <2>2, <2>3
<1>3. ASSUME NEW i \in 1 .. Len(s), NEW j \in 1 .. Len(s), s[i] = s[j] PROVE i = j
  <2>1. i \in Nat /\ j \in Nat /\ s[i] \in Nat
    BY <1>1
  <2>2. ~(i < j) /\ ~(j < i)
    BY <1>3, <2>1 DEF Rising
  <2> QED BY <2>1, <2>2
<1> QED BY <1>2, <1>3 DEF Filter!Ordered, Distinct

(* How many elements a list has of which none comes twice.                   *)
LEMMA Counted ==
  ASSUME NEW M, NEW s \in Seq(M), Distinct(s)
  PROVE  IsFiniteSet(ToSet(s)) /\ Cardinality(ToSet(s)) = Len(s)
<1>1. Len(s) \in Nat /\ s \in [1 .. Len(s) -> M] /\ ToSet(s) = {s[i] : i \in 1 .. Len(s)}
  BY LenProperties, ElementsOf
<1>2. s \in Bijection(1 .. Len(s), ToSet(s))
  <2>1. s \in Injection(1 .. Len(s), ToSet(s))
    BY <1>1 DEF Injection, IsInjective, Distinct
  <2>2. s \in Surjection(1 .. Len(s), ToSet(s))
    BY <1>1 DEF Surjection
  <2> QED BY <2>1, <2>2 DEF Bijection
<1>3. IsFiniteSet(1 .. Len(s)) /\ Cardinality(1 .. Len(s)) = Len(s)
  <2>1. Len(s) \in Int /\ 1 \in Int
    BY <1>1
  <2>2. IsFiniteSet(1 .. Len(s)) /\ Cardinality(1 .. Len(s)) = IF 1 > Len(s) THEN 0 ELSE Len(s) - 1 + 1
    BY <2>1, FS_Interval
  <2> QED BY <1>1, <2>2
<1> QED BY <1>2, <1>3, FS_Bijection DEF ExistsBijection

LEMMA CountsAlike == \A S : Filter!Cardinality(S) = Cardinality(S)
BY DEF Filter!Cardinality, Cardinality

OnceOf(s, n, S) ==
  /\ s \in [1 .. n -> S] /\ \A i, j \in 1 .. n : s[i] = s[j] => i = j
  /\ \A t \in S : \E i \in 1 .. n : s[i] = t

LEMMA OnceEach ==
  ASSUME NEW s, NEW n \in Nat, NEW S, OnceOf(s, n, S)
  PROVE  Filter!ToBag(s) = [t \in S |-> 1]
<1> USE DEF OnceOf
<1>1. DOMAIN s = 1 .. n /\ Filter!Range(s) = S
  BY DEF Filter!Range
<1>2. ASSUME NEW t \in S PROVE Cardinality({i \in DOMAIN s : s[i] = t}) = 1
  <2>1. PICK k \in 1 .. n : s[k] = t
    OBVIOUS
  <2>2. {i \in DOMAIN s : s[i] = t} = {k}
    BY <1>1, <2>1
  <2> QED BY <2>2, FS_Singleton
<1>3. Filter!ToBag(s) = [t \in Filter!Range(s) |-> Cardinality({i \in DOMAIN s : s[i] = t})]
  BY CountsAlike DEF Filter!ToBag
<1> HIDE DEF OnceOf
<1> QED BY <1>1, <1>2, <1>3

SortedOf(r, s) == r \in Seq(Nat) /\ Rising(r) /\ Distinct(r) /\ Len(r) = Len(s) /\ ToSet(r) = ToSet(s)

LEMMA SortedIs ==
  ASSUME NEW s \in Seq(Nat), Distinct(s)
  PROVE  SortedOf(Filter!Sorted(s), s)
<1> DEFINE n == Len(s)
           S == ToSet(s)
           Right(r) == Filter!Ordered(r) /\ Filter!ToBag(r) = Filter!ToBag(s)
           r == CHOOSE q \in [1 .. n -> S] : Right(q)
<1>1. /\ n \in Nat /\ DOMAIN s = 1 .. n /\ S = {s[i] : i \in 1 .. n} /\ S \subseteq Nat
      /\ Filter!ToSet(s) = S /\ s \in [1 .. n -> S]
  BY ElementsOf, LenProperties DEF ToSet, Filter!ToSet
<1>2. IsFiniteSet(S) /\ Cardinality(S) = n
  BY Counted
<1>3. Filter!Sorted(s) = r
  BY <1>1 DEF Filter!Sorted
<1>4. Filter!ToBag(s) = [t \in S |-> 1]
  <2>1. \A i, j \in 1 .. n : s[i] = s[j] => i = j
    BY DEF Distinct
  <2>2. \A t \in S : \E i \in 1 .. n : s[i] = t
    BY <1>1
  <2>3. OnceOf(s, n, S)
    BY <1>1, <2>1, <2>2 DEF OnceOf
  <2> HIDE DEF n, S
  <2> QED BY <1>1, <2>3, OnceEach
<1> HIDE DEF n, S
<1>5. \E q \in [1 .. n -> S] : Right(q)
  <2>1. PICK at \in [1 .. n -> S] :
              /\ \A k \in S : \E m \in 1 .. n : at[m] = k
              /\ \A m, l \in 1 .. n : m < l => at[m] < at[l]
    <3>1. \E at \in [1 .. Cardinality(S) -> S] :
              /\ \A m \in 1 .. Cardinality(S) : at[m] = CHOOSE k \in S : Cardinality({i \in S : i <= k}) = m
              /\ \A k \in S : \E m \in 1 .. Cardinality(S) : at[m] = k
              /\ \A m, l \in 1 .. Cardinality(S) : m < l => at[m] < at[l]
      BY <1>1, <1>2, Ranks
    <3> QED BY <1>2, <3>1
  <2>0. at \in Seq(Nat) /\ Len(at) = n
    BY <1>1
  <2>2. at \in Seq(Nat) /\ Len(at) = n /\ Rising(at)
    BY <2>0, <2>1 DEF Rising
  <2>3. Filter!Ordered(at) /\ Distinct(at)
    BY <2>2, RisingIsOrdered
  <2>4. Filter!ToBag(at) = [t \in S |-> 1]
    <3>1. OnceOf(at, n, S)
      BY <2>1, <2>2, <2>3 DEF OnceOf, Distinct
    <3> QED BY <1>1, <3>1, OnceEach
  <2> QED BY <1>4, <2>3, <2>4
<1>6. r \in [1 .. n -> S] /\ Right(r)
  BY <1>5
<1> HIDE DEF r
<1>7. Filter!Range(r) = S
  <2>1. DOMAIN Filter!ToBag(r) = Filter!Range(r)
    BY CountsAlike DEF Filter!ToBag
  <2> QED BY <1>4, <1>6, <2>1
<1>8. r \in Surjection(1 .. n, S)
  <2>1. \A t \in S : \E i \in 1 .. n : r[i] = t
    BY <1>6, <1>7 DEF Filter!Range
  <2> QED BY <1>6, <2>1 DEF Surjection
<1>9. r \in Injection(1 .. n, S)
  <2>1. IsFiniteSet(1 .. n) /\ Cardinality(1 .. n) = n
    <3>1. n \in Int /\ 1 \in Int
      BY <1>1
    <3>2. IsFiniteSet(1 .. n) /\ Cardinality(1 .. n) = IF 1 > n THEN 0 ELSE n - 1 + 1
      BY <3>1, FS_Interval
    <3> QED BY <1>1, <3>2
  <2> QED BY <1>2, <1>8, <2>1, FS_SurjSameCardinalityImpliesInj
<1>10. r \in Seq(Nat) /\ Len(r) = n
  BY <1>1, <1>6
<1>11. Distinct(r)
  BY <1>9, <1>10 DEF Injection, IsInjective, Distinct
<1>12. Rising(r)
  BY <1>6, <1>10, <1>11, OrderedRises
<1>13. ToSet(r) = S
  BY <1>6, <1>7 DEF ToSet, Filter!Range
<1> QED BY <1>3, <1>10, <1>11, <1>12, <1>13 DEF SortedOf, n, S

LEMMA AtPositionsAlike == \A s, K : Filter!AtPositions(s, K) = AtPositions(s, K)
BY Zenon DEF Filter!AtPositions, AtPositions, Filter!Cardinality, Cardinality

LEMMA WithoutAlike == \A s, S : Filter!Without(s, S) = Without(s, S)
BY AtPositionsAlike DEF Filter!Without, Without

LEMMA BisectIs == \A n, before : Filter!Bisect(n, before) = Bisect(n, before)
BY DEF Bisect, Filter!Bisect

LEMMA FindsIs ==
  ASSUME NEW s \in Seq(Nat), Rising(s), NEW t \in Nat
  PROVE  Filter!Finds(s, t) <=> t \in ToSet(s)
<1> DEFINE n == Len(s)
           before == {i \in DOMAIN s : s[i] < t}
           r == Bisect(n, before)
<1>1. n \in Nat /\ DOMAIN s = 1 .. n /\ ToSet(s) = {s[i] : i \in 1 .. n} /\ \A i \in 1 .. n : s[i] \in Nat
  BY ElementsOf, ElementOfSeq
<1>2. r \in 1 .. n + 1 /\ (r > 1 => r - 1 \in before) /\ (r <= n => r \notin before)
  <2> HIDE DEF n, before
  <2> QED BY <1>1, BisectEnds
<1>3. Filter!Finds(s, t) <=> r <= n /\ s[r] = t
  BY BisectIs DEF Filter!Finds, Filter!LowerBound
<1>4. ASSUME t \in ToSet(s) PROVE r <= n /\ s[r] = t
  <2>1. PICK j \in 1 .. n : s[j] = t
    BY <1>1, <1>4
  <2> HIDE DEF r
  <2>2. ~(r < j)
    <3> SUFFICES ASSUME r < j PROVE FALSE
      OBVIOUS
    <3>1. r \in 1 .. n /\ ~(s[r] < t)
      BY <1>1, <1>2
    <3>2. s[r] < s[j]
      BY <3>1 DEF Rising
    <3> QED BY <2>1, <3>1, <3>2
  <2>3. ~(r > j)
    <3> SUFFICES ASSUME r > j PROVE FALSE
      OBVIOUS
    <3> DEFINE k == r - 1
    <3>1. k \in 1 .. n /\ k >= j /\ s[k] < t
      BY <1>1, <1>2
    <3> HIDE DEF k
    <3>2. k = j \/ s[j] < s[k]
      BY <3>1 DEF Rising
    <3>3. s[k] \in Nat /\ s[j] \in Nat
      BY <1>1, <3>1
    <3> QED BY <2>1, <3>1, <3>2, <3>3
  <2>4. r = j
    BY <1>1, <1>2, <2>2, <2>3
  <2> QED BY <1>1, <2>1, <2>4
<1>5. ASSUME r <= n, s[r] = t PROVE t \in ToSet(s)
  <2> HIDE DEF r
  <2> QED BY <1>1, <1>2, <1>5
<1> QED BY <1>3, <1>4, <1>5

LEMMA ToSetAlike == \A s : Filter!ToSet(s) = ToSet(s)
BY DEF Filter!ToSet, ToSet

(* A finite set as a list.                                                   *)
LEMMA ListOf ==
  ASSUME NEW S, IsFiniteSet(S)
  PROVE  Filter!SetToSeq(S) \in Seq(S) /\ Distinct(Filter!SetToSeq(S)) /\ ToSet(Filter!SetToSeq(S)) = S
<1> DEFINE c == Cardinality(S)
           f == CHOOSE g \in [1 .. c -> S] : Filter!IsInjective(g)
<1>1. c \in Nat /\ \E g : g \in Bijection(1 .. c, S)
  BY FS_CardinalityType DEF ExistsBijection
<1>2. \E g \in [1 .. c -> S] : Filter!IsInjective(g)
  BY <1>1 DEF Bijection, Injection, IsInjective, Filter!IsInjective
<1>3. f \in [1 .. c -> S] /\ Filter!IsInjective(f)
  BY <1>2
<1>4. Filter!SetToSeq(S) = f
  BY CountsAlike DEF Filter!SetToSeq
<1> HIDE DEF f
<1>5. f \in Injection(1 .. c, S)
  BY <1>3 DEF Injection, IsInjective, Filter!IsInjective
<1>6. IsFiniteSet(1 .. c) /\ Cardinality(1 .. c) = c
  <2>1. c \in Int /\ 1 \in Int
    BY <1>1
  <2>2. IsFiniteSet(1 .. c) /\ Cardinality(1 .. c) = IF 1 > c THEN 0 ELSE c - 1 + 1
    BY <2>1, FS_Interval
  <2> QED BY <1>1, <2>2
<1>7. f \in Surjection(1 .. c, S)
  BY <1>5, <1>6, FS_Injection
<1> HIDE DEF c
<1>8. f \in Seq(S) /\ Len(f) = c /\ DOMAIN f = 1 .. c
  BY <1>1, <1>3
<1>9. Distinct(f)
  BY <1>3, <1>8 DEF Distinct, Filter!IsInjective
<1>10. ToSet(f) = S
  BY <1>3, <1>7, <1>8 DEF Surjection, ToSet
<1> QED BY <1>4, <1>8, <1>9, <1>10

-----------------------------------------------------------------------------
(* The filter dialog.                                                        *)
FilterFields == {"open", "ok", "search", "hidden", "visible", "sel", "bar"}
FilterLike(e, d, but) == DOMAIN e = FilterFields /\ \A f \in FilterFields \ but : e[f] = d[f]
TwoLists == {"visible", "hidden"}

(* The lists of the dialog have the types S, each once and in order.          *)
Parted(d, S) ==
  /\ DOMAIN d = FilterFields /\ d.open /\ d.ok
  /\ \A list \in TwoLists : d[list] \in Seq(Nat) /\ Rising(d[list])
  /\ ToSet(d["visible"]) \cap ToSet(d["hidden"]) = {}
  /\ ToSet(d["visible"]) \cup ToSet(d["hidden"]) = S

Picks(d) ==
  /\ DOMAIN d.sel = TwoLists
  /\ d.sel["visible"] = {} \/ d.sel["hidden"] = {}
  /\ \A list \in TwoLists : d.sel[list] \subseteq Filter!Displayed(d, list)
  /\ DOMAIN d.bar = {"hideAll", "showAll", "hide", "show"}
  /\ \A list \in TwoLists : d.sel[list] # {} => d.bar[Filter!Button(list)]

LEMMA ButtonsFollow ==
  ASSUME NEW d, DOMAIN d = FilterFields
  PROVE  /\ FilterLike(Filter!RefreshButtons(d), d, {"bar"})
         /\ DOMAIN Filter!RefreshButtons(d).bar = {"hideAll", "showAll", "hide", "show"}
         /\ \A list \in TwoLists : d.sel[list] # {} => Filter!RefreshButtons(d).bar[Filter!Button(list)]
<1> DEFINE b == [hideAll |-> d.visible # <<>>, showAll |-> d.hidden # <<>>,
                 hide |-> d.sel["visible"] # {}, show |-> d.sel["hidden"] # {}]
           e == [d EXCEPT !.bar = b]
<1>1. Filter!RefreshButtons(d) = e
  BY DEF Filter!RefreshButtons
<1>2. DOMAIN b = {"hideAll", "showAll", "hide", "show"}
  OBVIOUS
<1>3. (b["hide"] <=> d.sel["visible"] # {}) /\ (b["show"] <=> d.sel["hidden"] # {})
  OBVIOUS
<1> HIDE DEF b
<1>4. FilterLike(e, d, {"bar"}) /\ e.bar = b
  BY DEF FilterLike, FilterFields
<1>5. \A list \in TwoLists : d.sel[list] # {} => b[Filter!Button(list)]
  BY <1>3 DEF TwoLists, Filter!Button
<1> HIDE DEF e
<1> QED BY <1>1, <1>2, <1>4, <1>5

LEMMA FilterRefreshed ==
  ASSUME NEW d, DOMAIN d = FilterFields
  PROVE  FilterLike(Filter!Refresh(d), d, {"sel", "bar"}) /\ Picks(Filter!Refresh(d))
<1> DEFINE none == [visible |-> {}, hidden |-> {}]
           a == [d EXCEPT !.sel = none]
           e == Filter!RefreshButtons(a)
<1>1. Filter!Refresh(d) = e
  BY DEF Filter!Refresh
<1>2. DOMAIN none = TwoLists /\ none["visible"] = {} /\ none["hidden"] = {}
  BY DEF TwoLists
<1> HIDE DEF none
<1>3. FilterLike(a, d, {"sel"}) /\ a.sel = none
  BY DEF FilterLike, FilterFields
<1> HIDE DEF a
<1>4. FilterLike(e, a, {"bar"}) /\ DOMAIN e.bar = {"hideAll", "showAll", "hide", "show"}
  BY <1>3, ButtonsFollow DEF FilterLike
<1> HIDE DEF e
<1>5. e.sel = none /\ FilterLike(e, d, {"sel", "bar"})
  BY <1>3, <1>4 DEF FilterLike, FilterFields
<1>6. \A list \in TwoLists : none[list] = {}
  BY <1>2 DEF TwoLists
<1>7. Picks(e)
  BY <1>2, <1>4, <1>5, <1>6 DEF Picks
<1> QED BY <1>1, <1>5, <1>7

LEMMA StillParted ==
  ASSUME NEW d, NEW e, NEW S, Parted(d, S), FilterLike(e, d, {"search", "sel", "bar"})
  PROVE  Parted(e, S)
<1>1. DOMAIN e = FilterFields /\ e.open = d.open /\ e.ok = d.ok /\ e["visible"] = d["visible"] /\ e["hidden"] = d["hidden"]
  BY DEF FilterLike, FilterFields
<1> QED BY <1>1 DEF Parted, TwoLists

Other(from, to) == from \in TwoLists /\ to \in TwoLists /\ from # to

LEMMA AllMoved ==
  ASSUME NEW d, NEW S, Parted(d, S), NEW from, NEW to, Other(from, to)
  PROVE  Parted(Filter!MoveAll(d, from, to), S) /\ Picks(Filter!MoveAll(d, from, to))
<1> DEFINE joined == d[to] \o d[from]
           sorted == Filter!Sorted(joined)
           none == <<>>
           a == [d EXCEPT ![to] = sorted, ![from] = none]
           e == Filter!Refresh(a)
<1>1. Filter!MoveAll(d, from, to) = e
  <2>1. [d EXCEPT ![to] = Filter!Sorted(@ \o d[from]), ![from] = <<>>] = a
    BY DEF Other, Parted, TwoLists, FilterFields
  <2> QED BY <2>1 DEF Filter!MoveAll
<1>2. d[to] \in Seq(Nat) /\ d[from] \in Seq(Nat) /\ Distinct(d[to]) /\ Distinct(d[from])
  BY RisingIsOrdered DEF Other, Parted
<1>3. ToSet(d[to]) \cap ToSet(d[from]) = {} /\ ToSet(d[to]) \cup ToSet(d[from]) = S
  BY DEF Other, Parted, TwoLists
<1>4. joined \in Seq(Nat) /\ Distinct(joined) /\ ToSet(joined) = S
  <2>1. joined \in Seq(Nat) /\ Distinct(joined) /\ ToSet(joined) = ToSet(d[to]) \cup ToSet(d[from])
    BY <1>2, <1>3, Joined
  <2> QED BY <1>3, <2>1
<1> HIDE DEF joined
<1>5. sorted \in Seq(Nat) /\ Rising(sorted) /\ ToSet(sorted) = S
  BY <1>4, SortedIs DEF SortedOf
<1> HIDE DEF sorted
<1>6. DOMAIN a = FilterFields /\ a.open = d.open /\ a.ok = d.ok /\ a[to] = sorted /\ a[from] = none
  BY DEF Other, Parted, TwoLists, FilterFields
<1> HIDE DEF a
<1>7. none \in Seq(Nat) /\ Rising(none) /\ ToSet(none) = {}
  BY DEF Rising, ToSet
<1> HIDE DEF none
<1>8. Parted(a, S)
  <2>1. d.ok /\ d.open /\ from \in {"visible", "hidden"} /\ to \in {"visible", "hidden"} /\ from # to
    BY DEF Other, Parted, TwoLists
  <2>2. ToSet(a[to]) \cap ToSet(a[from]) = {} /\ ToSet(a[to]) \cup ToSet(a[from]) = S
    BY <1>5, <1>6, <1>7
  <2> QED BY <1>5, <1>6, <1>7, <2>1, <2>2 DEF Parted, TwoLists
<1>9. FilterLike(e, a, {"sel", "bar"}) /\ Picks(e)
  BY <1>6, FilterRefreshed
<1> HIDE DEF e
<1>10. FilterLike(e, a, {"search", "sel", "bar"})
  BY <1>9 DEF FilterLike
<1> QED BY <1>1, <1>8, <1>9, <1>10, StillParted

LEMMA SomeMoved ==
  ASSUME NEW d, NEW S, Parted(d, S), NEW from, NEW to, Other(from, to),
         NEW order \in Seq(Nat), Distinct(order), ToSet(order) \subseteq ToSet(d[from])
  PROVE  Parted(Filter!MoveTypes(d, from, to, order), S) /\ Picks(Filter!MoveTypes(d, from, to, order))
<1> DEFINE joined == d[to] \o order
           left == Without(d[from], ToSet(order))
           sorted == Filter!Sorted(joined)
           ok == d.ok /\ ToSet(order) \subseteq ToSet(d[from])
           b == [d EXCEPT !.ok = ok, ![to] = joined, ![from] = left]
           a == [b EXCEPT ![to] = sorted]
           e == Filter!Refresh(a)
<1>1. DOMAIN d = FilterFields /\ from \in {"visible", "hidden"} /\ to \in {"visible", "hidden"} /\ from # to
  BY DEF Other, Parted, TwoLists
<1>2. Filter!MoveItems(d, from, to, order) = b
  BY <1>1, ToSetAlike, WithoutAlike DEF Filter!MoveItems, FilterFields
<1>3. DOMAIN b = FilterFields /\ b[to] = joined /\ b[from] = left /\ (b.ok <=> ok) /\ b.open = d.open
  BY <1>1 DEF FilterFields
<1> HIDE DEF b
<1>4. Filter!MoveTypes(d, from, to, order) = e
  BY <1>2, <1>3 DEF Filter!MoveTypes
<1>5. d[to] \in Seq(Nat) /\ d[from] \in Seq(Nat) /\ Distinct(d[to]) /\ Distinct(d[from]) /\ Rising(d[from])
  BY RisingIsOrdered DEF Other, Parted
<1>6. ToSet(d[to]) \cap ToSet(d[from]) = {} /\ ToSet(d[to]) \cup ToSet(d[from]) = S
  BY DEF Other, Parted, TwoLists
<1>7. joined \in Seq(Nat) /\ Distinct(joined) /\ ToSet(joined) = ToSet(d[to]) \cup ToSet(order)
  BY <1>5, <1>6, Joined
<1>8. left \in Seq(Nat) /\ Rising(left) /\ ToSet(left) = ToSet(d[from]) \ ToSet(order)
  BY <1>5, WithoutIs
<1> HIDE DEF joined, left
<1>9. sorted \in Seq(Nat) /\ Rising(sorted) /\ ToSet(sorted) = ToSet(joined)
  BY <1>7, SortedIs DEF SortedOf
<1> HIDE DEF sorted
<1>10. DOMAIN a = FilterFields /\ a[to] = sorted /\ a[from] = left /\ (a.ok <=> ok) /\ a.open = d.open
  BY <1>1, <1>3 DEF FilterFields
<1> HIDE DEF a
<1>11. d.ok /\ d.open
  BY DEF Parted
<1>12. ToSet(a[to]) \cap ToSet(a[from]) = {} /\ ToSet(a[to]) \cup ToSet(a[from]) = S
  BY <1>6, <1>7, <1>8, <1>9, <1>10
<1>13. Parted(a, S)
  BY <1>1, <1>8, <1>9, <1>10, <1>11, <1>12 DEF Parted, TwoLists
<1>14. FilterLike(e, a, {"sel", "bar"}) /\ Picks(e)
  BY <1>10, FilterRefreshed
<1> HIDE DEF e
<1>15. FilterLike(e, a, {"search", "sel", "bar"})
  BY <1>14 DEF FilterLike
<1> QED BY <1>4, <1>13, <1>14, <1>15, StillParted

LEMMA SomeSelected ==
  ASSUME NEW d, NEW S, Parted(d, S), Picks(d), NEW list, NEW other, Other(list, other),
         NEW types, types \subseteq Filter!Displayed(d, list)
  PROVE  /\ Parted(Filter!Select(d, list, other, types), S) /\ Picks(Filter!Select(d, list, other, types))
         /\ FilterLike(Filter!Select(d, list, other, types), d, {"search", "sel", "bar"})
<1> DEFINE a == [d EXCEPT !.sel[list] = types]
           b == [a EXCEPT !.sel[other] = {}]
           e == Filter!RefreshButtons(b)
<1>1. DOMAIN d = FilterFields /\ list \in TwoLists /\ other \in TwoLists /\ list # other /\ DOMAIN d.sel = TwoLists
  BY DEF Other, Parted, Picks
<1>2. /\ FilterLike(a, d, {"sel"}) /\ DOMAIN a.sel = TwoLists /\ a.sel[list] = types /\ a.sel[other] = d.sel[other]
  BY <1>1 DEF FilterLike, FilterFields
<1>3. TwoLists = {list, other}
  BY <1>1 DEF TwoLists
<1>4. Filter!Select(d, list, other, types) = IF types = {} THEN a ELSE e
  BY DEF Filter!Select
<1> HIDE DEF a
<1>5. FilterLike(b, a, {"sel"}) /\ DOMAIN b.sel = TwoLists /\ b.sel[list] = types /\ b.sel[other] = {}
  BY <1>1, <1>2 DEF FilterLike, FilterFields
<1> HIDE DEF b
<1>6. /\ FilterLike(e, b, {"bar"}) /\ DOMAIN e.bar = {"hideAll", "showAll", "hide", "show"}
      /\ \A l \in TwoLists : b.sel[l] # {} => e.bar[Filter!Button(l)]
  BY <1>5, ButtonsFollow DEF FilterLike
<1> HIDE DEF e
<1>7. CASE types = {}
  <2>1. FilterLike(a, d, {"search", "sel", "bar"}) /\ a.bar = d.bar /\ a.search = d.search
    BY <1>2 DEF FilterLike, FilterFields
  <2>2. \A l \in TwoLists : Filter!Displayed(a, l) = Filter!Displayed(d, l)
    BY <1>2, <2>1 DEF FilterLike, FilterFields, TwoLists, Filter!Displayed
  <2>3. Picks(a)
    <3>1. a.sel["visible"] = {} \/ a.sel["hidden"] = {}
      BY <1>1, <1>2, <1>3, <1>7 DEF TwoLists
    <3>2. \A l \in TwoLists : a.sel[l] = {} \/ a.sel[l] = d.sel[l]
      BY <1>2, <1>3, <1>7
    <3>3. \A l \in TwoLists : a.sel[l] \subseteq Filter!Displayed(a, l)
      BY <2>2, <3>2 DEF Picks
    <3>4. \A l \in TwoLists : a.sel[l] # {} => a.bar[Filter!Button(l)]
      BY <2>1, <3>2 DEF Picks
    <3> QED BY <1>2, <2>1, <3>1, <3>3, <3>4 DEF Picks
  <2> QED BY <1>4, <1>7, <2>1, <2>3, StillParted
<1>8. CASE types # {}
  <2>1. FilterLike(e, d, {"search", "sel", "bar"}) /\ e.search = d.search /\ e.sel = b.sel
    BY <1>2, <1>5, <1>6 DEF FilterLike, FilterFields
  <2>2. \A l \in TwoLists : Filter!Displayed(e, l) = Filter!Displayed(d, l)
    BY <2>1 DEF FilterLike, FilterFields, TwoLists, Filter!Displayed
  <2>3. Picks(e)
    <3>1. e.sel["visible"] = {} \/ e.sel["hidden"] = {}
      BY <1>1, <1>3, <1>5, <2>1 DEF TwoLists
    <3>2. \A l \in TwoLists : e.sel[l] \subseteq Filter!Displayed(e, l)
      BY <1>3, <1>5, <2>1, <2>2
    <3> QED BY <1>5, <1>6, <2>1, <3>1, <3>2 DEF Picks
  <2> QED BY <1>4, <1>8, <2>1, <2>3, StillParted
<1> QED BY <1>7, <1>8

Hides == TypesOf[plugged] \cup ToSet(filtered)

FilterSound ==
  /\ filtered \in Seq(Nat) /\ Rising(filtered) /\ plugged \in DOMAIN TypesOf
  /\ filter = Filter!Closed \/ (Parted(filter, Hides) /\ Picks(filter))

FilterRuns == subject = "filter" => FilterSound

LEMMA ClosedIs == ~Filter!Closed.open /\ Filter!Closed.ok /\ Filter!Closed = [Filter!Closed EXCEPT !.ok = TRUE]
<1> DEFINE c == Filter!Closed
           d == [c EXCEPT !.ok = TRUE]
<1>1. c = [open |-> FALSE, ok |-> TRUE]
  BY DEF Filter!Closed
<1>2. DOMAIN c = {"open", "ok"} /\ c["ok"] = TRUE /\ c["open"] = FALSE
  BY <1>1
<1>3. c = [f \in DOMAIN c |-> c[f]]
  BY <1>1, Zenon
<1> HIDE DEF c
<1>4. DOMAIN d = DOMAIN c /\ \A f \in DOMAIN c : d[f] = c[f]
  BY <1>2, <1>3
<1>5. d = [f \in DOMAIN c |-> d[f]]
  BY <1>4
<1>6. d = c
  BY <1>3, <1>4, <1>5
<1> QED BY <1>2, <1>6 DEF c

LEMMA Opens ==
  ASSUME FilterSound, filter = Filter!Closed
  PROVE  Parted(Filter!Opened, Hides) /\ Picks(Filter!Opened)
<1> DEFINE T == TypesOf[plugged]
           list == Filter!SetToSeq(T)
           hidden == Filter!Sorted(filtered)
           all == Filter!Sorted(list)
           K == {i \in DOMAIN all : ~Filter!Finds(hidden, all[i])}
           visible == AtPositions(all, K)
           a == [open |-> TRUE, ok |-> filter.ok, search |-> FALSE, hidden |-> hidden,
                 visible |-> visible, sel |-> <<>>, bar |-> <<>>]
           e == Filter!Refresh(a)
<1>1. Filter!Opened = e
  BY AtPositionsAlike DEF Filter!Opened
<1>2. T \subseteq Nat /\ IsFiniteSet(T)
  BY FilterAssumption DEF FilterSound
<1>3. hidden \in Seq(Nat) /\ Rising(hidden) /\ ToSet(hidden) = ToSet(filtered)
  BY RisingIsOrdered, SortedIs DEF FilterSound, SortedOf
<1>4. list \in Seq(T) /\ Distinct(list) /\ ToSet(list) = T
  <2> HIDE DEF T
  <2> QED BY <1>2, ListOf
<1>5. list \in Seq(Nat)
  <2> HIDE DEF list, T
  <2> QED BY <1>2, <1>4, SeqMonotonic
<1> HIDE DEF hidden, list
<1>6. all \in Seq(Nat) /\ Rising(all) /\ ToSet(all) = T
  BY <1>4, <1>5, SortedIs DEF SortedOf
<1> HIDE DEF all
<1>7. ToSet(all) = {all[i] : i \in 1 .. Len(all)} /\ DOMAIN all = 1 .. Len(all)
  BY <1>6, ElementsOf
<1>8. visible \in Seq(Nat) /\ Rising(visible) /\ ToSet(visible) = {all[k] : k \in K}
  <2>1. K \in SUBSET (1 .. Len(all))
    BY <1>7
  <2> HIDE DEF K
  <2> QED BY <1>6, <2>1, PositionsKept
<1>9. {all[k] : k \in K} = T \ ToSet(filtered)
  <2>1. ASSUME NEW i \in 1 .. Len(all) PROVE Filter!Finds(hidden, all[i]) <=> all[i] \in ToSet(filtered)
    <3>1. all[i] \in Nat
      BY <1>6, ElementOfSeq
    <3> QED BY <1>3, <3>1, FindsIs
  <2> QED BY <1>6, <1>7, <2>1
<1> HIDE DEF K, visible
<1>10. /\ DOMAIN a = FilterFields /\ a["visible"] = visible /\ a["hidden"] = hidden /\ a.open /\ (a.ok <=> filter.ok)
  BY DEF FilterFields
<1> HIDE DEF a
<1>11. Parted(a, Hides)
  BY <1>3, <1>8, <1>9, <1>10, ClosedIs DEF Parted, TwoLists, Hides
<1>12. FilterLike(e, a, {"sel", "bar"}) /\ Picks(e)
  BY <1>10, FilterRefreshed
<1> HIDE DEF e
<1>13. FilterLike(e, a, {"search", "sel", "bar"})
  BY <1>12 DEF FilterLike
<1> QED BY <1>1, <1>11, <1>12, <1>13, StillParted

LEMMA FilterBecomes ==
  ASSUME FilterSound, NEW d, Filter!Becomes(d), d = Filter!Closed \/ (Parted(d, Hides) /\ Picks(d))
  PROVE  FilterSound'
BY DEF FilterSound, Filter!Becomes, Hides

LEMMA SidesAre ==
  ASSUME NEW s \in Filter!Sides
  PROVE  Other(s[1], s[2])
BY DEF Filter!Sides, Other, TwoLists

LEMMA DisplayedIsListed ==
  ASSUME NEW d, NEW list
  PROVE  Filter!Displayed(d, list) \subseteq ToSet(d[list])
BY ToSetAlike DEF Filter!Displayed

LEMMA FilterKeeps ==
  ASSUME FilterSound, Filter!Next
  PROVE  FilterSound'
<1>1. filter.open => Parted(filter, Hides) /\ Picks(filter) /\ filter.ok
  BY ClosedIs DEF FilterSound, Parted
<1>2. ~filter.open => filter = Filter!Closed
  BY DEF FilterSound, Parted
<1>3. CASE Filter!OpenFilter
  <2>1. filter' = Filter!Opened /\ UNCHANGED <<filtered, plugged>> /\ filter = Filter!Closed
    BY <1>2, <1>3 DEF Filter!OpenFilter
  <2>2. Parted(Filter!Opened, Hides) /\ Picks(Filter!Opened)
    BY <2>1, Opens
  <2> DEFINE d == Filter!Opened
  <2> HIDE DEF d
  <2>3. Filter!Becomes(d)
    BY <2>1 DEF Filter!Becomes, d
  <2> QED BY <2>2, <2>3, FilterBecomes DEF d
<1>4. CASE Filter!SearchFilter
  <2> DEFINE a == [filter EXCEPT !.search = ~@]
             e == Filter!Refresh(a)
  <2>1. filter.open /\ Filter!Becomes(e)
    BY <1>4 DEF Filter!SearchFilter
  <2>2. FilterLike(a, filter, {"search", "sel", "bar"})
    BY <1>1, <2>1 DEF Parted, FilterLike, FilterFields
  <2> HIDE DEF a
  <2>3. FilterLike(e, a, {"sel", "bar"}) /\ Picks(e)
    BY <2>2, FilterRefreshed DEF FilterLike
  <2> HIDE DEF e
  <2>4. FilterLike(e, filter, {"search", "sel", "bar"})
    BY <2>2, <2>3 DEF FilterLike, FilterFields
  <2>5. Parted(e, Hides)
    BY <1>1, <2>1, <2>4, StillParted
  <2> QED BY <2>1, <2>3, <2>5, FilterBecomes
<1>5. CASE Filter!AcceptFilter
  <2>1. filter.open /\ filtered' = filter.hidden /\ plugged' = plugged
    BY <1>5 DEF Filter!AcceptFilter
  <2>2. filter.hidden \in Seq(Nat) /\ Rising(filter.hidden)
    BY <1>1, <2>1 DEF Parted, TwoLists
  <2>3. filter' = Filter!Closed
    <3>1. filter.ok /\ Filter!Ordered(filter.hidden)
      BY <1>1, <2>1, <2>2, RisingIsOrdered
    <3>2. filter' = [Filter!Closed EXCEPT !.ok = filter.ok /\ Filter!Ordered(filter.hidden)]
      BY <1>5 DEF Filter!AcceptFilter
    <3> QED BY <3>1, <3>2, ClosedIs
  <2> QED BY <2>1, <2>2, <2>3 DEF FilterSound, Filter!Closed
<1>6. CASE Filter!RejectFilter
  <2> DEFINE d == [Filter!Closed EXCEPT !.ok = filter.ok]
  <2>1. filter.open /\ Filter!Becomes(d)
    BY <1>6 DEF Filter!RejectFilter
  <2>2. d = Filter!Closed
    BY <1>1, <2>1, ClosedIs
  <2> HIDE DEF d
  <2> QED BY <2>1, <2>2, FilterBecomes
<1>7. CASE \E p \in DOMAIN TypesOf : Filter!Replug(p)
  BY <1>2, <1>7 DEF Filter!Replug, FilterSound
<1>8. ASSUME NEW s \in Filter!Sides, Filter!MoveAllClicked(s[1], s[2]) PROVE FilterSound'
  <2>1. Other(s[1], s[2])
    BY SidesAre
  <2> DEFINE d == Filter!MoveAll(filter, s[1], s[2])
  <2>2. filter.open /\ Filter!Becomes(d)
    BY <1>8 DEF Filter!MoveAllClicked
  <2>3. Parted(d, Hides) /\ Picks(d)
    BY <1>1, <2>1, <2>2, AllMoved
  <2> HIDE DEF d
  <2> QED BY <2>2, <2>3, FilterBecomes
<1>9. ASSUME NEW s \in Filter!Sides, Filter!MoveSelectedClicked(s[1], s[2]) PROVE FilterSound'
  <2>1. Other(s[1], s[2])
    BY SidesAre
  <2> DEFINE picked == filter.sel[s[1]]
             order == Filter!SetToSeq(picked)
             d == Filter!MoveTypes(filter, s[1], s[2], order)
  <2>2. filter.open /\ Filter!Becomes(d)
    BY <1>9 DEF Filter!MoveSelectedClicked
  <2>3. Parted(filter, Hides) /\ Picks(filter)
    BY <1>1, <2>2
  <2>4. filter[s[1]] \in Seq(Nat) /\ Distinct(filter[s[1]]) /\ picked \subseteq ToSet(filter[s[1]])
    <3>1. filter[s[1]] \in Seq(Nat) /\ Rising(filter[s[1]])
      BY <2>1, <2>3 DEF Parted, Other
    <3>2. picked \subseteq ToSet(filter[s[1]])
      BY <2>1, <2>3, DisplayedIsListed DEF Picks, Other
    <3> QED BY <3>1, <3>2, RisingIsOrdered
  <2> HIDE DEF picked
  <2>5. IsFiniteSet(picked) /\ picked \subseteq Nat
    <3>1. IsFiniteSet(ToSet(filter[s[1]])) /\ ToSet(filter[s[1]]) \subseteq Nat
      BY <2>4, Counted, ElementsOf
    <3>2. IsFiniteSet(picked)
      BY <2>4, <3>1, FS_Subset
    <3> QED BY <2>4, <3>1, <3>2
  <2>6. order \in Seq(picked) /\ Distinct(order) /\ ToSet(order) = picked
    BY <2>5, ListOf
  <2> HIDE DEF order
  <2>7. order \in Seq(Nat)
    BY <2>5, <2>6, SeqMonotonic
  <2>8. Parted(d, Hides) /\ Picks(d)
    BY <2>1, <2>3, <2>4, <2>6, <2>7, SomeMoved
  <2> HIDE DEF d
  <2> QED BY <2>2, <2>8, FilterBecomes
<1>10. ASSUME NEW s \in Filter!Sides, NEW t \in Filter!AllTypes, Filter!DoubleClicked(s[1], s[2], t) PROVE FilterSound'
  <2>1. Other(s[1], s[2])
    BY SidesAre
  <2> DEFINE one == {t}
             order == <<t>>
             a == Filter!Select(filter, s[1], s[2], one)
             d == Filter!MoveTypes(a, s[1], s[2], order)
  <2>2. filter.open /\ Filter!Becomes(d) /\ one \subseteq Filter!Displayed(filter, s[1])
    BY <1>10 DEF Filter!DoubleClicked
  <2>3. Parted(a, Hides) /\ FilterLike(a, filter, {"search", "sel", "bar"})
    <3> HIDE DEF one
    <3> QED BY <1>1, <2>1, <2>2, SomeSelected
  <2> HIDE DEF a
  <2>4. a[s[1]] = filter[s[1]]
    BY <2>1, <2>3 DEF FilterLike, FilterFields, Other, TwoLists
  <2>5. t \in ToSet(a[s[1]])
    BY <2>2, <2>4, DisplayedIsListed
  <2>6. t \in Nat
    <3>1. a[s[1]] \in Seq(Nat)
      BY <2>1, <2>3 DEF Parted, Other
    <3> QED BY <2>5, <3>1, ElementsOf
  <2>7. order \in Seq(Nat) /\ Distinct(order) /\ ToSet(order) = {t}
    BY <2>6 DEF Distinct, ToSet
  <2> HIDE DEF order
  <2>8. Parted(d, Hides) /\ Picks(d)
    BY <2>1, <2>3, <2>5, <2>7, SomeMoved
  <2> HIDE DEF d
  <2> QED BY <2>2, <2>8, FilterBecomes
<1>11. ASSUME NEW s \in Filter!Sides, NEW types, Filter!SelectTypes(s[1], s[2], types) PROVE FilterSound'
  <2>1. Other(s[1], s[2])
    BY SidesAre
  <2> DEFINE d == Filter!Select(filter, s[1], s[2], types)
  <2>2. filter.open /\ Filter!Becomes(d) /\ types \subseteq Filter!Displayed(filter, s[1])
    BY <1>11 DEF Filter!SelectTypes
  <2>3. Parted(d, Hides) /\ Picks(d)
    BY <1>1, <2>1, <2>2, SomeSelected
  <2> HIDE DEF d
  <2> QED BY <2>2, <2>3, FilterBecomes
<1> QED BY <1>3, <1>4, <1>5, <1>6, <1>7, <1>8, <1>9, <1>10, <1>11 DEF Filter!Next

LEMMA FilterInit == Init => FilterRuns
<1> SUFFICES ASSUME Init, subject = "filter" PROVE FilterSound
  BY DEF FilterRuns
<1>1. filter = Filter!Closed /\ filtered = <<>> /\ plugged \in DOMAIN TypesOf
  BY DEF Init, Filter!Init
<1>2. filtered \in Seq(Nat) /\ Rising(filtered)
  BY <1>1 DEF Rising
<1> QED BY <1>1, <1>2 DEF FilterSound

LEMMA FilterNext ==
  ASSUME FilterRuns, [Next]_vars
  PROVE  FilterRuns'
<1>1. CASE FilterStep /\ UNCHANGED subject
  BY <1>1, FilterKeeps DEF FilterStep, FilterRuns
<1>2. CASE UNCHANGED vars
  BY <1>2 DEF vars, filterVars, FilterRuns, FilterSound, Hides
<1>3. CASE UNCHANGED subject /\ (SendStep \/ PluginsStep \/ EditorStep \/ DisplayStep)
  BY <1>3 DEF SendStep, PluginsStep, EditorStep, DisplayStep, filterVars, FilterRuns, FilterSound, Hides
<1> QED BY <1>1, <1>2, <1>3 DEF Next

LEMMA FilterIsRight ==
  ASSUME FilterSound
  PROVE  Filter!HiddenIsFound /\ Filter!ListsAreParts /\ Filter!SelectionOfOne
<1>1. filter.ok
  BY ClosedIs DEF FilterSound, Parted
<1>2. Filter!HiddenIsFound
  <2>1. ASSUME NEW t \in Filter!AllTypes PROVE Filter!Finds(filtered, t) <=> t \in ToSet(filtered)
    <3>1. t \in Nat
      BY FilterAssumption DEF Filter!AllTypes
    <3> QED BY <3>1, FindsIs DEF FilterSound
  <2> QED BY <1>1, <2>1, ToSetAlike DEF Filter!HiddenIsFound
<1>3. ASSUME filter.open PROVE Parted(filter, Hides) /\ Picks(filter)
  BY <1>3, ClosedIs DEF FilterSound
<1>4. Filter!ListsAreParts
  <2> SUFFICES ASSUME filter.open
               PROVE  /\ ToSet(filter.visible) \cap ToSet(filter.hidden) = {}
                      /\ Filter!IsInjective(filter.visible) /\ Filter!IsInjective(filter.hidden)
                      /\ ToSet(filter.visible) \cup ToSet(filter.hidden) = Hides
    BY ToSetAlike DEF Filter!ListsAreParts, Hides
  <2>1. Parted(filter, Hides)
    BY <1>3
  <2>2. ASSUME NEW s \in Seq(Nat), Rising(s) PROVE Filter!IsInjective(s)
    <3>1. Distinct(s) /\ DOMAIN s = 1 .. Len(s)
      BY <2>2, RisingIsOrdered, LenProperties
    <3> QED BY <3>1 DEF Distinct, Filter!IsInjective
  <2>3. filter.visible = filter["visible"] /\ filter.hidden = filter["hidden"]
    OBVIOUS
  <2> QED BY <2>1, <2>2, <2>3 DEF Parted, TwoLists
<1>5. Filter!SelectionOfOne
  BY <1>3, SidesAre DEF Filter!SelectionOfOne, Picks, Other
<1> QED BY <1>2, <1>4, <1>5

(* The list of hidden types is in order whenever it is looked up, so that the  *)
(* binary search finds exactly what was hidden; every type of the protocol,    *)
(* and what an earlier one left hidden, is in one of the two lists; and what   *)
(* is selected is displayed, in one list only, with a button that moves it.    *)
(* For any protocols with any number of messages (MessagesFilterDialog.cpp,     *)
(* GuiAppMgr.cpp).                                                            *)
THEOREM HiddenTypesAreFound == Spec => []HiddenIsFound
<1>1. Init => FilterRuns
  BY FilterInit
<1>2. FilterRuns /\ [Next]_vars => FilterRuns'
  BY FilterNext
<1>3. FilterRuns => HiddenIsFound
  BY FilterIsRight DEF FilterRuns, HiddenIsFound
<1> QED BY <1>1, <1>2, <1>3, PTL DEF Spec

-----------------------------------------------------------------------------
(* What the properties say of several parts at once.                          *)

(* None of the assertions of the send area fails, in whatever order the        *)
(* manager, the list and the tool bar call each other; and none of the plug-in  *)
(* dialog, its configuration widgets and the plug-in manager, where each button *)
(* that is enabled has a plug-in to act on (GuiAppMgr.cpp, MsgListWidget.cpp,   *)
(* SendAreaToolBar.cpp, PluginConfigDialog.cpp, PluginConfigWrapsListWidget.cpp, *)
(* ToolsPluginMgrImpl.cpp).  Excepted are the two assertions that do fail: the  *)
(* program ends when a configuration file names a plug-in whose library cannot  *)
(* be loaded, and the state at that end is one where a file that does not load  *)
(* was there; and a button that moves a plug-in is stale after a key has made   *)
(* another row current.                                                       *)
THEOREM AssertionsHold == Spec => []NoAssertionFails
<1> DEFINE Runs == SendRuns /\ PluginsRuns
<1>1. Init => Runs
  BY AreaInitRuns, PluginsStart DEF Init, SendRuns, PluginsRuns
<1>2. Runs /\ [Next]_vars => Runs'
  BY SendNext, PluginsNext
<1>3. Runs => NoAssertionFails
  BY SendIsRight, PluginsAreRight DEF SendRuns, PluginsRuns, NoAssertionFails
<1> QED BY <1>1, <1>2, <1>3, PTL DEF Spec

(* A message that is moved in the send list, or that others are loaded after, *)
(* stays selected; the send list is emptied, and nobody asked, exactly when    *)
(* another protocol is applied, where the lists before and after have one      *)
(* protocol; the widgets of the message dialog, which call back while they     *)
(* are being set, forget nothing that was entered; and a message that was      *)
(* received, or was no message, is never edited, in a display that was posted  *)
(* for another one either.                                                   *)
THEOREM StepsForgetNothing == Spec => StepsKeep
<1> DEFINE Step == /\ subject = "send_area" => Send!KeepsSelectionStep
                   /\ subject = "plugins" => Plugins!ProtocolFollowsStep
                   /\ subject = "editor" => Editor!NothingForgottenStep
                   /\ subject = "display" => Display!ReceivedStaysStep
           Runs == SendRuns /\ PluginsRuns /\ EditorRuns /\ DisplayRuns
<1>1. Init => Runs
  BY AreaInitRuns, PluginsStart, EditorInit, DisplayInit DEF Init, SendRuns, PluginsRuns
<1>2. Runs /\ [Next]_vars => Runs'
  BY SendNext, PluginsNext, EditorNext, DisplayNext
<1>3. Runs /\ Runs' /\ Next => Step
  <2> SUFFICES ASSUME Runs, Runs', Next PROVE Step
    OBVIOUS
  <2>1. UNCHANGED subject
    BY DEF Next
  <2>2. subject = "send_area" => Send!KeepsSelectionStep
    <3>1. subject = "send_area" => Send!Next
      BY DEF Next, SendStep, PluginsStep, EditorStep, FilterStep, DisplayStep
    <3> QED BY <3>1, AreaNext DEF SendRuns
  <2>3. subject = "plugins" => Plugins!ProtocolFollowsStep
    <3>1. subject = "plugins" => Plugins!Next
      BY DEF Next, SendStep, PluginsStep, EditorStep, FilterStep, DisplayStep
    <3> QED BY <2>1, <3>1, ProtocolIsFollowed DEF PluginsRuns
  <2>4. subject = "editor" => Editor!NothingForgottenStep
    BY <2>1, EditorForgetsNothing
  <2>5. subject = "display" => Display!ReceivedStaysStep
    <3>1. subject = "display" => Display!Next
      BY DEF Next, SendStep, PluginsStep, EditorStep, FilterStep, DisplayStep
    <3> QED BY <3>1, ReceivedIsKept
  <2> QED BY <2>2, <2>3, <2>4, <2>5
<1> HIDE DEF Step, Runs
<1>4. Spec => [][Step]_vars
  BY <1>1, <1>2, <1>3, PTL DEF Spec
<1> QED BY <1>4 DEF Step, StepsKeep
=============================================================================
