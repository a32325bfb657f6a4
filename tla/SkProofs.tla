------------------------------ MODULE SkProofs ------------------------------
(***************************************************************************)
(* Proofs about sk_os.  The way of a button press: whatever the queue's    *)
(* length, whenever presses and interrupts come, none is lost before it is *)
(* posted, and a confirm is sent only for a switch that has come to rest.  *)
(* The UI thread: what it believes of the pages and of the controller's    *)
(* cache is true after every sequence of events, failed loads and failed   *)
(* renders, what it shows belongs to its scene, and a motion has no jump.  *)
(***************************************************************************)
EXTENDS SkInput, SkUi, SequenceTheorems, FiniteSetTheorems, TLAPS


(***************************************************************************)
(* Presses are kept because the two read-and-clear sequences exclude one   *)
(* another: the thread's runs with interrupts masked, the handler's with   *)
(* the thread stopped.  What the handler has read stays latched until it   *)
(* is among the pending, and what the thread has read is still all that is *)
(* pending when it clears.                                                 *)
(***************************************************************************)
HandlerKeeps ==
  /\ irq.at = "read"  => irq.bits \subseteq int_state
  /\ irq.at = "noted" => irq.bits \subseteq g_pending_buttons
ThreadKeeps ==
  /\ input.at = "clear" => masked /\ irq.at = "idle" /\ input.bits = g_pending_buttons
  /\ input.at = "sleep" => input.bits = {}
Fields ==
  /\ input = [at |-> input.at, bits |-> input.bits]
  /\ irq = [at |-> irq.at, bits |-> irq.bits]
KInv == Fields /\ HandlerKeeps /\ ThreadKeeps /\ PressesKept

LEMMA InputInitial == InputInit => KInv
BY DEF InputInit, KInv, Fields, HandlerKeeps, ThreadKeeps, PressesKept

LEMMA HandlerStep ==
  ASSUME KInv, HWI0_IntrHandler \/ sketch_os_on_button_irq \/ Button_IntrHandler
  PROVE  KInv'
<1> USE DEF KInv, Fields, HandlerKeeps, ThreadKeeps, PressesKept
<1>1. CASE HWI0_IntrHandler
  BY <1>1 DEF HWI0_IntrHandler
<1>2. CASE sketch_os_on_button_irq
  BY <1>2 DEF sketch_os_on_button_irq
<1>3. CASE Button_IntrHandler
  BY <1>3 DEF Button_IntrHandler, acknowledged
<1> QED BY <1>1, <1>2, <1>3

LEMMA ThreadStep ==
  ASSUME KInv, input_thread_entry
  PROVE  KInv'
<1> USE DEF KInv, Fields, HandlerKeeps, ThreadKeeps, PressesKept, InputAt
<1>1. CASE ReadPending
  BY <1>1 DEF ReadPending, masks
<1>2. CASE ClearPending
  BY <1>2 DEF ClearPending
<1>3. CASE PostButtons
  <2>1. PICK b \in input.bits : owed' = owed \ {b} /\ input' = [input EXCEPT !.bits = @ \ {b}]
    BY <1>3 DEF PostButtons
  <2> QED BY <1>3, <2>1 DEF PostButtons
<1>4. CASE SampleSwitch
  BY <1>4 DEF SampleSwitch
<1> QED BY <1>1, <1>2, <1>3, <1>4 DEF input_thread_entry

LEMMA InputStable == KInv /\ [InputNext]_input_vars => KInv'
<1> SUFFICES ASSUME KInv, [InputNext]_input_vars PROVE KInv'
  OBVIOUS
<1> USE DEF KInv, Fields, HandlerKeeps, ThreadKeeps, PressesKept
<1>1. CASE \E b \in Buttons : Press(b)
  BY <1>1 DEF Press
<1>2. CASE Toggle
  BY <1>2 DEF Toggle
<1>3. CASE TakeEvent
  BY <1>3 DEF TakeEvent
<1>4. CASE UNCHANGED input_vars
  BY <1>4 DEF input_vars
<1> QED BY <1>1, <1>2, <1>3, <1>4, HandlerStep, ThreadStep DEF InputNext

(* No press is lost on its way from the latch of confreg to the message     *)
(* queue, for every set of buttons and length of the queue.                 *)
THEOREM NoPressLost == InputSpec => []PressesKept
<1>1. KInv => PressesKept
  BY DEF KInv
<1> QED BY InputInitial, InputStable, <1>1, PTL DEF InputSpec

(***************************************************************************)
(* The switch: the counter says how many samples before the last one       *)
(* agreed with the candidate already.                                      *)
(***************************************************************************)
Samples == samples \in Seq({0, 1}) /\ Len(samples) = 4 /\ switch \in {0, 1}
Counted ==
  /\ bounce = [candidate |-> bounce.candidate, stable |-> bounce.stable,
               debounce |-> bounce.debounce]
  /\ bounce.debounce \in 0 .. 2
  /\ \A i \in 1 .. 4 : i >= 4 - bounce.debounce => samples[i] = bounce.candidate
BInv == Samples /\ Counted

LEMMA BounceInitial == InputInit => BInv
<1> SUFFICES ASSUME InputInit PROVE BInv
  OBVIOUS
<1>1. samples = <<switch, switch, switch, switch>> /\ switch \in {0, 1}
  BY DEF InputInit
<1>2. Samples /\ \A i \in 1 .. 4 : samples[i] = switch
  BY <1>1 DEF Samples
<1> QED BY <1>2 DEF InputInit, BInv, Counted

(* A sample moves the window on by one.                                    *)
LEMMA Kept ==
  ASSUME NEW S, NEW q \in Seq(S), NEW s \in S, NEW i \in 1 .. Len(q)
  PROVE  Append(q, s)[i] = q[i]
BY AppendProperties, ZenonT(120)

LEMMA Added ==
  ASSUME NEW S, NEW q \in Seq(S), NEW s \in S
  PROVE  /\ Append(q, s) \in Seq(S) /\ Len(Append(q, s)) = Len(q) + 1
         /\ Append(q, s)[Len(q) + 1] = s
BY AppendProperties, ZenonT(60)

LEMMA Shifted ==
  ASSUME NEW q \in Seq({0, 1}), Len(q) = 4, NEW s \in {0, 1}
  PROVE  /\ Append(Tail(q), s) \in Seq({0, 1}) /\ Len(Append(Tail(q), s)) = 4
         /\ \A i \in 1 .. 3 : Append(Tail(q), s)[i] = q[i + 1]
         /\ Append(Tail(q), s)[4] = s
<1>1. q # <<>>
  <2>1. Len(<<>>) = 0
    BY EmptySeq, Zenon
  <2>2. Len(q) # Len(<<>>)
    BY <2>1
  <2> QED BY <2>2, Zenon
<1>2. Tail(q) \in Seq({0, 1}) /\ Len(Tail(q)) = 3
  BY <1>1, HeadTailProperties
<1>3. Len(Tail(q)) + 1 = 4
  BY <1>2
<1>4. /\ Append(Tail(q), s) \in Seq({0, 1}) /\ Len(Append(Tail(q), s)) = Len(Tail(q)) + 1
      /\ Append(Tail(q), s)[Len(Tail(q)) + 1] = s
  BY <1>2, Added, Zenon
<1>5. ASSUME NEW i \in 1 .. 3 PROVE Append(Tail(q), s)[i] = q[i + 1]
  <2>1. Tail(q)[i] = q[i + 1]
    BY <1>1, <1>2, HeadTailProperties
  <2>2. i \in 1 .. Len(Tail(q))
    BY <1>2, Zenon
  <2>3. Append(Tail(q), s)[i] = Tail(q)[i]
    BY <1>2, <2>2, Kept, Zenon
  <2> QED BY <2>1, <2>3, Zenon
<1> QED BY <1>3, <1>4, <1>5, Zenon

LEMMA SampleStep ==
  ASSUME BInv, SampleSwitch
  PROVE  BInv' /\ (bounce'.stable # bounce.stable =>
                      \A i \in 1 .. 4 : samples'[i] = bounce'.stable)
<1>1. /\ switch' = switch /\ switch \in {0, 1} /\ samples' = Append(Tail(samples), switch)
      /\ samples \in Seq({0, 1}) /\ Len(samples) = 4
  BY DEF SampleSwitch, BInv, Samples
<1>2. /\ samples' \in Seq({0, 1}) /\ Len(samples') = 4
      /\ \A i \in 1 .. 3 : samples'[i] = samples[i + 1]
      /\ samples'[4] = switch
  <2>1. LET q == Append(Tail(samples), switch)
        IN  /\ q \in Seq({0, 1}) /\ Len(q) = 4
            /\ \A i \in 1 .. 3 : q[i] = samples[i + 1]
            /\ q[4] = switch
    BY <1>1, Shifted, Zenon
  <2> QED BY <1>1, <2>1, Zenon
<1>3. bounce' = debounced(switch)
  BY DEF SampleSwitch
<1> DEFINE Bounce(c, s, d) == [candidate |-> c, stable |-> s, debounce |-> d]
<1>4. bounce = Bounce(bounce.candidate, bounce.stable, bounce.debounce)
      /\ bounce.debounce \in 0 .. 2
  BY DEF BInv, Counted
<1>5. \A i \in 1 .. 4 : i >= 4 - bounce.debounce => samples[i] = bounce.candidate
  BY DEF BInv, Counted
<1>6. Samples'
  BY <1>1, <1>2, Zenon DEF Samples
<1>7. \A i \in 1 .. 4 : i = 4 \/ (i \in 1 .. 3 /\ i + 1 \in 1 .. 4)
  OBVIOUS
<1>8. CASE switch # bounce.candidate
  <2>1. bounce' = Bounce(switch, bounce.stable, 0)
    BY <1>3, <1>4, <1>8 DEF debounced, candidate
  <2>2. Counted'
    BY <1>2, <2>1 DEF Counted
  <2> QED BY <1>6, <2>1, <2>2 DEF BInv
<1>9. CASE switch = bounce.candidate /\ bounce.debounce < 2
  <2>1. bounce' = Bounce(switch, bounce.stable, bounce.debounce + 1)
    BY <1>3, <1>4, <1>9 DEF debounced
  <2>2. ASSUME NEW i \in 1 .. 4, i >= 4 - (bounce.debounce + 1) PROVE samples'[i] = switch
    <3>1. CASE i = 4
      BY <1>2, <3>1
    <3>2. CASE i # 4
      <4>1. i \in 1 .. 3 /\ i + 1 \in 1 .. 4 /\ i + 1 >= 4 - bounce.debounce
        BY <1>4, <2>2, <3>2
      <4>2. samples[i + 1] = switch
        BY <1>5, <1>9, <4>1
      <4> QED BY <1>2, <4>1, <4>2
    <3> QED BY <3>1, <3>2
  <2>3. bounce.debounce + 1 \in 0 .. 2
    BY <1>4, <1>9
  <2>4. Counted'
    BY <2>1, <2>2, <2>3 DEF Counted
  <2> QED BY <1>6, <2>1, <2>4 DEF BInv
<1>10. CASE switch = bounce.candidate /\ bounce.debounce = 2
  <2>1. bounce' = Bounce(switch, switch, 2)
    BY <1>3, <1>4, <1>10 DEF debounced
  <2>2. \A i \in 1 .. 3 : samples'[i] = switch
    BY <1>2, <1>5, <1>10
  <2>3. \A i \in 1 .. 4 : samples'[i] = switch
    BY <1>2, <1>7, <2>2, Zenon
  <2>4. Counted'
    BY <2>1, <2>3 DEF Counted
  <2> QED BY <1>6, <2>1, <2>3, <2>4 DEF BInv
<1> QED BY <1>4, <1>8, <1>9, <1>10

LEMMA BounceStep ==
  ASSUME BInv, [InputNext]_input_vars
  PROVE  BInv' /\ (bounce'.stable # bounce.stable =>
                      \A i \in 1 .. 4 : samples'[i] = bounce'.stable)
<1>1. CASE SampleSwitch
  BY <1>1, SampleStep
<1>2. CASE Toggle
  BY <1>2 DEF Toggle, BInv, Samples, Counted
<1>3. CASE UNCHANGED <<bounce, samples, switch>>
  BY <1>3 DEF BInv, Samples, Counted
<1>4. CASE \E b \in Buttons : Press(b)
  BY <1>3, <1>4 DEF Press
<1>5. CASE HWI0_IntrHandler \/ sketch_os_on_button_irq \/ Button_IntrHandler
  BY <1>3, <1>5 DEF HWI0_IntrHandler, sketch_os_on_button_irq, Button_IntrHandler
<1>6. CASE ReadPending \/ ClearPending \/ PostButtons \/ TakeEvent
  BY <1>3, <1>6 DEF ReadPending, ClearPending, PostButtons, TakeEvent
<1>7. CASE UNCHANGED input_vars
  BY <1>3, <1>7 DEF input_vars
<1> QED BY <1>1, <1>2, <1>4, <1>5, <1>6, <1>7 DEF InputNext, input_thread_entry

(* No press is lost, and no confirm is sent for a switch that still        *)
(* bounces: the last four samples agree on the value it is sent for.       *)
THEOREM EventsAreTrue == InputSpec => EventsTrue
<1>1. BInv /\ [InputNext]_input_vars => BInv'
  BY BounceStep
<1>2. BInv /\ [InputNext]_input_vars =>
        [bounce'.stable # bounce.stable =>
           \A i \in 1 .. 4 : samples'[i] = bounce'.stable]_input_vars
  BY BounceStep
<1>3. InputSpec => Debounced
  BY BounceInitial, <1>1, <1>2, PTL DEF InputSpec, Debounced
<1> QED BY <1>3, NoPressLost, PTL DEF EventsTrue

-----------------------------------------------------------------------------

Scenes == {"HOME", "ANIMATION", "ROBOT_WALK", "SYSTEM"}
Steps == {"recv", "stop", "seed", "seeded", "poll", "load", "render", "present"}
Labels == {"none", "BLADE", "ROBOT_RIGID", "WALK", "JUMP_OPEN"}
PageTypes == [card : Scenes, label : Labels, cursors : SUBSET (0 .. 2), poses : Nat]

Types ==
  /\ ui \in [at : Steps, job : {"none", "open", "home", "switch"}]
  /\ g_scene \in Scenes /\ g_selected \in 0 .. 2 /\ back \in {0, 1}
  /\ g_page_ui_valid \in [{0, 1} -> BOOLEAN] /\ g_page_cursor \in [{0, 1} -> 0 .. 2]
  /\ g_demo_model \in {"BLADE", "ROBOT_RIGID"} /\ g_robot_motion \in {"WALK", "JUMP_OPEN"}
  /\ g_walk_frame \in 0 .. 15
  /\ pages \in [{0, 1} -> PageTypes]
  /\ g_scene_model \in {"none", "BLADE", "ROBOT_RIGID", "ROBOTSS"}
  /\ ctl \in [model : {"none", "BLADE", "ROBOT_RIGID", "ROBOTSS"}, command : BOOLEAN, stuck : BOOLEAN]

(***************************************************************************)
(* The shadow survives because nobody but the home screen draws while a    *)
(* page is valid: a page is valid on the home screen only, and not while   *)
(* pages are being seeded.                                                 *)
(***************************************************************************)
ValidAtHome ==
  /\ \A p \in {0, 1} : g_page_ui_valid[p] => g_scene = "HOME" /\ ui.at \notin {"seed", "seeded"}
  /\ ui.at = "stop" => /\ ui.job = "open" => g_scene = "HOME"
                       /\ ui.job = "home" => g_scene # "HOME"
                       /\ ui.job = "switch" => g_scene = "ANIMATION"
                       /\ ui.job # "none"
(* The model believed loaded is the one the scene asks for, so a load that  *)
(* replaces the cached model begins with nothing believed loaded.           *)
LoadedIsEntry ==
  g_scene_model # "none" => g_scene_model = Entry /\ ui.at \notin {"seed", "seeded"}

UInv == Types /\ ValidAtHome /\ ShadowTrue /\ LoadedIsEntry /\ CacheTrue

LEMMA UiInitial == UiInit => UInv
BY DEF UiInit, UInv, Types, Scenes, Steps, PageTypes, Labels, ValidAtHome, ShadowTrue,
       LoadedIsEntry, CacheTrue, HomePage, Page

LEMMA PageOfCard ==
  ASSUME NEW card \in Scenes,
         NEW model \in {"BLADE", "ROBOT_RIGID"}, NEW motion \in {"WALK", "JUMP_OPEN"}
  PROVE  CardPage(card, model, motion) \in PageTypes
<1>1. (CASE card = "ANIMATION" -> model [] card = "ROBOT_WALK" -> motion [] OTHER -> "none") \in Labels
  BY DEF Scenes, Labels
<1> QED BY <1>1 DEF CardPage, Page, PageTypes

LEMMA PageOfHome == HomePage \in PageTypes /\ HomePage.card = "HOME"
BY DEF HomePage, Page, PageTypes, Labels, Scenes

LEMMA PosedKeeps ==
  ASSUME Types
  PROVE  /\ Posed \in [{0, 1} -> PageTypes]
         /\ \A p \in {0, 1} : Posed[p].card = pages[p].card /\ Posed[p].cursors = pages[p].cursors
BY DEF Types, Posed, On, PageTypes

(* Events: nothing is drawn yet.                                            *)
LEMMA EventStep ==
  ASSUME UInv, NEW event \in {"UP", "DOWN", "AUX", "CONFIRM"}, handle_event(event)
  PROVE  UInv'
<1> USE DEF UInv, Types, Steps, ValidAtHome, ShadowTrue, LoadedIsEntry, CacheTrue, Shadow, Robot,
            UiAt, UiGoes, Entry
<1>1. CASE MovesCursor(event)
  BY <1>1 DEF handle_event, MovesCursor, update_home_cursor, SK_OS_CARD_COUNT
<1>2. CASE SwitchesMotion(event)
  BY <1>2 DEF handle_event, SwitchesMotion
<1>3. CASE Stops(event)
  BY <1>3 DEF handle_event, Stops
<1>4. CASE NoEvent
  BY <1>4 DEF handle_event, NoEvent
<1> QED BY <1>1, <1>2, <1>3, <1>4 DEF handle_event

(* A change of scene forgets model and shadow before anything is drawn.     *)
LEMMA ChangeStep ==
  ASSUME UInv, open_selected_card \/ return_home \/ SwitchesModel
  PROVE  UInv'
<1> USE DEF UInv, Types, Steps, ValidAtHome, ShadowTrue, LoadedIsEntry, CacheTrue, Shadow, Robot,
            UiAt, UiGoes, scene_stop, forgets
<1>1. CASE open_selected_card
  <2> DEFINE card == Cards[g_selected + 1]
             motion == IF card = "ROBOT_WALK" THEN "WALK" ELSE g_robot_motion
  <2>1. card \in Scenes /\ motion \in {"WALK", "JUMP_OPEN"}
    BY DEF Cards, Scenes
  <2>2. pages' \in [{0, 1} -> PageTypes]
    <3>1. pages' = On(CardPage(card, g_demo_model, motion))
      BY <1>1 DEF open_selected_card
    <3> QED BY <2>1, <3>1, PageOfCard DEF On
  <2>3. g_scene' = card /\ g_robot_motion' = motion
    BY <1>1 DEF open_selected_card
  <2> QED BY <1>1, <2>1, <2>2, <2>3 DEF open_selected_card, no_shadow
<1>2. CASE return_home
  <2>1. pages' \in [{0, 1} -> PageTypes]
    BY <1>2, PageOfHome DEF return_home, On
  <2> QED BY <1>2, <2>1 DEF return_home, Scenes
<1>3. CASE SwitchesModel
  <2>1. g_demo_model' \in {"BLADE", "ROBOT_RIGID"}
    BY <1>3 DEF SwitchesModel
  <2>2. pages' \in [{0, 1} -> PageTypes]
    BY <1>3, <2>1, PageOfCard DEF SwitchesModel, On, Scenes
  <2> QED BY <1>3, <2>1, <2>2 DEF SwitchesModel
<1> QED BY <1>1, <1>2, <1>3

LEMMA SeedStep ==
  ASSUME UInv, SeedsOther \/ Seeded
  PROVE  UInv'
<1> USE DEF UInv, Types, Steps, ValidAtHome, ShadowTrue, LoadedIsEntry, CacheTrue, Shadow, Robot,
            UiAt, UiGoes, present
<1>1. CASE SeedsOther
  <2> DEFINE new == IF g_scene = "HOME" THEN HomePage
                    ELSE CardPage(g_scene, g_demo_model, g_robot_motion)
  <2>1. new \in PageTypes
    BY PageOfHome, PageOfCard
  <2>2. back' \in {0, 1} /\ pages' = [pages EXCEPT ![back'] = new]
    BY <1>1 DEF SeedsOther
  <2>3. pages' \in [{0, 1} -> PageTypes]
    BY <2>1, <2>2
  <2> QED BY <1>1, <2>2, <2>3 DEF SeedsOther
<1>2. CASE Seeded
  <2>1. g_page_ui_valid' \in [{0, 1} -> BOOLEAN] /\ \A p \in {0, 1} : ~g_page_ui_valid'[p]
    BY <1>2 DEF Seeded, no_shadow
  <2>2. g_demo_model' \in {"BLADE", "ROBOT_RIGID"} /\ g_walk_frame' \in 0 .. 15
    BY <1>2 DEF Seeded
  <2> QED BY <1>2, <2>1, <2>2 DEF Seeded
<1> QED BY <1>1, <1>2

(* The home screen draws what its shadow lacks, and then the shadow is true *)
(* of the page; the other cards draw when no page has a shadow.             *)
LEMMA DrawStep ==
  ASSUME UInv, Idles \/ render_home_frame \/ CardStep
  PROVE  UInv'
<1> USE DEF UInv, Types, Steps, ValidAtHome, ShadowTrue, LoadedIsEntry, CacheTrue, Shadow, Robot,
            UiAt, UiGoes, Entry
<1>1. CASE Idles
  BY <1>1 DEF Idles
<1>2. CASE render_home_frame
  <2> DEFINE new == window_cleared(home_drawn)
  <2>1. /\ home_drawn \in PageTypes /\ home_drawn.card = "HOME"
        /\ home_drawn.cursors = {g_selected}
    <3>1. CASE ~g_page_ui_valid[back]
      BY <3>1, PageOfHome DEF home_drawn, PageTypes
    <3>2. CASE g_page_ui_valid[back] /\ g_page_cursor[back] = g_selected
      BY <3>2 DEF home_drawn
    <3>3. CASE g_page_ui_valid[back] /\ g_page_cursor[back] # g_selected
      <4>1. cursor_moved = {g_selected}
        BY <3>3 DEF cursor_moved
      <4> QED BY <3>3, <4>1 DEF home_drawn, PageTypes
    <3> QED BY <3>1, <3>2, <3>3
  <2>2. new \in PageTypes /\ new.card = "HOME" /\ new.cursors = {g_selected}
    BY <2>1 DEF window_cleared, PageTypes
  <2>3. pages' = [pages EXCEPT ![back] = new]
    BY <1>2 DEF render_home_frame, On
  <2>4. pages' \in [{0, 1} -> PageTypes]
    BY <2>2, <2>3
  <2>5. ShadowTrue'
    BY <1>2, <2>2, <2>3 DEF render_home_frame
  <2> QED BY <1>2, <2>4, <2>5 DEF render_home_frame
<1>3. CASE CardStep
  <2>1. pages' \in [{0, 1} -> PageTypes]
    BY <1>3, PageOfCard DEF CardStep, chrome, On
  <2> QED BY <1>3, <2>1 DEF CardStep
<1> QED BY <1>1, <1>2, <1>3

(* Giving up on the home screen takes the shadow of the page back; what     *)
(* else happens is a matter of the cache.                                   *)
LEMMA RenderStep ==
  ASSUME UInv, scene_render_rigid \/ present_wait
  PROVE  UInv'
<1> USE DEF UInv, Types, Steps, ValidAtHome, ShadowTrue, LoadedIsEntry, CacheTrue, Shadow, Robot,
            UiAt, UiGoes, Entry
<1>1. CASE scene_render_rigid
  <2>1. /\ pages' \in [{0, 1} -> PageTypes]
        /\ \A p \in {0, 1} : pages'[p].card = pages[p].card /\ pages'[p].cursors = pages[p].cursors
    BY <1>1, PosedKeeps DEF scene_render_rigid
  <2>2. CASE GivesUp
    BY <1>1, <2>1, <2>2 DEF scene_render_rigid, GivesUp
  <2>3. CASE UiGoes("present", "none") /\ UNCHANGED <<g_scene, g_selected, g_home_dirty, Shadow,
                                                     g_demo_model, Robot, back>>
    BY <1>1, <2>1, <2>3 DEF scene_render_rigid
  <2> QED BY <1>1, <2>2, <2>3 DEF scene_render_rigid
<1>2. CASE present_wait
  BY <1>2 DEF present_wait, present
<1> QED BY <1>1, <1>2

LEMMA LoadStep ==
  ASSUME UInv, scene_load_asset
  PROVE  UInv'
<1> USE DEF UInv, Types, Steps, ValidAtHome, ShadowTrue, LoadedIsEntry, CacheTrue, Shadow, Robot,
            UiAt, UiGoes, Entry
<1>1. CASE loaded_by_entry
  BY <1>1 DEF scene_load_asset
<1>2. CASE ~loaded_by_entry
  <2>1. g_scene_model = "none"
    BY <1>2 DEF loaded_by_entry
  <2>2. Entry \in {"BLADE", "ROBOT_RIGID", "ROBOTSS"}
    OBVIOUS
  <2>3. CASE GivesUp
    <3>1. UiAt("load") /\ UNCHANGED <<pages, g_scene_model>>
      BY <1>2, <2>3 DEF scene_load_asset, GivesUp
    <3>2. \/ UNCHANGED ctl
          \/ \E loaded \in {Entry, "none"} :
               ctl' = [ctl EXCEPT !.model = loaded, !.command = CommandMode(Entry)]
      BY <1>2, <2>3 DEF scene_load_asset, GivesUp
    <3>3. ctl' \in [model : {"none", "BLADE", "ROBOT_RIGID", "ROBOTSS"}, command : BOOLEAN,
                    stuck : BOOLEAN]
      BY <2>2, <3>2, ZenonT(60) DEF CommandMode
    <3>4. Types'
      BY <2>3, <3>1, <3>3 DEF GivesUp
    <3>5. ValidAtHome' /\ ShadowTrue'
      BY <2>3, <3>1 DEF GivesUp
    <3>6. LoadedIsEntry' /\ CacheTrue'
      BY <2>1, <2>3, <3>1 DEF GivesUp
    <3> QED BY <3>4, <3>5, <3>6
  <2>4. CASE /\ g_scene_model' = Entry /\ UiGoes("render", "none")
             /\ ctl' = [ctl EXCEPT !.model = Entry, !.command = CommandMode(Entry)]
             /\ UNCHANGED <<g_scene, g_selected, g_home_dirty, Shadow, g_demo_model, Robot, back>>
    BY <1>2, <2>2, <2>4, ZenonT(60) DEF scene_load_asset, CommandMode
  <2> QED BY <1>2, <2>3, <2>4 DEF scene_load_asset
<1> QED BY <1>1, <1>2

LEMMA WalkStep ==
  ASSUME UInv, robot_walk_step
  PROVE  UInv'
<1> USE DEF UInv, Types, Steps, ValidAtHome, ShadowTrue, LoadedIsEntry, CacheTrue, Shadow, Robot,
            UiAt, UiGoes, Entry
<1>1. /\ pages' \in [{0, 1} -> PageTypes]
      /\ \A p \in {0, 1} : pages'[p].card = pages[p].card /\ pages'[p].cursors = pages[p].cursors
  BY PosedKeeps DEF robot_walk_step
<1>2. g_walk_frame' \in 0 .. 15 /\ g_robot_motion' = g_robot_motion /\ back' \in {0, 1}
  BY DEF robot_walk_step, SK_OS_WALK_FRAMES, present
<1>3. ctl' \in [model : {"none", "BLADE", "ROBOT_RIGID", "ROBOTSS"}, command : BOOLEAN, stuck : BOOLEAN]
      /\ ctl'.model = ctl.model /\ ctl'.command = ctl.command
  BY DEF robot_walk_step
<1> QED BY <1>1, <1>2, <1>3 DEF robot_walk_step, walked

LEMMA UiStable == UInv /\ [ui_thread_entry]_ui_state => UInv'
<1> SUFFICES ASSUME UInv, [ui_thread_entry]_ui_state PROVE UInv'
  OBVIOUS
<1>1. CASE UNCHANGED ui_state
  BY <1>1 DEF ui_state, UInv, Types, ValidAtHome, ShadowTrue, LoadedIsEntry, CacheTrue, Entry
<1>2. CASE ui_thread_entry
  BY <1>2, EventStep, ChangeStep, SeedStep, DrawStep, RenderStep, LoadStep, WalkStep
     DEF ui_thread_entry
<1> QED BY <1>1, <1>2

(* What the thread redraws and what it leaves is right on every page with   *)
(* a valid shadow, whatever failed before (sketch_os.c:264); and RENDER is  *)
(* never given for a model that is not the one in the cache, or in the      *)
(* wrong mode (sketch_os.c:184, 196, 217).                                  *)
THEOREM BeliefsAreTrue == UiSpec => []BeliefsTrue
<1>1. UInv => BeliefsTrue
  BY DEF UInv, BeliefsTrue
<1> QED BY UiInitial, UiStable, <1>1, PTL DEF UiSpec

(* The limbs open outward in every frame of both motions.                   *)
LEMMA PhaseOpens == \A f \in 0 .. 15 : jump_open_phase(f) \in {0, 1, 2}
BY DEF jump_open_phase, SK_OS_WALK_FRAMES

LEMMA NegatedPhase ==
  ASSUME NEW phase \in {0, 1, 2}
  PROVE  Outward(Negated(phase), phase)
<1>1. Negated(0) = 0 /\ Negated(1) = 15 /\ Negated(2) = 14 /\ Negated(15) = 1 /\ Negated(14) = 2
  BY DEF Negated, Turn
<1>2. Outward(0, 0) /\ Outward(15, 1) /\ Outward(14, 2)
  BY <1>1 DEF Outward, Turn
<1> QED BY <1>1, <1>2

\* "The feet never cross" (sketch_os.c:537): in every pose the UI gives the
\* robot, of the two legs and of the two arms, never both roll inward, and the
\* two of a pair roll by the same angle.
THEOREM LimbsOpen == UiSpec => []FeetNeverCross
<1>1. UInv => FeetNeverCross
  <2> SUFFICES ASSUME UInv PROVE FeetNeverCross
    OBVIOUS
  <2> DEFINE phase == jump_open_phase(g_walk_frame)
  <2>1. phase \in {0, 1, 2}
    BY PhaseOpens DEF UInv, Types
  <2>2. Outward(Negated(phase), phase) /\ Outward(0, 0)
    <3>1. Negated(0) = 0
      BY DEF Negated, Turn
    <3> QED BY <2>1, <3>1, NegatedPhase
  <2>3. CASE g_robot_motion = "WALK"
    BY <2>2, <2>3 DEF FeetNeverCross, mesh_roll
  <2>4. CASE g_robot_motion # "WALK"
    BY <2>2, <2>4 DEF FeetNeverCross, mesh_roll
  <2> QED BY <2>3, <2>4
<1> QED BY UiInitial, UiStable, <1>1, PTL DEF UiSpec

(***************************************************************************)
(* What is on display.  A page comes on display by a present only, so the  *)
(* invariant is about the page drawn on: what it holds at each step of a   *)
(* frame, and that seeding brings both pages to the new card before the    *)
(* first of them is judged by it.                                          *)
(***************************************************************************)
Seeding == ui.at \in {"seed", "seeded"}
Framing == ui.at \in {"load", "render", "present"}
Label   == CardPage(g_scene, g_demo_model, g_robot_motion).label
Own(p)  == p = back \/ ui.at # "seed"     \* the page is already the scene's

CardsMatch == \A p \in {0, 1} : Own(p) => pages[p].card = g_scene
OneBox     == \A p \in {0, 1} : \E c \in 0 .. 2 : pages[p].cursors \subseteq {c}
OnePose ==
  /\ \A p \in {0, 1} : /\ pages[p].poses \in {0, 1}
                       /\ Own(p) /\ g_scene = "SYSTEM" => pages[p].poses = 0
  /\ ui.at \in {"load", "render"} => pages[back].poses = 0 /\ g_scene # "SYSTEM"
  /\ ui.at = "present" /\ g_scene # "SYSTEM" => pages[back].poses = 1
Labelled ==
  /\ \A p \in {0, 1} : Own(p) /\ g_scene \in {"HOME", "SYSTEM"} => pages[p].label = "none"
  /\ Framing => pages[back].label = Label
Selected ==
  /\ Framing /\ g_scene = "HOME" => pages[back].cursors = {g_selected}
  /\ g_scene = "HOME" /\ ~Seeding /\ ~g_home_dirty => Shown.cursors = {g_selected}
  /\ Seeding /\ g_scene = "HOME" => ui.job = "home"

ShowInv == CardsMatch /\ OneBox /\ OnePose /\ Labelled /\ Selected

LEMMA LabelOfPage ==
  ASSUME NEW card \in Scenes, NEW model, NEW motion
  PROVE  /\ CardPage(card, model, motion).card = card
         /\ CardPage(card, model, motion).cursors = {}
         /\ CardPage(card, model, motion).poses = 0
         /\ card \in {"HOME", "SYSTEM"} => CardPage(card, model, motion).label = "none"
<1> DEFINE label == CASE card = "ANIMATION" -> model [] card = "ROBOT_WALK" -> motion
                      [] OTHER -> "none"
<1>1. CardPage(card, model, motion) = [card |-> card, label |-> label, cursors |-> {}, poses |-> 0]
  BY DEF CardPage, Page
<1>2. card \in {"HOME", "SYSTEM"} => card # "ANIMATION" /\ card # "ROBOT_WALK"
  OBVIOUS
<1>3. card \in {"HOME", "SYSTEM"} => label = "none"
  BY <1>2, Zenon
<1> HIDE DEF label
<1> QED BY <1>1, <1>3

LEMMA BlankHome == /\ HomePage.card = "HOME" /\ HomePage.label = "none"
                   /\ HomePage.cursors = {} /\ HomePage.poses = 0
BY DEF HomePage, Page

LEMMA ShowInitial == UiInit => ShowInv
<1> SUFFICES ASSUME UiInit PROVE ShowInv
  OBVIOUS
<1>1. \A p \in {0, 1} : pages[p] = HomePage
  BY DEF UiInit
<1>2. ui.at = "recv" /\ g_scene = "HOME" /\ g_home_dirty = TRUE /\ back = 0
  BY DEF UiInit
<1> QED BY <1>1, <1>2, BlankHome
     DEF ShowInv, CardsMatch, OneBox, OnePose, Labelled, Selected, Own, Framing, Seeding

(* An event changes no page; the cursor it moves is not yet on display, and *)
(* the home screen is dirty.                                                *)
LEMMA ShowEvent ==
  ASSUME UInv, ShowInv, NEW event \in {"UP", "DOWN", "AUX", "CONFIRM"}, handle_event(event)
  PROVE  ShowInv'
<1> USE DEF ShowInv, CardsMatch, OneBox, OnePose, Labelled, Selected, Own, Framing, Seeding,
            Shown, Shadow, Robot, UiAt, UiGoes
<1>1. CASE MovesCursor(event)
  BY <1>1 DEF handle_event, MovesCursor, update_home_cursor
<1>2. CASE SwitchesMotion(event)
  BY <1>2 DEF handle_event, SwitchesMotion
<1>3. CASE Stops(event)
  BY <1>3 DEF handle_event, Stops
<1>4. CASE NoEvent
  BY <1>4 DEF handle_event, NoEvent
<1> QED BY <1>1, <1>2, <1>3, <1>4 DEF handle_event

(* A change of scene draws the page it is at; the other page keeps the old  *)
(* card until it is seeded.                                                 *)
LEMMA ShowChange ==
  ASSUME UInv, ShowInv, open_selected_card \/ return_home \/ SwitchesModel
  PROVE  ShowInv'
<1> USE DEF ShowInv, CardsMatch, OneBox, OnePose, Labelled, Selected, Own, Framing, Seeding,
            Shown, Shadow, Robot, UiAt, UiGoes, scene_stop
<1>1. CASE open_selected_card
  <2> DEFINE card == Cards[g_selected + 1]
             motion == IF card = "ROBOT_WALK" THEN "WALK" ELSE g_robot_motion
             new == CardPage(card, g_demo_model, motion)
  <2>1. card \in Scenes \ {"HOME"}
    BY DEF UInv, Types, Cards, Scenes
  <2>2. pages' = On(new) /\ g_scene' = card /\ back' = back
    BY <1>1 DEF open_selected_card
  <2>3. /\ new.card = card /\ new.cursors = {} /\ new.poses = 0
        /\ card = "SYSTEM" => new.label = "none"
    BY <2>1, LabelOfPage
  <2>4. ui'.at = "seed"
    BY <1>1 DEF open_selected_card
  <2> HIDE DEF card, new
  <2>5. \A p \in {0, 1} : pages'[p] = IF p = back THEN new ELSE pages[p]
    BY <2>2 DEF On, UInv, Types
  <2>6. back \in {0, 1}
    BY DEF UInv, Types
  <2>7. CardsMatch' /\ OneBox' /\ Labelled' /\ Selected'
    BY <2>1, <2>2, <2>3, <2>4, <2>5, <2>6
  <2>8. OnePose'
    BY <2>1, <2>2, <2>3, <2>4, <2>5, <2>6
  <2> QED BY <2>7, <2>8
<1>2. CASE return_home
  <2>1. \A p \in {0, 1} : pages'[p] = IF p = back THEN HomePage ELSE pages[p]
    BY <1>2 DEF return_home, On, UInv, Types
  <2>2. g_scene' = "HOME" /\ back' = back /\ back \in {0, 1}
    BY <1>2 DEF return_home, UInv, Types
  <2>3. ui'.at = "seed" /\ ui'.job = "home"
    BY <1>2 DEF return_home
  <2> QED BY <2>1, <2>2, <2>3, BlankHome
<1>3. CASE SwitchesModel
  <2> DEFINE new == CardPage("ANIMATION", g_demo_model', "WALK")
  <2>1. \A p \in {0, 1} : pages'[p] = IF p = back THEN new ELSE pages[p]
    BY <1>3 DEF SwitchesModel, On, UInv, Types
  <2>2. new.card = "ANIMATION" /\ new.cursors = {} /\ new.poses = 0
    BY LabelOfPage DEF Scenes
  <2> HIDE DEF new
  <2>3. g_scene = "ANIMATION" /\ g_scene' = g_scene /\ back' = back /\ back \in {0, 1}
    BY <1>3 DEF SwitchesModel, UInv, Types, ValidAtHome
  <2>4. ui'.at = "seeded" /\ ui.at = "stop"
    BY <1>3 DEF SwitchesModel
  <2> QED BY <2>1, <2>2, <2>3, <2>4
<1> QED BY <1>1, <1>2, <1>3

(* The second page is seeded before it is judged, and back on the home      *)
(* screen everything is dirty.                                              *)
LEMMA ShowSeed ==
  ASSUME UInv, ShowInv, SeedsOther \/ Seeded
  PROVE  ShowInv'
<1> USE DEF ShowInv, CardsMatch, OneBox, OnePose, Labelled, Selected, Own, Framing, Seeding,
            Shown, Shadow, Robot, UiAt, UiGoes, present
<1>1. CASE SeedsOther
  <2> DEFINE new == IF g_scene = "HOME" THEN HomePage
                    ELSE CardPage(g_scene, g_demo_model, g_robot_motion)
  <2>1. /\ new.card = g_scene /\ new.cursors = {} /\ new.poses = 0
        /\ g_scene \in {"HOME", "SYSTEM"} => new.label = "none"
    BY BlankHome, LabelOfPage DEF UInv, Types
  <2>2. pages' = [pages EXCEPT ![back'] = new]
    BY <1>1 DEF SeedsOther
  <2> HIDE DEF new
  <2>3. back \in {0, 1} /\ back' = 1 - back /\ back' \in {0, 1}
    BY <1>1 DEF SeedsOther, UInv, Types
  <2>4. \A p \in {0, 1} : pages'[p] = IF p = back THEN pages[p] ELSE new
    BY <2>2, <2>3 DEF UInv, Types
  <2>5. g_scene' = g_scene /\ ui'.at = "seeded" /\ ui'.job = ui.job /\ ui.at = "seed"
    BY <1>1 DEF SeedsOther
  <2> QED BY <2>1, <2>3, <2>4, <2>5
<1>2. CASE Seeded
  <2>1. back \in {0, 1} /\ back' = 1 - back /\ back' \in {0, 1}
    BY <1>2 DEF Seeded, UInv, Types
  <2>2. /\ UNCHANGED <<pages, g_scene, g_selected>>
        /\ ui'.at = "poll" /\ ui.at = "seeded"
        /\ ui.job = "home" => g_home_dirty'
    BY <1>2 DEF Seeded
  <2> QED BY <2>1, <2>2
<1> QED BY <1>1, <1>2

(* A frame begins: one box on the home screen, the label of today on a      *)
(* card, the window clear.                                                  *)
LEMMA ShowDraw ==
  ASSUME UInv, ShowInv, Idles \/ render_home_frame \/ CardStep
  PROVE  ShowInv'
<1> USE DEF ShowInv, CardsMatch, OneBox, OnePose, Labelled, Selected, Own, Framing, Seeding,
            Shown, Shadow, Robot, UiAt, UiGoes
<1>1. CASE Idles
  BY <1>1 DEF Idles
<1>2. CASE render_home_frame
  <2> DEFINE new == window_cleared(home_drawn)
  <2>1. g_scene = "HOME" /\ g_scene' = "HOME" /\ back' = back /\ back \in {0, 1}
        /\ ui.at = "poll" /\ ui'.at = "load" /\ g_selected' = g_selected /\ g_selected \in 0 .. 2
        /\ g_home_dirty' = g_home_dirty
    BY <1>2 DEF render_home_frame, UInv, Types
  <2>2. pages[back] \in PageTypes
    BY DEF UInv, Types
  <2>3. /\ home_drawn \in PageTypes /\ home_drawn.card = "HOME" /\ home_drawn.label = "none"
        /\ home_drawn.cursors = {g_selected}
    <3>1. CASE ~g_page_ui_valid[back]
      BY <2>1, <3>1, PageOfHome, BlankHome DEF home_drawn, PageTypes
    <3>2. CASE g_page_ui_valid[back] /\ g_page_cursor[back] = g_selected
      BY <2>1, <2>2, <3>2 DEF home_drawn, UInv, ShadowTrue
    <3>3. CASE g_page_ui_valid[back] /\ g_page_cursor[back] # g_selected
      <4>1. cursor_moved = {g_selected}
        BY <2>1, <3>3 DEF cursor_moved, UInv, ShadowTrue
      <4> QED BY <2>1, <2>2, <3>3, <4>1 DEF home_drawn, PageTypes
    <3> QED BY <3>1, <3>2, <3>3
  <2>4. /\ new.card = "HOME" /\ new.cursors = {g_selected} /\ new.label = "none"
        /\ new.poses = 0
    BY <2>3 DEF window_cleared, PageTypes
  <2> HIDE DEF new
  <2>5. \A p \in {0, 1} : pages'[p] = IF p = back THEN new ELSE pages[p]
    BY <1>2 DEF render_home_frame, On, UInv, Types, new
  <2>6. Label' = "none"
    BY <2>1, LabelOfPage DEF Label, Scenes
  <2>7. CardsMatch' /\ OneBox' /\ Labelled'
    BY <2>1, <2>4, <2>5, <2>6
  <2>8. OnePose'
    BY <2>1, <2>4, <2>5
  <2>9. Selected'
    BY <2>1, <2>4, <2>5
  <2> QED BY <2>7, <2>8, <2>9
<1>3. CASE CardStep
  <2>1. /\ UNCHANGED <<g_scene, g_selected, g_home_dirty, g_demo_model, g_robot_motion, back>>
        /\ back \in {0, 1} /\ ui.at = "poll" /\ g_scene # "HOME" /\ g_scene \in Scenes
    BY <1>3 DEF CardStep, UInv, Types
  <2>2. CASE g_scene = "SYSTEM"
    <3>1. ui'.at = "present" /\ pages' = pages
      BY <1>3, <2>2 DEF CardStep
    <3>2. Label' = "none"
      BY <2>1, <2>2, LabelOfPage DEF Label
    <3> QED BY <2>1, <2>2, <3>1, <3>2
  <2>3. CASE g_scene # "SYSTEM"
    <3> DEFINE new == CardPage(g_scene, g_demo_model, g_robot_motion)
    <3>1. new.card = g_scene /\ new.cursors = {} /\ new.poses = 0
      BY <2>1, LabelOfPage
    <3>2. new.label = Label'
      BY <2>1 DEF Label
    <3>3. \A p \in {0, 1} : pages'[p] = IF p = back THEN new ELSE pages[p]
      BY <1>3, <2>3 DEF CardStep, chrome, On, UInv, Types
    <3>4. ui'.at = "load"
      BY <1>3, <2>3 DEF CardStep
    <3> HIDE DEF new
    <3>5. CardsMatch' /\ OneBox' /\ Labelled' /\ Selected'
      BY <2>1, <2>3, <3>1, <3>2, <3>3, <3>4
    <3>6. OnePose'
      BY <2>1, <2>3, <3>1, <3>3, <3>4
    <3> QED BY <3>5, <3>6
  <2> QED BY <2>2, <2>3
<1> QED BY <1>1, <1>2, <1>3

(* One pose on the page drawn on, and nothing else about it.                *)
LEMMA PosedOnce ==
  ASSUME UInv
  PROVE  \A p \in {0, 1} :
           /\ Posed[p].card = pages[p].card /\ Posed[p].cursors = pages[p].cursors
           /\ Posed[p].label = pages[p].label
           /\ Posed[p].poses = IF p = back THEN pages[p].poses + 1 ELSE pages[p].poses
BY DEF UInv, Types, Posed, On, PageTypes

(* The rest of a frame: loading keeps the pages, rendering adds a pose to a *)
(* clear window, and the page that is shown is complete.                    *)
LEMMA ShowLoad ==
  ASSUME UInv, ShowInv, scene_load_asset
  PROVE  ShowInv'
<1>1. /\ UNCHANGED <<pages, g_scene, g_selected, g_home_dirty, g_demo_model, g_robot_motion, back>>
      /\ ui.at = "load" /\ ui'.at \in {"render", "recv"}
  BY DEF scene_load_asset, GivesUp, Robot, UiAt, UiGoes
<1>2. Label' = Label
  BY <1>1 DEF Label
<1> QED BY <1>1, <1>2 DEF ShowInv, CardsMatch, OneBox, OnePose, Labelled, Selected, Own, Framing,
                         Seeding, Shown

LEMMA ShowRender ==
  ASSUME UInv, ShowInv, scene_render_rigid
  PROVE  ShowInv'
<1>1. /\ UNCHANGED <<g_scene, g_selected, g_home_dirty, g_demo_model, g_robot_motion, back>>
      /\ back \in {0, 1} /\ ui.at = "render"
      /\ \/ ui'.at = "present" /\ pages' = Posed
         \/ ui'.at = "recv" /\ pages' \in {pages, Posed}
  BY DEF scene_render_rigid, GivesUp, Robot, UiAt, UiGoes, UInv, Types
<1>2. Label' = Label
  BY <1>1 DEF Label
<1>3. \A p \in {0, 1} : pages'[p].card = pages[p].card /\ pages'[p].cursors = pages[p].cursors
                        /\ pages'[p].label = pages[p].label
  BY <1>1, PosedOnce
<1>4. \A p \in {0, 1} : p # back => pages'[p].poses = pages[p].poses
  BY <1>1, PosedOnce
<1>5. pages'[back].poses \in {0, 1} /\ (ui'.at = "present" => pages'[back].poses = 1)
      /\ g_scene # "SYSTEM"
  BY <1>1, PosedOnce DEF ShowInv, OnePose
<1>6. CardsMatch' /\ OneBox' /\ Labelled' /\ Selected'
  BY <1>1, <1>2, <1>3 DEF ShowInv, CardsMatch, OneBox, Labelled, Selected, Own, Framing, Seeding,
                         Shown
<1>7. OnePose'
  BY <1>1, <1>4, <1>5 DEF ShowInv, OnePose, Own
<1> QED BY <1>6, <1>7 DEF ShowInv

LEMMA ShowPresent ==
  ASSUME UInv, ShowInv, present_wait
  PROVE  ShowInv'
<1>1. /\ UNCHANGED <<pages, g_scene, g_selected>> /\ ui.at = "present" /\ ui'.at = "recv"
      /\ g_home_dirty' = (g_home_dirty /\ g_scene # "HOME")
      /\ back \in {0, 1} /\ back' = 1 - back /\ back' \in {0, 1} /\ 1 - back' = back
  BY DEF present_wait, present, UiAt, UiGoes, UInv, Types
<1> QED BY <1>1 DEF ShowInv, CardsMatch, OneBox, OnePose, Labelled, Selected, Own, Framing,
                    Seeding, Shown

LEMMA ShowWalk ==
  ASSUME UInv, ShowInv, robot_walk_step
  PROVE  ShowInv'
<1>1. /\ UNCHANGED <<g_scene, g_selected, g_home_dirty>> /\ g_scene = "ROBOT_WALK"
      /\ back \in {0, 1} /\ back' \in {0, 1} /\ ui.at = "render" /\ ui'.at = "recv"
      /\ pages' \in {pages, Posed}
  BY DEF robot_walk_step, walked, present, UiAt, UiGoes, UInv, Types
<1>2. \A p \in {0, 1} : pages'[p].card = pages[p].card /\ pages'[p].cursors = pages[p].cursors
                        /\ pages'[p].label = pages[p].label
  BY <1>1, PosedOnce
<1>3. \A p \in {0, 1} : pages'[p].poses \in {0, 1}
  <2>1. pages[back].poses = 0
    BY <1>1 DEF ShowInv, OnePose
  <2>2. \A p \in {0, 1} : pages[p].poses \in {0, 1}
    BY DEF ShowInv, OnePose
  <2>3. \A p \in {0, 1} : Posed[p].poses \in {0, 1}
    BY <1>1, <2>1, <2>2, PosedOnce
  <2> QED BY <1>1, <2>2, <2>3
<1> QED BY <1>1, <1>2, <1>3 DEF ShowInv, CardsMatch, OneBox, OnePose, Labelled, Selected, Own,
                               Framing, Seeding, Shown

LEMMA ShowStable == UInv /\ ShowInv /\ [ui_thread_entry]_ui_state => ShowInv'
<1> SUFFICES ASSUME UInv, ShowInv, [ui_thread_entry]_ui_state PROVE ShowInv'
  OBVIOUS
<1>1. CASE UNCHANGED ui_state
  BY <1>1 DEF ui_state, ShowInv, CardsMatch, OneBox, OnePose, Labelled, Selected, Own, Framing,
              Seeding, Shown, Label
<1>2. CASE ui_thread_entry
  BY <1>2, ShowEvent, ShowChange, ShowSeed, ShowDraw, ShowLoad, ShowRender, ShowPresent, ShowWalk
     DEF ui_thread_entry
<1> QED BY <1>1, <1>2

LEMMA ShowInvariance == UiSpec => [](UInv /\ ShowInv)
<1>1. UInv /\ ShowInv /\ [ui_thread_entry]_ui_state => (UInv /\ ShowInv)'
  BY UiStable, ShowStable
<1> QED BY UiInitial, ShowInitial, <1>1, PTL DEF UiSpec

LEMMA OneAtMost ==
  ASSUME NEW S, NEW c, S \subseteq {c}
  PROVE  Cardinality(S) <= 1
<1>1. S = {} \/ S = {c}
  OBVIOUS
<1> QED BY <1>1, FS_EmptySet, FS_Singleton

(* Whatever is pressed and whatever fails, the page on display is of the    *)
(* card the thread is in (or is being replaced), with one box and one pose, *)
(* and a selection not on display is going to be drawn.                     *)
THEOREM ShownIsTrue == UiSpec => []ShownTrue
<1>1. UInv /\ ShowInv /\ FeetNeverCross => ShownTrue
  <2> SUFFICES ASSUME UInv, ShowInv, FeetNeverCross PROVE ShownTrue
    OBVIOUS
  <2>1. back \in {0, 1} /\ 1 - back \in {0, 1} /\ 1 - back # back
    BY DEF UInv, Types
  <2>2. Cardinality(Shown.cursors) <= 1
    <3>1. PICK c \in 0 .. 2 : pages[1 - back].cursors \subseteq {c}
      BY <2>1 DEF ShowInv, OneBox
    <3> QED BY <3>1, OneAtMost DEF Shown
  <2>3. Shown.poses <= 1
    <3>1. pages[1 - back].poses \in {0, 1}
      BY <2>1 DEF ShowInv, OnePose
    <3> QED BY <3>1 DEF Shown
  <2>4. ~UiAt("seed") => Shown.card = g_scene
    BY <2>1 DEF ShowInv, CardsMatch, Own, Shown, UiAt
  <2>5. DirtyOrShown
    BY DEF ShowInv, Selected, Seeding, DirtyOrShown, UiAt
  <2> QED BY <2>2, <2>3, <2>4, <2>5 DEF ShownTrue, FrontIsScene
<1> QED BY <1>1, ShowInvariance, LimbsOpen, PTL

(***************************************************************************)
(* From frame to frame.  The page that comes on display is the one drawn   *)
(* on, complete; the angles of the next frame are a step away.             *)
(***************************************************************************)
LEMMA ShowsModel ==
  ASSUME UInv, ShowInv, [ui_thread_entry]_ui_state,
         back' # back, ui.at \in {"render", "present"}
  PROVE  Shows(Shown')
<1>1. back \in {0, 1} /\ pages[back] \in PageTypes
  BY DEF UInv, Types
<1>2. present_wait \/ robot_walk_step
  <2>1. ui_thread_entry
    BY DEF ui_state
  <2>2. ASSUME NEW event, handle_event(event) PROVE FALSE
    BY <2>2 DEF handle_event, UiAt
  <2>3. ~open_selected_card /\ ~return_home /\ ~SwitchesModel /\ ~SeedsOther /\ ~Seeded
    BY DEF open_selected_card, return_home, SwitchesModel, scene_stop, SeedsOther, Seeded, UiAt
  <2>4. ~Idles /\ ~render_home_frame /\ ~CardStep /\ ~scene_load_asset
    BY DEF Idles, render_home_frame, CardStep, scene_load_asset, UiAt
  <2>5. ~scene_render_rigid
    BY DEF scene_render_rigid, GivesUp
  <2> QED BY <2>1, <2>2, <2>3, <2>4, <2>5 DEF ui_thread_entry
<1>3. back' = 1 - back
  <2>1. CASE present_wait
    BY <2>1 DEF present_wait, present
  <2>2. CASE robot_walk_step
    BY <2>2 DEF robot_walk_step, present
  <2> QED BY <1>2, <2>1, <2>2
<1>4. Shown' = pages'[back]
  BY <1>1, <1>3 DEF Shown
<1>5. CASE present_wait
  <2>1. ui.at = "present" /\ pages' = pages /\ UNCHANGED <<g_scene, g_demo_model, Robot>>
    BY <1>5 DEF present_wait, UiAt
  <2>2. pages[back].label = Label
    BY <2>1 DEF ShowInv, Labelled, Framing
  <2>3. pages[back].poses = IF g_scene = "SYSTEM" THEN 0 ELSE 1
    BY <1>1, <2>1 DEF ShowInv, OnePose, Own
  <2> QED BY <1>4, <2>1, <2>2, <2>3 DEF Shows, Label
<1>6. CASE robot_walk_step
  <2>1. /\ ui.at = "render" /\ g_scene = "ROBOT_WALK" /\ pages' = Posed
    BY <1>6, <1>1 DEF robot_walk_step, UiAt
  <2>2. pages[back].label = Label
    BY <2>1 DEF ShowInv, Labelled, Framing
  <2>3. pages[back].poses = 0
    BY <2>1 DEF ShowInv, OnePose
  <2>4. Posed[back].poses = 1 /\ Posed[back].label = pages[back].label
    BY <1>1, <2>3, PosedOnce
  <2> QED BY <1>4, <2>1, <2>2, <2>4 DEF Shows, Label
<1> QED BY <1>2, <1>5, <1>6

(* The tables of the two motions.                                           *)
LEMMA WalkTable ==
  ASSUME NEW f \in Nat
  PROVE  LET g == f % 16 IN
         /\ g \in {0, 8} => walk_phase(f) = 0
         /\ g \in {1, 7} => walk_phase(f) = 1
         /\ g \in 2 .. 6 => walk_phase(f) = 2
         /\ g \in {9, 15} => walk_phase(f) = 15
         /\ g \in 10 .. 14 => walk_phase(f) = 14
<1> DEFINE g == f % 16
<1>1. walk_phase(f) = CASE g \in {0, 8} -> 0 [] g \in {1, 7} -> 1 [] g \in 2 .. 6 -> 2
                        [] g \in {9, 15} -> 15 [] OTHER -> 14
  BY Zenon DEF walk_phase, SK_OS_WALK_FRAMES
<1>2. g \in 0 .. 15
  OBVIOUS
<1> HIDE DEF g
<1>3. /\ g \in {0, 8} => ~(g \in {1, 7}) /\ ~(g \in 2 .. 6) /\ ~(g \in {9, 15})
      /\ g \in {1, 7} => ~(g \in {0, 8}) /\ ~(g \in 2 .. 6) /\ ~(g \in {9, 15})
      /\ g \in 2 .. 6 => ~(g \in {0, 8}) /\ ~(g \in {1, 7}) /\ ~(g \in {9, 15})
      /\ g \in {9, 15} => ~(g \in {0, 8}) /\ ~(g \in {1, 7}) /\ ~(g \in 2 .. 6)
      /\ g \in 10 .. 14 => ~(g \in {0, 8}) /\ ~(g \in {1, 7}) /\ ~(g \in 2 .. 6)
                           /\ ~(g \in {9, 15})
  BY <1>2
<1>4. /\ g \in {0, 8} => walk_phase(f) = 0
      /\ g \in {1, 7} => walk_phase(f) = 1
      /\ g \in 2 .. 6 => walk_phase(f) = 2
      /\ g \in {9, 15} => walk_phase(f) = 15
      /\ g \in 10 .. 14 => walk_phase(f) = 14
  BY <1>1, <1>3, Zenon
<1> QED BY <1>4 DEF g

LEMMA JumpTable ==
  ASSUME NEW f \in 0 .. 15
  PROVE  /\ f \in {0, 6, 12} => jump_open_phase(f) = 0
         /\ f \in {1, 5, 7, 11, 13, 15} => jump_open_phase(f) = 1
         /\ f \in {2, 3, 4, 8, 9, 10, 14} => jump_open_phase(f) = 2
<1>1. f % 16 = f
  OBVIOUS
<1>2. jump_open_phase(f) = CASE f \in {0, 6, 12} -> 0 [] f \in {1, 5, 7, 11, 13, 15} -> 1
                             [] OTHER -> 2
  BY <1>1, Zenon DEF jump_open_phase, SK_OS_WALK_FRAMES
<1>3. /\ f \in {0, 6, 12} => ~(f \in {1, 5, 7, 11, 13, 15})
      /\ f \in {1, 5, 7, 11, 13, 15} => ~(f \in {0, 6, 12})
      /\ f \in {2, 3, 4, 8, 9, 10, 14} => ~(f \in {0, 6, 12}) /\ ~(f \in {1, 5, 7, 11, 13, 15})
  OBVIOUS
<1> QED BY <1>2, <1>3, Zenon

LEMMA WalkNear ==
  ASSUME NEW f \in Nat, NEW n \in Nat, n % 16 = (f + 1) % 16
  PROVE  Near(walk_phase(n), walk_phase(f))
<1> DEFINE g == f % 16
           h == n % 16
<1>1. g \in 0 .. 15 /\ h = IF g = 15 THEN 0 ELSE g + 1
  OBVIOUS
<1>2. /\ g \in {0, 8} => walk_phase(f) = 0
      /\ g \in {1, 7} => walk_phase(f) = 1
      /\ g \in 2 .. 6 => walk_phase(f) = 2
      /\ g \in {9, 15} => walk_phase(f) = 15
      /\ g \in 10 .. 14 => walk_phase(f) = 14
  BY WalkTable
<1>3. /\ h \in {0, 8} => walk_phase(n) = 0
      /\ h \in {1, 7} => walk_phase(n) = 1
      /\ h \in 2 .. 6 => walk_phase(n) = 2
      /\ h \in {9, 15} => walk_phase(n) = 15
      /\ h \in 10 .. 14 => walk_phase(n) = 14
  BY WalkTable
<1> HIDE DEF g, h
<1>4. \/ walk_phase(f) = 0 /\ walk_phase(n) = 1
      \/ walk_phase(f) = 1 /\ walk_phase(n) = 2
      \/ walk_phase(f) = 2 /\ walk_phase(n) = 2
      \/ walk_phase(f) = 2 /\ walk_phase(n) = 1
      \/ walk_phase(f) = 1 /\ walk_phase(n) = 0
      \/ walk_phase(f) = 0 /\ walk_phase(n) = 15
      \/ walk_phase(f) = 15 /\ walk_phase(n) = 14
      \/ walk_phase(f) = 14 /\ walk_phase(n) = 14
      \/ walk_phase(f) = 14 /\ walk_phase(n) = 15
      \/ walk_phase(f) = 15 /\ walk_phase(n) = 0
  BY <1>1, <1>2, <1>3
<1> QED BY <1>4 DEF Near, Turn

LEMMA JumpNear ==
  ASSUME NEW f \in 0 .. 15
  PROVE  LET n == (f + 1) % 16 IN
         /\ Near(jump_open_phase(n), jump_open_phase(f))
         /\ Near(Negated(jump_open_phase(n)), Negated(jump_open_phase(f)))
<1> DEFINE n == (f + 1) % 16
<1>1. n \in 0 .. 15 /\ n = IF f = 15 THEN 0 ELSE f + 1
  OBVIOUS
<1> HIDE DEF n
<1>2. /\ f \in {0, 6, 12} => jump_open_phase(f) = 0
      /\ f \in {1, 5, 7, 11, 13, 15} => jump_open_phase(f) = 1
      /\ f \in {2, 3, 4, 8, 9, 10, 14} => jump_open_phase(f) = 2
  BY JumpTable
<1>3. /\ n \in {0, 6, 12} => jump_open_phase(n) = 0
      /\ n \in {1, 5, 7, 11, 13, 15} => jump_open_phase(n) = 1
      /\ n \in {2, 3, 4, 8, 9, 10, 14} => jump_open_phase(n) = 2
  BY <1>1, JumpTable
<1>4. \/ jump_open_phase(f) = 0 /\ jump_open_phase(n) = 1
      \/ jump_open_phase(f) = 1 /\ jump_open_phase(n) \in {0, 2}
      \/ jump_open_phase(f) = 2 /\ jump_open_phase(n) \in {1, 2}
  BY <1>1, <1>2, <1>3
<1>5. Negated(0) = 0 /\ Negated(1) = 15 /\ Negated(2) = 14
  BY DEF Negated, Turn
<1>6. /\ Near(1, 0) /\ Near(0, 1) /\ Near(2, 1) /\ Near(1, 2) /\ Near(2, 2)
      /\ Near(15, 0) /\ Near(0, 15) /\ Near(14, 15) /\ Near(15, 14) /\ Near(14, 14)
  BY DEF Near, Turn
<1>7. Near(jump_open_phase(n), jump_open_phase(f))
  BY <1>4, <1>6
<1>8. Near(Negated(jump_open_phase(n)), Negated(jump_open_phase(f)))
  BY <1>4, <1>5, <1>6
<1> QED BY <1>7, <1>8 DEF n

LEMMA TurnsOneStep ==
  ASSUME UInv, [ui_thread_entry]_ui_state, g_walk_frame' # g_walk_frame, UiAt("render")
  PROVE  \A i \in 1 .. 5 : Near(mesh_pitch'[i], mesh_pitch[i]) /\ Near(mesh_roll'[i], mesh_roll[i])
<1> DEFINE f == g_walk_frame
           n == (f + 1) % 16
<1>1. f \in 0 .. 15 /\ g_robot_motion \in {"WALK", "JUMP_OPEN"}
  BY DEF UInv, Types
<1>2. g_walk_frame' = n /\ g_robot_motion' = g_robot_motion
  <2>1. ui_thread_entry
    BY DEF ui_state
  <2>2. ASSUME NEW event, handle_event(event) PROVE FALSE
    BY <2>2 DEF handle_event, UiAt
  <2>3. ~open_selected_card /\ ~return_home /\ ~SwitchesModel /\ ~SeedsOther /\ ~Seeded
    BY DEF open_selected_card, return_home, SwitchesModel, scene_stop, SeedsOther, Seeded, UiAt
  <2>4. ~Idles /\ ~render_home_frame /\ ~CardStep /\ ~scene_load_asset /\ ~present_wait
    BY DEF Idles, render_home_frame, CardStep, scene_load_asset, present_wait, UiAt
  <2>5. ~scene_render_rigid
    BY DEF scene_render_rigid, GivesUp, Robot
  <2>6. robot_walk_step
    BY <2>1, <2>2, <2>3, <2>4, <2>5 DEF ui_thread_entry
  <2> QED BY <2>6 DEF robot_walk_step, Robot, SK_OS_WALK_FRAMES
<1>3. n \in 0 .. 15 /\ n % 16 = (f + 1) % 16 /\ (n + 8) % 16 = ((f + 8) + 1) % 16
  BY <1>1
<1>4. Near(walk_phase(n), walk_phase(f)) /\ Near(walk_phase(n + 8), walk_phase(f + 8))
  BY <1>1, <1>3, WalkNear
<1>5. /\ Near(jump_open_phase(n), jump_open_phase(f))
      /\ Near(Negated(jump_open_phase(n)), Negated(jump_open_phase(f)))
  BY <1>1, JumpNear
<1>6. Near(0, 0)
  BY DEF Near, Turn
<1>7. /\ mesh_pitch = <<walk_phase(f), walk_phase(f + 8), walk_phase(f + 8), walk_phase(f), 0>>
      /\ mesh_pitch' = <<walk_phase(n), walk_phase(n + 8), walk_phase(n + 8), walk_phase(n), 0>>
  BY <1>2, Zenon DEF mesh_pitch
<1>8. CASE g_robot_motion = "WALK"
  <2>1. mesh_roll = <<0, 0, 0, 0, 0>> /\ mesh_roll' = <<0, 0, 0, 0, 0>>
    BY <1>2, <1>8 DEF mesh_roll
  <2> HIDE DEF n, f
  <2> QED BY <1>4, <1>6, <1>7, <2>1
<1>9. CASE g_robot_motion # "WALK"
  <2>1. /\ mesh_roll = <<Negated(jump_open_phase(f)), jump_open_phase(f),
                         Negated(jump_open_phase(f)), jump_open_phase(f), 0>>
        /\ mesh_roll' = <<Negated(jump_open_phase(n)), jump_open_phase(n),
                          Negated(jump_open_phase(n)), jump_open_phase(n), 0>>
    BY <1>2, <1>9, Zenon DEF mesh_roll
  <2> HIDE DEF n, f
  <2> QED BY <1>4, <1>5, <1>6, <1>7, <2>1
<1> QED BY <1>8, <1>9

(* Each page that comes on display shows the card's present label and one   *)
(* model, and no limb turns by more than a step from one frame to the next, *)
(* over the end of the cycle too.                                           *)
THEOREM StepsAreShown == UiSpec => StepsShown
<1>1. UInv /\ ShowInv /\ [ui_thread_entry]_ui_state =>
        [back' # back /\ ui.at \in {"render", "present"} => Shows(Shown')]_ui_state
  BY ShowsModel
<1>2. UInv /\ ShowInv /\ [ui_thread_entry]_ui_state =>
        [g_walk_frame' # g_walk_frame /\ UiAt("render") =>
           \A i \in 1 .. 5 : Near(mesh_pitch'[i], mesh_pitch[i])
                             /\ Near(mesh_roll'[i], mesh_roll[i])]_ui_state
  BY TurnsOneStep
<1>3. UiSpec => StepsShowModel
  BY <1>1, ShowInvariance, PTL DEF UiSpec, StepsShowModel
<1>4. UiSpec => StepsSmooth
  BY <1>2, ShowInvariance, PTL DEF UiSpec, StepsSmooth
<1> QED BY <1>3, <1>4 DEF StepsShown
=============================================================================
