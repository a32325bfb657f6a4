-------------------------------- MODULE SkUi --------------------------------
(* The UI thread of sk_os above its bus accesses (sketch_os.c): the cards,  *)
(* what it draws on which page, the shadow of the two pages by which the    *)
(* home screen is redrawn in parts, the model it believes loaded, and the   *)
(* poses of the walking robot.  Whether a period has passed and whether a   *)
(* load or a render fails is open.                                          *)
EXTENDS Naturals, Sequences, FiniteSets

VARIABLES ui,             \* the step the thread is at, and what it is for
          g_scene, g_selected, g_home_dirty,
          g_page_ui_valid, g_page_cursor,
          g_demo_model, g_robot_motion, g_walk_frame,
          g_scene_model,  \* g_scene_model_loaded with _entry, or "none"
          back,           \* the page drawn on: PAGE_STATUS
          pages,          \* what is on each page
          ctl             \* the Scene controller: model in its cache, mode, stuck
ui_state == <<ui, g_scene, g_selected, g_home_dirty, g_page_ui_valid, g_page_cursor,
              g_demo_model, g_robot_motion, g_walk_frame, g_scene_model, back, pages, ctl>>

SK_OS_CARD_COUNT == 3
Cards == <<"ANIMATION", "ROBOT_WALK", "SYSTEM">>
Models == {"BLADE", "ROBOT_RIGID"}
Entry == IF g_scene = "ROBOT_WALK" THEN "ROBOTSS"
         ELSE IF g_scene = "ANIMATION" THEN g_demo_model ELSE "BLADE"
CommandMode(entry) == entry = "ROBOTSS"

(* A page: the card it was cleared for, the label on it, the boxes around   *)
(* cards of the home screen, the models drawn since its window was cleared. *)
Page(card, label) == [card |-> card, label |-> label, cursors |-> {}, poses |-> 0]
HomePage == Page("HOME", "none")
CardPage(card, model, motion) ==
  Page(card, CASE card = "ANIMATION" -> model [] card = "ROBOT_WALK" -> motion [] OTHER -> "none")
On(p) == [pages EXCEPT ![back] = p]
Shown == pages[1 - back]

UiInit ==
  /\ ui = [at |-> "recv", job |-> "none"]
  /\ g_scene = "HOME" /\ g_selected = 0 /\ g_home_dirty = TRUE
  /\ g_page_ui_valid = [p \in {0, 1} |-> FALSE] /\ g_page_cursor = [p \in {0, 1} |-> 0]
  /\ g_demo_model = "BLADE" /\ g_robot_motion = "WALK" /\ g_walk_frame = 0
  /\ g_scene_model = "none" /\ back = 0 /\ pages = [p \in {0, 1} |-> HomePage]
  /\ ctl = [model |-> "none", command |-> FALSE, stuck |-> FALSE]

UiAt(place) == ui.at = place
UiGoes(place, job) == ui' = [at |-> place, job |-> job]
Shadow == <<g_page_ui_valid, g_page_cursor>>
Robot == <<g_robot_motion, g_walk_frame>>

(* The thread gets no answer from SketchBook while the controller is stuck  *)
(* with BUSY set: any drawing waits for ever.                               *)
Draws == ~ctl.stuck
present == back' = 1 - back

-----------------------------------------------------------------------------
(* handle_event.  An event without a meaning on its card is as none at all: *)
(* NoEvent, which is the timeout of rt_mq_recv.  UP and DOWN turn the demo  *)
(* model; its angles are left out.                                          *)
update_home_cursor(next) == g_selected' = next /\ g_home_dirty' = TRUE

MovesCursor(event) ==
  /\ g_scene = "HOME"
  /\ \/ event = "UP" /\ g_selected > 0 /\ update_home_cursor(g_selected - 1)
     \/ event = "DOWN" /\ g_selected + 1 < SK_OS_CARD_COUNT /\ update_home_cursor(g_selected + 1)
  /\ UiGoes("poll", "none")
  /\ UNCHANGED <<g_scene, Shadow, g_demo_model, Robot, g_scene_model, back, pages, ctl>>
SwitchesMotion(event) ==
  /\ g_scene = "ROBOT_WALK" /\ event = "UP" /\ UiGoes("poll", "none")
  /\ g_robot_motion' = (IF g_robot_motion = "WALK" THEN "JUMP_OPEN" ELSE "WALK")
  /\ g_walk_frame' = 0
  /\ UNCHANGED <<g_scene, g_selected, g_home_dirty, Shadow, g_demo_model, g_scene_model, back, pages, ctl>>
Stops(event) ==
  /\ \/ event = "CONFIRM" /\ UiGoes("stop", IF g_scene = "HOME" THEN "open" ELSE "home")
     \/ event = "AUX" /\ g_scene = "ANIMATION" /\ UiGoes("stop", "switch")
  /\ UNCHANGED <<g_scene, g_selected, g_home_dirty, Shadow, g_demo_model, Robot, g_scene_model, back, pages, ctl>>
NoEvent ==
  /\ UiGoes("poll", "none")
  /\ UNCHANGED <<g_scene, g_selected, g_home_dirty, Shadow, g_demo_model, Robot, g_scene_model, back, pages, ctl>>
handle_event(event) ==
  UiAt("recv") /\ (MovesCursor(event) \/ SwitchesMotion(event) \/ Stops(event) \/ NoEvent)

(* scene_stop, and what follows it up to the first present.                 *)
no_shadow == [p \in {0, 1} |-> FALSE]
forgets_not == UNCHANGED g_scene_model                               \* faulty
forgets == g_scene_model' = "none"
scene_stop == UiAt("stop") /\ Draws /\ forgets /\ UNCHANGED ctl
open_selected_card ==
  /\ ui.job = "open" /\ scene_stop
  /\ LET card == Cards[g_selected + 1]
         motion == IF card = "ROBOT_WALK" THEN "WALK" ELSE g_robot_motion
     IN  /\ g_scene' = card /\ g_robot_motion' = motion
         /\ pages' = On(CardPage(card, g_demo_model, motion))
  /\ g_page_ui_valid' = no_shadow
  /\ UiGoes("seed", "open")
  /\ UNCHANGED <<g_selected, g_home_dirty, g_page_cursor, g_demo_model, g_walk_frame, back>>
return_home ==
  /\ ui.job = "home" /\ scene_stop /\ g_scene' = "HOME" /\ pages' = On(HomePage)
  /\ UiGoes("seed", "home")
  /\ UNCHANGED <<g_selected, g_home_dirty, Shadow, g_demo_model, Robot, back>>
SwitchesModel ==
  /\ ui.job = "switch" /\ scene_stop
  /\ g_demo_model' = (IF g_demo_model = "BLADE" THEN "ROBOT_RIGID" ELSE "BLADE")
  /\ g_robot_motion' = "WALK" /\ g_walk_frame' = 0
  /\ pages' = On(CardPage("ANIMATION", g_demo_model', "WALK"))
  /\ UiGoes("seeded", "switch")
  /\ UNCHANGED <<g_scene, g_selected, g_home_dirty, Shadow, back>>

(* seed_home_pages, seed_card_pages: the same on the other page.            *)
SeedsOther ==
  /\ UiAt("seed") /\ Draws /\ present /\ UiGoes("seeded", ui.job)
  /\ pages' = [pages EXCEPT ![back'] =
                 IF g_scene = "HOME" THEN HomePage ELSE CardPage(g_scene, g_demo_model, g_robot_motion)]
  /\ UNCHANGED <<g_scene, g_selected, g_home_dirty, Shadow, g_demo_model, Robot, g_scene_model, ctl>>
Seeded ==
  /\ UiAt("seeded") /\ Draws /\ present /\ UiGoes("poll", "none")
  /\ g_home_dirty' = (g_home_dirty \/ ui.job = "home")
  /\ g_page_ui_valid' = IF ui.job = "home" THEN no_shadow ELSE g_page_ui_valid
  /\ IF ui.job = "open" THEN g_demo_model' = "BLADE" /\ g_walk_frame' = 0
     ELSE UNCHANGED <<g_demo_model, g_walk_frame>>
  /\ UNCHANGED <<g_scene, g_selected, g_page_cursor, g_robot_motion, g_scene_model, pages, ctl>>
-----------------------------------------------------------------------------
(* poll_scene, when a period has passed or the home screen is dirty.        *)
Idles ==
  /\ UiAt("poll") /\ ~(g_scene = "HOME" /\ g_home_dirty) /\ UiGoes("recv", "none")
  /\ UNCHANGED <<g_scene, g_selected, g_home_dirty, Shadow, g_demo_model, Robot, g_scene_model, back, pages, ctl>>

(* The page is drawn whole if its shadow is no good; if its cursor is old,  *)
(* the box around the old card is painted over.                             *)
cursor_moved == (pages[back].cursors \ {g_page_cursor[back]}) \cup {g_selected}
home_drawn ==
  IF ~g_page_ui_valid[back] THEN [HomePage EXCEPT !.cursors = {g_selected}]
  ELSE IF g_page_cursor[back] = g_selected THEN pages[back]
  ELSE [pages[back] EXCEPT !.cursors = cursor_moved]
window_kept(p) == p                                                  \* faulty
window_cleared(p) == [p EXCEPT !.poses = 0]
render_home_frame ==
  /\ UiAt("poll") /\ Draws /\ g_scene = "HOME"
  /\ pages' = On(window_cleared(home_drawn))
  /\ g_page_cursor' = [g_page_cursor EXCEPT ![back] = g_selected]
  /\ g_page_ui_valid' = [g_page_ui_valid EXCEPT ![back] = TRUE]
  /\ UiGoes("load", "none")
  /\ UNCHANGED <<g_scene, g_selected, g_home_dirty, g_demo_model, Robot, g_scene_model, back, ctl>>
chrome == On(CardPage(g_scene, g_demo_model, g_robot_motion))
CardStep ==
  /\ UiAt("poll") /\ Draws /\ g_scene # "HOME"
  /\ IF g_scene = "SYSTEM" THEN UiGoes("present", "none") /\ UNCHANGED pages
     ELSE UiGoes("load", "none") /\ pages' = chrome
  /\ UNCHANGED <<g_scene, g_selected, g_home_dirty, Shadow, g_demo_model, Robot, g_scene_model, back, ctl>>

(* A home frame that fails leaves a page that must be drawn again.          *)
GivesUp ==
  /\ UiGoes("recv", "none")
  /\ g_page_ui_valid' = IF g_scene = "HOME" THEN [g_page_ui_valid EXCEPT ![back] = FALSE]
                        ELSE g_page_ui_valid
  /\ UNCHANGED <<g_scene, g_selected, g_home_dirty, g_page_cursor, g_demo_model, Robot, back>>

loaded_by_entry == g_scene_model = Entry
scene_load_asset ==
  /\ UiAt("load") /\ UNCHANGED pages
  /\ IF loaded_by_entry
     THEN /\ UiGoes("render", "none")
          /\ UNCHANGED <<g_scene, g_selected, g_home_dirty, Shadow, g_demo_model, Robot, g_scene_model, back, ctl>>
     ELSE \/ /\ g_scene_model' = Entry /\ UiGoes("render", "none")
             /\ ctl' = [ctl EXCEPT !.model = Entry, !.command = CommandMode(Entry)]
             /\ UNCHANGED <<g_scene, g_selected, g_home_dirty, Shadow, g_demo_model, Robot, back>>
          \/ /\ GivesUp /\ UNCHANGED g_scene_model
             /\ \/ UNCHANGED ctl                              \* no such asset
                \/ \E loaded \in {Entry, "none"} :            \* wrong meshes, load error
                     ctl' = [ctl EXCEPT !.model = loaded, !.command = CommandMode(Entry)]

Posed == On([pages[back] EXCEPT !.poses = @ + 1])
rendered == ctl.model # "none" /\ ~ctl.command
scene_render_rigid ==
  /\ UiAt("render") /\ g_scene # "ROBOT_WALK" /\ UNCHANGED <<g_scene_model, ctl>>
  /\ \/ /\ rendered /\ pages' = Posed /\ UiGoes("present", "none")
        /\ UNCHANGED <<g_scene, g_selected, g_home_dirty, Shadow, g_demo_model, Robot, back>>
     \/ GivesUp /\ pages' \in {pages, Posed}
present_wait ==
  /\ UiAt("present") /\ Draws /\ present /\ UiGoes("recv", "none")
  /\ g_home_dirty' = (g_home_dirty /\ g_scene # "HOME")
  /\ UNCHANGED <<g_scene, g_selected, Shadow, g_demo_model, Robot, g_scene_model, pages, ctl>>

(* robot_walk_step: the frame of commands, with a PRESENT of its own; after *)
(* an error in it the controller stays busy.                                *)
SK_OS_WALK_FRAMES == 16
walked_again(place) == UiGoes("present", "none")                       \* faulty
walked(place) == UiGoes(place, "none")
robot_walk_step ==
  /\ UiAt("render") /\ g_scene = "ROBOT_WALK"
  /\ \/ /\ pages' = Posed /\ present /\ walked("recv")
        /\ g_walk_frame' = (g_walk_frame + 1) % SK_OS_WALK_FRAMES
        /\ UNCHANGED <<g_robot_motion, ctl>>
     \/ /\ ctl' = [ctl EXCEPT !.stuck = TRUE] /\ pages' \in {pages, Posed}
        /\ UiGoes("recv", "none") /\ UNCHANGED <<Robot, back>>
  /\ UNCHANGED <<g_scene, g_selected, g_home_dirty, Shadow, g_demo_model, g_scene_model>>

ui_thread_entry ==
  \/ \E event \in {"UP", "DOWN", "AUX", "CONFIRM"} : handle_event(event)
  \/ open_selected_card \/ return_home \/ SwitchesModel \/ SeedsOther \/ Seeded
  \/ Idles \/ render_home_frame \/ CardStep \/ scene_load_asset
  \/ scene_render_rigid \/ present_wait \/ robot_walk_step
UiSpec == UiInit /\ [][ui_thread_entry]_ui_state

-----------------------------------------------------------------------------
(* The angles of the robot's limbs, in sixteenths of a turn: two legs, two  *)
(* arms, the body.                                                          *)
Turn == 16
Negated(a) == (Turn - a) % Turn
walk_phase(frame) ==
  LET f == frame % SK_OS_WALK_FRAMES
  IN  CASE f \in {0, 8} -> 0 [] f \in {1, 7} -> 1 [] f \in 2 .. 6 -> 2
        [] f \in {9, 15} -> 15 [] OTHER -> 14
jump_open_phase(frame) ==
  LET f == frame % SK_OS_WALK_FRAMES
  IN  CASE f \in {0, 6, 12} -> 0 [] f \in {1, 5, 7, 11, 13, 15} -> 1 [] OTHER -> 2
mesh_pitch == LET phase == walk_phase(g_walk_frame)
                  opposite == walk_phase(g_walk_frame + 8)
              IN  <<phase, opposite, opposite, phase, 0>>
mesh_roll == IF g_robot_motion = "WALK" THEN <<0, 0, 0, 0, 0>>
             ELSE LET phase == jump_open_phase(g_walk_frame)
                  IN  <<Negated(phase), phase, Negated(phase), phase, 0>>

-----------------------------------------------------------------------------
(* A page whose shadow is valid is a home page with one box, around the     *)
(* card the shadow says: the parts not redrawn are there already            *)
(* (sketch_os.c:264, with every other writer of the pages).                 *)
ShadowTrue ==
  \A p \in {0, 1} : g_page_ui_valid[p] =>
    pages[p].card = "HOME" /\ pages[p].cursors = {g_page_cursor[p]}

(* What is on display is never a page of another card than the one the      *)
(* thread is in, never two boxes and never one pose over another: "the      *)
(* previous 3D frame [...] must be restored on every back page"             *)
(* (sketch_os.c:279).  While a card is being seeded the old one stays.      *)
FrontIsScene ==
  /\ Cardinality(Shown.cursors) <= 1 /\ Shown.poses <= 1
  /\ ~UiAt("seed") => Shown.card = g_scene

(* On the home screen, a selection that is not on display is dirty: it will *)
(* be drawn at the next poll (sketch_os.c:289, 296, 405).                   *)
DirtyOrShown ==
  g_scene = "HOME" /\ UiAt("recv") /\ ~g_home_dirty => Shown.cursors = {g_selected}

(* The model the thread believes loaded is in the controller's cache, and   *)
(* the controller in the mode for it: otherwise RENDER is refused           *)
(* (sketch_os.c:184, 196, 217).                                             *)
CacheTrue ==
  g_scene_model # "none" =>
    ctl.model = g_scene_model /\ ctl.command = CommandMode(g_scene_model)

(* What the program noted of the pages and of the controller, to leave out  *)
(* work that is done already, is so.                                        *)
BeliefsTrue == ShadowTrue /\ CacheTrue

(* Outside of seeding, each page that comes on display shows the card with  *)
(* its present label, and one model: no blank frame between two poses       *)
(* (sketch_os.c:445 "so model labels do not lag", 556).                     *)
Shows(page) ==
  /\ page.poses = IF g_scene = "SYSTEM" THEN 0 ELSE 1
  /\ page.label = CardPage(g_scene, g_demo_model, g_robot_motion).label
StepsShowModel ==
  [][back' # back /\ ui.at \in {"render", "present"} => Shows(Shown')]_ui_state

(* "The feet never cross" (sketch_os.c:537): of the two legs, and of the    *)
(* two arms, never both roll inward, and they roll by the same angle.       *)
Outward(left, right) == (left = 0 \/ 2 * left >= Turn) /\ right = Negated(left)
FeetNeverCross ==
  Outward(mesh_roll[1], mesh_roll[2]) /\ Outward(mesh_roll[3], mesh_roll[4])

(* From one frame of a motion to the next, over the end of the cycle too,   *)
(* no limb turns by more than one step (sketch_os.c:474-494, 560).          *)
Near(a, b) == (a + Turn - b) % Turn \in {0, 1, Turn - 1}
StepsSmooth ==
  [][g_walk_frame' # g_walk_frame /\ UiAt("render") =>
       \A i \in 1 .. 5 : Near(mesh_pitch'[i], mesh_pitch[i]) /\ Near(mesh_roll'[i], mesh_roll[i])]_ui_state

(* What the user sees is the card, the selection and the pose the thread    *)
(* is at.                                                                   *)
ShownTrue == FrontIsScene /\ DirtyOrShown /\ FeetNeverCross

(* Each step of a motion shows one model, and moves it by one step.         *)
StepsShown == StepsShowModel /\ StepsSmooth
=============================================================================
