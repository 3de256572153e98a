-------------------------------- MODULE Preview --------------------------------
(***************************************************************************)
(* The preview: the file it is of, the job that loads it, the frame that   *)
(* draws it, the web view that is a window of its own over the program's,  *)
(* and the thread that plays sound (crates/sc-app/src/preview.rs, app.rs,  *)
(* jobs.rs).                                                               *)
(*                                                                         *)
(* Contents are told apart as far as what is done with them: a sound is    *)
(* played, a page is given to the web view, the rest is drawn. What a job  *)
(* reads and the delivery of its answer are one step: jobs end, and so     *)
(* answer, in any order.                                                   *)
(***************************************************************************)
EXTENDS Naturals, Sequences, FiniteSets

CONSTANTS
  Sounds, Pages, Plains,   \* the files, by what their names promise
  MaxTouches               \* bound: files chosen, openings, presses of a button

ASSUME PreviewAssumption == MaxTouches \in Nat

VARIABLES
  preview,      \* ScApp::preview; view is the web view (webview), rect its
                \* place (embed_rect), failed the webview_error; unseen is for
                \* the properties: its content came after it was closed
  previewJobs,  \* Job::Preview on their way
  flags,        \* AudioCtl::playing and paused, set by both threads
  commands,     \* the channel of the audio thread
  sink,         \* the sink of the audio thread: what it holds, and if paused
  device,       \* the audio thread has one; without it ends
  toRaise,      \* AudioCtl::play has sent, and not yet set, the flags
  touches       \* files chosen, openings and presses so far

previewVars == <<preview, previewJobs, flags, commands, sink, device, toRaise, touches>>
audioThread == <<sink, device>>

PreviewFiles == Sounds \cup Pages \cup Plains
NoFile == "none"
NoContent == [kind |-> "none", path |-> NoFile, generation |-> 0]

Up == [playing |-> TRUE, paused |-> FALSE]
Down == [playing |-> FALSE, paused |-> FALSE]
Held == [playing |-> FALSE, paused |-> TRUE]

\* load_preview: a plugin, a decoder that fails and a file that cannot be
\* read give text instead.
Loaded(p) == {"plain"} \cup (IF p \in Sounds THEN {"sound"} ELSE {})
                       \cup (IF p \in Pages THEN {"page"} ELSE {})

\* The UI thread does nothing else between the two halves of play.
Ready == ~toRaise

Touch == touches < MaxTouches /\ touches' = touches + 1

------------------------------------------------------------------------------
(* The file that is previewed.                                             *)

\* destroy_web
WithoutView(pv) == [pv EXCEPT !.view = NoFile, !.rect = FALSE]

\* clear_content
Cleared(pv) == [pv EXCEPT !.content = NoContent, !.failed = FALSE, !.rect = FALSE]

\* AudioCtl::stop: what is sent, and the flags that go with it.
StopSound == commands' = Append(commands, [do |-> "stop"]) /\ flags' = Down

\* Wrong: the web view goes with the next frame.
RequestLeavingView(pv, p) ==
  IF p = pv.path THEN preview' = pv /\ UNCHANGED <<previewJobs, commands, flags>>
  ELSE /\ preview' = [Cleared(pv) EXCEPT !.path = p, !.generation = @ + 1,
                                         !.loading = (p # NoFile)]
       /\ previewJobs' = previewJobs \cup
            (IF p = NoFile THEN {} ELSE {[path |-> p, generation |-> pv.generation + 1]})
       /\ StopSound

\* Wrong: the sound is left to the content that comes.
RequestLeavingSound(pv, p) ==
  IF p = pv.path THEN preview' = pv /\ UNCHANGED <<previewJobs, commands, flags>>
  ELSE /\ preview' = [WithoutView(Cleared(pv)) EXCEPT
                        !.path = p, !.generation = @ + 1, !.loading = (p # NoFile)]
       /\ previewJobs' = previewJobs \cup
            (IF p = NoFile THEN {} ELSE {[path |-> p, generation |-> pv.generation + 1]})
       /\ UNCHANGED <<commands, flags>>

\* request_preview
RequestPreview(pv, p) ==
  IF p = pv.path THEN preview' = pv /\ UNCHANGED <<previewJobs, commands, flags>>
  ELSE /\ preview' = [WithoutView(Cleared(pv)) EXCEPT
                        !.path = p, !.generation = @ + 1, !.loading = (p # NoFile)]
       /\ previewJobs' = previewJobs \cup
            (IF p = NoFile THEN {} ELSE {[path |-> p, generation |-> pv.generation + 1]})
       /\ StopSound

\* update_preview_from_selection, of a selection whose first file is p.
Choose(p) ==
  /\ Ready /\ Touch /\ preview.enabled /\ p # preview.path
  /\ RequestPreview(preview, p)
  /\ UNCHANGED <<audioThread, toRaise>>

\* The shortcut and the menu; what was shown when it was closed is kept.
Open(p) ==
  /\ Ready /\ Touch /\ ~preview.enabled
  /\ RequestPreview([preview EXCEPT !.enabled = TRUE, !.unseen = FALSE], p)
  /\ UNCHANGED <<audioThread, toRaise>>

\* Wrong: what sounds is left to come to its end.
CloseLeavingSound ==
  /\ Ready /\ preview.enabled
  /\ preview' = [WithoutView(preview) EXCEPT !.enabled = FALSE]
  /\ UNCHANGED <<commands, flags, previewJobs, audioThread, toRaise, touches>>

\* close: the shortcut, Escape, the buttons of the window, and the keys that
\* are polled while the web view has the focus.
Close ==
  /\ Ready /\ preview.enabled
  /\ preview' = [WithoutView(preview) EXCEPT !.enabled = FALSE]
  /\ StopSound
  /\ UNCHANGED <<previewJobs, audioThread, toRaise, touches>>

\* Wrong: an answer is taken for whatever file it is of.
OnPreviewOfAny(j, kind) ==
  /\ Ready /\ j \in previewJobs /\ kind \in Loaded(j.path)
  /\ previewJobs' = previewJobs \ {j}
  /\ preview' = [Cleared(preview) EXCEPT !.loading = FALSE, !.unseen = ~preview.enabled,
                   !.content = [kind |-> kind, path |-> j.path, generation |-> j.generation]]
  /\ commands' = commands \o (IF kind = "sound"
                              THEN <<[do |-> "stop"], [do |-> "play", path |-> j.path]>>
                              ELSE <<[do |-> "stop"]>>)
  /\ flags' = Down /\ toRaise' = (kind = "sound")
  /\ UNCHANGED <<audioThread, touches>>

\* load_preview and the handling of its answer: it must be of the file and
\* of the request that are current. The preview may have been closed: nothing
\* asks, and a sound is played all the same.
OnPreview(j, kind) ==
  /\ Ready /\ j \in previewJobs /\ kind \in Loaded(j.path)
  /\ previewJobs' = previewJobs \ {j}
  /\ IF j.generation # preview.generation \/ j.path # preview.path
     THEN UNCHANGED <<preview, commands, flags, toRaise>>
     ELSE /\ preview' = [Cleared(preview) EXCEPT !.loading = FALSE,
                           !.unseen = ~preview.enabled,
                           !.content = [kind |-> kind, path |-> j.path,
                                        generation |-> j.generation]]
          /\ commands' = commands \o
               (IF kind = "sound" THEN <<[do |-> "stop"], [do |-> "play", path |-> j.path]>>
                                  ELSE <<[do |-> "stop"]>>)
          /\ flags' = Down /\ toRaise' = (kind = "sound")
  /\ UNCHANGED <<audioThread, touches>>

------------------------------------------------------------------------------
(* A frame: preview_pane, then sync_web.                                   *)

\* preview_pane: only a page that has not failed is given a place.
Placed(pv) ==
  IF pv.content.kind = "page" /\ ~pv.failed THEN [pv EXCEPT !.rect = TRUE]
  ELSE WithoutView(pv)

\* sync_web: without a place, or with too small a one, there is no view;
\* otherwise it is made, which may fail, or moved.
Synced(pv, roomy) ==
  IF ~(pv.enabled /\ pv.content.kind = "page" /\ pv.rect /\ roomy) THEN {WithoutView(pv)}
  ELSE IF pv.view = NoFile
  THEN {[pv EXCEPT !.view = pv.content.path, !.failed = FALSE], [pv EXCEPT !.failed = TRUE]}
  ELSE {pv}

Frame ==
  /\ Ready /\ preview.enabled
  /\ \E roomy \in BOOLEAN : preview' \in Synced(Placed(preview), roomy)
  /\ UNCHANGED <<previewJobs, commands, flags, audioThread, toRaise, touches>>

------------------------------------------------------------------------------
(* Sound.                                                                  *)

\* draw_audio: which buttons there are depends on the flags.
Press(do) ==
  /\ Ready /\ Touch
  /\ preview.enabled /\ ~preview.loading /\ preview.content.kind = "sound"
  /\ CASE do = "pause" -> flags.playing /\ flags' = Held
       [] do = "resume" -> ~flags.playing /\ flags.paused /\ flags' = Up
       [] do = "play" -> flags = Down /\ flags' = flags
       [] do = "stop" -> flags' = Down
  /\ commands' = Append(commands, IF do = "play"
                                  THEN [do |-> "play", path |-> preview.content.path]
                                  ELSE [do |-> do])
  /\ toRaise' = (do = "play")
  /\ UNCHANGED <<preview, previewJobs, audioThread>>

\* The second half of AudioCtl::play: the command is out already.
Raise ==
  /\ toRaise
  /\ toRaise' = FALSE /\ flags' = Up
  /\ UNCHANGED <<preview, previewJobs, commands, audioThread, touches>>

\* The audio thread takes a command; what cannot be opened or decoded leaves
\* the sink empty and the paused flag as it was.
AudioCommand ==
  /\ device /\ commands # <<>>
  /\ commands' = Tail(commands)
  /\ LET c == Head(commands) IN
       \/ /\ c.do = "play"
          /\ sink' = [path |-> c.path, paused |-> FALSE] /\ flags' = Up
       \/ /\ c.do = "play"
          /\ sink' = [sink EXCEPT !.path = NoFile]
          /\ flags' = [flags EXCEPT !.playing = FALSE]
       \/ c.do = "pause" /\ sink' = [sink EXCEPT !.paused = TRUE] /\ flags' = Held
       \/ c.do = "resume" /\ sink' = [sink EXCEPT !.paused = FALSE] /\ flags' = Up
       \/ c.do = "stop" /\ sink' = [sink EXCEPT !.path = NoFile] /\ flags' = Down
  /\ UNCHANGED <<preview, previewJobs, device, toRaise, touches>>

\* The sound is over: nobody is told.
SoundEnds ==
  /\ sink.path # NoFile /\ ~sink.paused
  /\ sink' = [sink EXCEPT !.path = NoFile]
  /\ UNCHANGED <<preview, previewJobs, flags, commands, device, toRaise, touches>>

------------------------------------------------------------------------------
PreviewInit ==
  /\ preview = [enabled |-> FALSE, path |-> NoFile, generation |-> 0, loading |-> FALSE,
                content |-> NoContent, failed |-> FALSE, view |-> NoFile, rect |-> FALSE,
                unseen |-> FALSE]
  /\ previewJobs = {} /\ flags = Down /\ commands = <<>>
  /\ sink = [path |-> NoFile, paused |-> FALSE]
  /\ device \in BOOLEAN /\ toRaise = FALSE /\ touches = 0

PreviewNext ==
  \/ \E p \in PreviewFiles \cup {NoFile} : Choose(p) \/ Open(p)
  \/ Close \/ Frame \/ Raise \/ AudioCommand \/ SoundEnds
  \/ \E j \in previewJobs : \E kind \in Loaded(j.path) : OnPreview(j, kind)
  \/ \E do \in {"play", "pause", "resume", "stop"} : Press(do)

PreviewSpec == PreviewInit /\ [][PreviewNext]_previewVars

------------------------------------------------------------------------------
(* Properties.                                                             *)

\* What is shown is of the file whose name stands above it and of the last
\* request; while it loads nothing older is shown and its job is on the way;
\* and the web view, a window over the program's, is there only while the
\* preview is open and shows that file (request_preview, handle_msg, close,
\* sync_web).
PreviewIsOfItsPath ==
  /\ preview.content # NoContent =>
       /\ preview.content.path = preview.path
       /\ preview.content.generation = preview.generation
  /\ preview.loading =>
       /\ preview.content = NoContent
       /\ [path |-> preview.path, generation |-> preview.generation] \in previewJobs
  /\ ~preview.loading /\ preview.path # NoFile => preview.content # NoContent
  /\ preview.view # NoFile =>
       preview.enabled /\ preview.content.kind = "page" /\ preview.view = preview.path

\* Once the audio thread has caught up, what sounds is the file the preview is
\* of, and the button beside it is Pause, whichever of the two threads set the
\* flags last. After the preview is closed nothing sounds but a sound whose
\* answer came after that: closing moves no generation, and the answer is
\* played without asking whether the preview is open (AudioCtl,
\* request_preview, close, handle_msg, draw_audio).
SoundFollowsPreview ==
  commands = <<>> /\ ~toRaise /\ sink.path # NoFile /\ ~sink.paused =>
    /\ preview.content.kind = "sound" /\ preview.content.path = sink.path
    /\ (preview.enabled \/ preview.unseen)
    /\ flags = Up
==============================================================================
