----------------------------- MODULE Interrupts -----------------------------
(***************************************************************************)
(* Device completions, the lines they assert and the guest that takes them *)
(* - host/interrupt.c over the registers of runtime/platform/mmio.c.       *)
(*                                                                         *)
(* A completion is queued by a device and offered by the run loop.  An     *)
(* offer asserts the device's status, and the guest is made to enter its   *)
(* dispatcher if it has interrupts on, the line unmasked and a context to  *)
(* save into; otherwise the completion is put back.  The dispatcher serves *)
(* one source and returns; what is still asserted is offered again.  The   *)
(* DSP's task mails go over the same line as two of the devices.           *)
(***************************************************************************)
EXTENDS Integers

CONSTANTS Loads,  \* bound: what the devices may do - completions of each source (most), and
                  \* mails of the microcode upload (sends; 0: the guest never boots the DSP)
          Quiet   \* offers without a send that end an upload, 8

Sources == {"vi", "pe", "aram", "aid"}
Lines   == {"vi", "pe", "dsp"}

ASSUME LoadsAssumption == Loads \subseteq [most : [Sources -> Nat], sends : Nat]
ASSUME QuietAssumption == Quiet \in Nat \ {0}

VARIABLES
  status,     \* the DSP control register's status bits
  cause,      \* PI_INTSR
  mask,       \* PI_INTMR: what the guest has unmasked
  di,         \* the display interrupts: not enabled by the guest, enabled, or asserted
  pending,    \* completions not yet offered with success
  mail,       \* the mailbox from the DSP
  booted,     \* dsp_booted: the guest has read a mail
  sends,      \* dsp_mails_sent: mails to the DSP since
  phase,      \* 0 no task started, 1 started
  lastSent, quiet,
  seenSends,  \* audio frames answered with a resume
  aidRaised,  \* audio DMA interrupts delivered
  ee,         \* MSR[EE]
  context,    \* the guest has a current context
  serving,    \* where the guest is: its threads, the dispatcher, or a handler
  upload,     \* the guest's booting of the DSP task
  arq,        \* the guest's ARAM queue has a transfer out
  begun,      \* completions so far
  unseen,     \* no handler has run since the source's last completion
  axFrames,   \* resume mails the guest has handled
  idle,       \* task offers since the upload's last step
  load        \* the load of this run

raising  == <<mask, context, load>>
device   == <<di, pending>>
mailbox  == <<mail, booted, sends>>
tasking  == <<phase, lastSent, quiet, seenSends>>
threads  == <<upload, arq, idle>>
history  == <<begun, unseen, axFrames>>
cpu      == <<ee, serving>>
vars == <<status, cause, device, mailbox, tasking, aidRaised, raising, cpu, threads, history>>

Init ==
  /\ status = {} /\ cause = {} /\ mask = {} /\ di = "off"
  /\ pending = [s \in Sources |-> 0]
  /\ mail = "none" /\ booted = FALSE /\ sends = 0
  /\ phase = 0 /\ lastSent = 0 /\ quiet = 0 /\ seenSends = 0 /\ aidRaised = 0
  /\ ee = TRUE /\ context = TRUE /\ serving = "threads"
  /\ upload = "off" /\ arq = FALSE /\ idle = 0
  /\ begun = [s \in Sources |-> 0] /\ unseen = [s \in Sources |-> FALSE]
  /\ axFrames = 0
  /\ load \in Loads

-----------------------------------------------------------------------------
(* The lines. *)

\* Mutant: the line is raised with its sources and never dropped.
DspLineHeld(st, c) == IF st # {} THEN c \cup {"dsp"} ELSE c
\* dsp_refresh_line: one line that follows three status bits.
DspLine(st, c) == IF st # {} THEN c \cup {"dsp"} ELSE c \ {"dsp"}

\* Both gates are open, and there is somewhere to save the guest's registers.
Open(line)  == ee /\ line \in mask
Taken(line) == Open(line) /\ context

\* The exception: interrupts go off and the guest is in its dispatcher.
Enter == ee' = FALSE /\ serving' = "dispatcher"

\* mgs_interrupt_raise, with the causes c the device has asserted.  A raise that
\* gets through the gates leaves its cause set, whether or not it is taken.
Raise(line, c) ==
  /\ cause' = IF Open(line) THEN c \cup {line} ELSE c
  /\ IF Taken(line) THEN Enter ELSE UNCHANGED cpu

Completes(s) ==
  /\ begun[s] < load.most[s]
  /\ begun' = [begun EXCEPT ![s] = @ + 1]
  /\ unseen' = [unseen EXCEPT ![s] = TRUE]
  /\ UNCHANGED axFrames

-----------------------------------------------------------------------------
(* Completions. *)

\* The parser meets a draw-done request.
DrawDone ==
  /\ Completes("pe")
  /\ pending' = [pending EXCEPT !["pe"] = @ + 1]
  /\ UNCHANGED <<status, cause, di, mailbox, tasking, aidRaised, raising, cpu, threads>>

\* The audio DMA latches a buffer: it is enabled, or has drained the last one.
LatchBuffer ==
  /\ Completes("aid")
  /\ pending' = [pending EXCEPT !["aid"] = @ + 1]
  /\ UNCHANGED <<status, cause, di, mailbox, tasking, aidRaised, raising, cpu, threads>>

\* The guest's ARAM queue starts a transfer, done within the store: status, line, interrupt.
StartTransfer ==
  /\ serving = "threads" /\ ~arq
  /\ Completes("aram")
  /\ arq' = TRUE
  /\ status' = status \cup {"aram"}
  /\ cause' = DspLine(status', cause)
  /\ pending' = [pending EXCEPT !["aram"] = @ + 1]
  /\ UNCHANGED <<di, mailbox, tasking, aidRaised, raising, cpu, upload, idle>>

-----------------------------------------------------------------------------
(* The run loop's offers. *)

\* mgs_interrupt_vi, once a field: the display interrupts the guest has enabled
\* are asserted, whether or not it has unmasked the line.  With none enabled
\* nothing is asserted, and the line, which is then masked, is not taken.
OfferVi ==
  /\ di # "off"
  /\ Completes("vi")
  /\ di' = "asserted"
  /\ Raise("vi", cause \cup {"vi"})
  /\ UNCHANGED <<status, pending, mailbox, tasking, aidRaised, raising, threads>>

\* Mutant: a token the guest would not take is not put back.
OfferPeOnce ==
  /\ pending["pe"] > 0
  /\ pending' = [pending EXCEPT !["pe"] = @ - 1]
  /\ Raise("pe", cause)
  /\ UNCHANGED <<status, di, mailbox, tasking, aidRaised, raising, threads, history>>

\* Taking a completion off its count, and putting it back if the raise is not taken.
Spend(s, line) == pending' = [pending EXCEPT ![s] = IF Taken(line) THEN @ - 1 ELSE @]

OfferPe ==
  /\ pending["pe"] > 0
  /\ Spend("pe", "pe")
  /\ Raise("pe", cause)
  /\ UNCHANGED <<status, di, mailbox, tasking, aidRaised, raising, threads, history>>

\* mgs_interrupt_aram and mgs_interrupt_aid: the device's status first, then the line.
OfferDsp(s) ==
  /\ pending[s] > 0
  /\ Spend(s, "dsp")
  /\ status' = status \cup {s}
  /\ Raise("dsp", DspLine(status', cause))
  /\ aidRaised' = IF s = "aid" /\ Taken("dsp") THEN aidRaised + 1 ELSE aidRaised
  /\ UNCHANGED <<di, mailbox, tasking, raising, threads, history>>

OfferAram == OfferDsp("aram")
OfferAid  == OfferDsp("aid")

\* mgs_interrupt_pending: any armed line that is still asserted.
Redeliver ==
  /\ ee /\ cause \cap mask # {} /\ context
  /\ Enter
  /\ UNCHANGED <<status, cause, device, mailbox, tasking, aidRaised, raising, threads, history>>

-----------------------------------------------------------------------------
(* The DSP's task mails, mgs_interrupt_dsp_task. *)

\* The guest's upload is never held up for longer than the offers tell by.
UploadKeepsUp == upload = "sending" => idle < Quiet
Offering == /\ booted /\ mail = "none" /\ UploadKeepsUp
            /\ idle' = IF upload = "sending" THEN idle + 1 ELSE idle
            /\ UNCHANGED <<upload, arq>>

UploadMoved == /\ lastSent' = sends /\ quiet' = 0
               /\ UNCHANGED <<phase, seenSends>>

\* No start is posted while mails are still being sent to the DSP.
WaitQuiet ==
  /\ Offering /\ phase = 0 /\ sends > 0
  /\ \/ sends # lastSent /\ UploadMoved
     \/ /\ sends = lastSent /\ quiet + 1 < Quiet
        /\ quiet' = quiet + 1
        /\ UNCHANGED <<phase, lastSent, seenSends>>
  /\ UNCHANGED <<status, cause, device, mailbox, aidRaised, raising, cpu, history>>

\* Posts m, raises the line, and takes m back out if the guest does not get it.
Post(m) ==
  LET st == IF Taken("dsp") THEN status \cup {"dsp"} ELSE status \ {"dsp"}
  IN  /\ status' = st
      /\ IF Taken("dsp") THEN /\ mail' = m /\ Raise("dsp", DspLine(st, cause))
                         ELSE /\ cause' = DspLine(st, cause)
                              /\ UNCHANGED <<mail, cpu>>
      /\ UNCHANGED <<device, booted, sends, aidRaised, raising, history>>

PostInit ==
  /\ Offering /\ phase = 0 /\ sends > 0 /\ sends = lastSent /\ quiet + 1 >= Quiet
  /\ Post("init")
  /\ phase' = IF Taken("dsp") THEN 1 ELSE 0
  /\ quiet' = Quiet       \* it goes on counting, which tells nothing more
  /\ UNCHANGED <<lastSent, seenSends>>

\* Mutant: a frame too many.
FrameDueAlways == seenSends <= aidRaised
FrameDue == seenSends < aidRaised

\* Mutant: the frames a resume came too late for are forgiven.
ForgiveFrames == seenSends' = IF Taken("dsp") THEN aidRaised ELSE seenSends
CreditFrame == seenSends' = IF Taken("dsp") THEN seenSends + 1 ELSE seenSends

\* One resume per audio DMA interrupt, while the guest has a task.
PostResume ==
  /\ Offering /\ phase = 1 /\ upload = "current" /\ FrameDue
  /\ Post("resume")
  /\ CreditFrame
  /\ UNCHANGED <<phase, lastSent, quiet>>

-----------------------------------------------------------------------------
(* The guest: the SDK's interrupt dispatch, DSP boot and the game's threads. *)

\* Which sources the dispatcher sees.
Asserted ==
  LET armed == cause \cap mask
  IN  (armed \cap {"vi", "pe"}) \cup (IF "dsp" \in armed THEN status ELSE {})
Outranks(a, b) == \/ a = "vi" /\ b # "vi"
                  \/ a = "pe" /\ b \notin {"vi", "pe"}
                  \/ a \in {"aram", "dsp"} /\ b = "aid"

\* __OSDispatchInterrupt goes to one handler.  (With nothing asserted it would
\* return; DispatcherServes says that it never has to.)
Dispatch ==
  /\ serving = "dispatcher"
  /\ \E s \in Asserted : /\ ~\E r \in Asserted : Outranks(r, s)
                         /\ serving' = s
  /\ UNCHANGED <<status, cause, device, mailbox, tasking, aidRaised, raising, ee, threads, history>>

Return == ee' = TRUE /\ serving' = "threads"

\* A handler acknowledges at the device, which drops its line.
HandleVi ==
  /\ serving = "vi" /\ Return
  /\ di' = "on" /\ cause' = cause \ {"vi"}
  /\ unseen' = [unseen EXCEPT !["vi"] = FALSE]
  /\ UNCHANGED <<status, pending, mailbox, tasking, aidRaised, raising, threads, begun, axFrames>>

HandlePe ==
  /\ serving = "pe" /\ Return
  /\ cause' = cause \ {"pe"}
  /\ unseen' = [unseen EXCEPT !["pe"] = FALSE]
  /\ UNCHANGED <<status, device, mailbox, tasking, aidRaised, raising, threads, begun, axFrames>>

\* The control register's status bits are write-one-to-clear.
Acknowledge(bit) == status' = status \ {bit} /\ cause' = DspLine(status', cause)

HandleAram ==
  /\ serving = "aram" /\ Return
  /\ Acknowledge("aram")
  /\ arq' = FALSE
  /\ unseen' = [unseen EXCEPT !["aram"] = FALSE]
  /\ UNCHANGED <<device, mailbox, tasking, aidRaised, raising, upload, idle, begun, axFrames>>

HandleAid ==
  /\ serving = "aid" /\ Return
  /\ Acknowledge("aid")
  /\ unseen' = [unseen EXCEPT !["aid"] = FALSE]
  /\ UNCHANGED <<device, mailbox, tasking, aidRaised, raising, threads, begun, axFrames>>

\* Reading the low half of the mailbox empties it.
ReadMail == mail' = "none" /\ booted' = TRUE /\ sends' = 0

HandleMail ==
  /\ serving = "dsp" /\ Return
  /\ Acknowledge("dsp")
  /\ ReadMail
  /\ axFrames' = IF mail = "resume" THEN axFrames + 1 ELSE axFrames
  /\ UNCHANGED <<device, tasking, aidRaised, raising, threads, begun, unseen>>

\* Booting the DSP: it is let go and announces itself, ...
Unhalt ==
  /\ serving = "threads" /\ upload = "off" /\ load.sends > 0
  /\ mail' = "boot" /\ upload' = "announced"
  /\ UNCHANGED <<status, cause, device, booted, sends, tasking, aidRaised, raising, cpu, arq, idle, history>>

\* ... the guest polls for that, ...
ReadBoot ==
  /\ serving = "threads" /\ upload = "announced"
  /\ ReadMail /\ upload' = "sending"
  /\ UNCHANGED <<status, cause, device, tasking, aidRaised, raising, cpu, arq, idle, history>>

\* ... uploads the microcode, mail by mail, and at last makes the task the current one.
Send ==
  /\ serving = "threads" /\ upload = "sending"
  /\ \/ sends < load.sends /\ sends' = sends + 1 /\ UNCHANGED upload
     \/ sends > 0 /\ upload' = "current" /\ UNCHANGED sends
  /\ idle' = 0
  /\ UNCHANGED <<status, cause, device, mail, booted, tasking, aidRaised, raising, cpu, arq, history>>

\* The guest enables the display interrupts, if it is to have any, and only then
\* unmasks their line.
EnableDisplay ==
  /\ serving = "threads" /\ di = "off" /\ load.most["vi"] > 0
  /\ di' = "on"
  /\ UNCHANGED <<status, cause, pending, mailbox, tasking, aidRaised, raising, cpu, threads, history>>

Arm(line) ==
  /\ serving = "threads" /\ line \notin mask /\ (line = "vi" => di # "off")
  /\ mask' = mask \cup {line}
  /\ UNCHANGED <<status, cause, device, mailbox, tasking, aidRaised, context, load, cpu, threads, history>>

\* A critical section is entered and left.
SetEE(on) ==
  /\ serving = "threads" /\ context /\ ee # on
  /\ ee' = on
  /\ UNCHANGED <<status, cause, device, mailbox, tasking, aidRaised, raising, serving, threads, history>>

\* A few instructions of a thread switch have no context, and interrupts may be on.
SetContext(has) ==
  /\ serving = "threads" /\ context # has
  /\ context' = has
  /\ UNCHANGED <<status, cause, device, mailbox, tasking, aidRaised, mask, load, cpu, threads, history>>

-----------------------------------------------------------------------------
OfferTask == WaitQuiet \/ PostInit \/ PostResume
Offer == OfferVi \/ OfferPe \/ OfferAram \/ OfferAid \/ Redeliver \/ OfferTask
Handler == Dispatch \/ HandleVi \/ HandlePe \/ HandleAram \/ HandleAid \/ HandleMail
Boot == Unhalt \/ ReadBoot \/ Send
ArmOne == \E line \in Lines : Arm(line)
Thread == \/ Boot \/ StartTransfer \/ EnableDisplay \/ ArmOne
          \/ \E b \in BOOLEAN : SetEE(b) \/ SetContext(b)

Next == DrawDone \/ LatchBuffer \/ Offer \/ Handler \/ Thread

\* The run loop's hooks come round for ever and not in step with the guest, so
\* that each finds it willing; the guest gets out of its critical sections, its
\* handlers and its thread switches.
Fairness ==
  /\ WF_vars(Handler) /\ WF_vars(Boot) /\ SF_vars(ArmOne)
  /\ SF_vars(SetEE(TRUE)) /\ SF_vars(SetContext(TRUE))
  /\ SF_vars(OfferPe /\ Taken("pe"))
  /\ SF_vars(OfferAram /\ Taken("dsp")) /\ SF_vars(OfferAid /\ Taken("dsp"))
  /\ SF_vars(Redeliver) /\ SF_vars(OfferTask)

Spec == Init /\ [][Next]_vars
FairSpec == Spec /\ Fairness

-----------------------------------------------------------------------------
(* Properties *)

LineTypes == /\ status \subseteq {"aram", "aid", "dsp"}
             /\ cause \subseteq Lines /\ mask \subseteq Lines
             /\ di \in {"off", "on", "asserted"}
CountTypes == /\ pending \in [Sources -> Nat] /\ begun \in [Sources -> Nat]
              /\ unseen \in [Sources -> BOOLEAN]
              /\ aidRaised \in Nat /\ axFrames \in Nat
MailTypes == /\ mail \in {"none", "boot", "init", "resume"}
             /\ booted \in BOOLEAN /\ sends \in Nat
TaskTypes == /\ phase \in {0, 1} /\ lastSent \in Nat /\ quiet \in 0..Quiet
             /\ seenSends \in Nat
GuestTypes == /\ ee \in BOOLEAN /\ context \in BOOLEAN
              /\ serving \in Sources \cup {"threads", "dispatcher", "dsp"}
              /\ upload \in {"off", "announced", "sending", "current"}
              /\ arq \in BOOLEAN /\ idle \in 0..Quiet
TypeOK == LineTypes /\ CountTypes /\ MailTypes /\ TaskTypes /\ GuestTypes

\* An asserted line has a source behind it that a handler can serve and
\* acknowledge: "an interrupt nobody can claim, and nobody can clear" (mmio.c:590).
LinesBacked ==
  /\ "vi" \in cause <=> di = "asserted"
  /\ "dsp" \in cause <=> status # {}
  /\ "dsp" \in status <=> mail \in {"init", "resume"}

\* The dispatcher is never entered for nothing, and a handler never finds its
\* source gone.
DispatcherServes ==
  /\ serving # "threads" => ~ee
  /\ serving = "dispatcher" => Asserted # {}
  /\ serving \in {"vi", "pe"} => serving \in cause
  /\ serving \in {"aram", "aid", "dsp"} => serving \in status

\* A completion no handler has seen is still queued or still asserted.
NoneForgotten ==
  \A s \in Sources : unseen[s] => pending[s] > 0 \/ s \in cause \cup status

\* Why a start is never posted into an upload: the offers without a send are
\* counted from the last one on, and never run ahead of the upload's own count.
UploadTold ==
  /\ mail = "boot" => upload = "announced"
  /\ upload \in {"off", "announced"} => sends = 0 /\ lastSent = 0 /\ phase = 0 /\ ~booted
  /\ upload = "sending" =>
       /\ phase = 0 /\ lastSent <= sends
       /\ sends > 0 /\ sends = lastSent => quiet < idle

\* No task mail is in the mailbox without a task: its handler would store
\* through a null pointer (interrupt.c:392-403, 503-517).
TaskExists == mail \in {"init", "resume"} => upload = "current"

\* The interrupt plumbing's invariant: lines and mails have what they announce
\* behind them, and no completion is forgotten.
IntInv == /\ TypeOK /\ LinesBacked /\ DispatcherServes
          /\ NoneForgotten /\ UploadTold /\ TaskExists

\* Every audio DMA interrupt is delivered once and earns one resume, and every
\* resume posted is read once (interrupt.c:522-563).
FramesPaced ==
  /\ aidRaised + pending["aid"] = begun["aid"]
  /\ seenSends <= aidRaised
  /\ axFrames + (IF mail = "resume" THEN 1 ELSE 0) = seenSends

\* Every completion is followed by a run of its handler: "a dropped completion
\* is a callback that never runs" (interrupt.c:347).
CompletionsHandled == \A s \in Sources : unseen[s] ~> ~unseen[s]

\* Arrears are kept: once the task runs, every delivered audio interrupt gets its frame.
FramesCatchUp == (phase = 1 /\ axFrames < aidRaised) ~> axFrames = aidRaised

\* The ARAM queue is called back once per transfer: mmio.c:1163-1168 tells what
\* twice did to it.
\* The code does not keep it, and no run checks it: README, section 6.
CalledBackOnce == serving = "aram" => arq
=============================================================================
