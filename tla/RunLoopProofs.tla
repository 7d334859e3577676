---------------------------- MODULE RunLoopProofs ----------------------------
(***************************************************************************)
(* Proofs about the run loop's two sides.                                  *)
(*                                                                         *)
(* Interrupts: no line without a source behind it, no completion           *)
(* forgotten, no task mail without a task, one audio frame per delivered   *)
(* audio interrupt - for any number of completions, any length of upload   *)
(* and any Quiet.                                                          *)
(*                                                                         *)
(* GuestClock: its invariant, that no hook is stepped over, and that every *)
(* hook keeps its cadence, for all periods and all host clocks.            *)
(***************************************************************************)
EXTENDS GuestClock, Interrupts, TLAPS

\* What the actions leave alone.
USE DEF device, mailbox, tasking, raising, cpu, threads, history

-----------------------------------------------------------------------------
(* Types. *)

LEMMA InitTypes == Init => TypeOK
  <1> SUFFICES ASSUME Init PROVE TypeOK
    OBVIOUS
  <1> USE QuietAssumption DEF QuietAssumption, Init, Sources, Lines
  <1>1. LineTypes
    BY DEF LineTypes
  <1>2. CountTypes
    BY DEF CountTypes
  <1>3. MailTypes
    BY DEF MailTypes
  <1>4. TaskTypes
    BY DEF TaskTypes
  <1>5. GuestTypes
    <2>1. idle \in 0..Quiet
      OBVIOUS
    <2> QED BY <2>1, Zenon DEF GuestTypes
  <1> QED BY <1>1, <1>2, <1>3, <1>4, <1>5 DEF TypeOK

\* A completion is counted and not yet seen.
LEMMA CompletesCounts ==
  ASSUME CountTypes, NEW s \in Sources, Completes(s)
  PROVE  /\ begun' \in [Sources -> Nat] /\ unseen' \in [Sources -> BOOLEAN]
         /\ axFrames' \in Nat
  <1>1. begun' \in [Sources -> Nat]
    BY DEF CountTypes, Completes
  <1>2. unseen' \in [Sources -> BOOLEAN]
    BY DEF CountTypes, Completes
  <1> QED BY <1>1, <1>2 DEF CountTypes, Completes

LEMMA LineStep == TypeOK /\ Next => LineTypes'
  <1> SUFFICES ASSUME LineTypes, Next PROVE LineTypes'
    BY DEF TypeOK
  <1> USE DEF LineTypes, Lines
  <1>1. CASE DrawDone \/ LatchBuffer
    BY <1>1 DEF DrawDone, LatchBuffer
  <1>2. CASE StartTransfer
    BY <1>2 DEF StartTransfer, DspLine
  <1>3. CASE OfferVi
    BY <1>3 DEF OfferVi, Raise
  <1>4. CASE OfferPe
    BY <1>4 DEF OfferPe, Raise
  <1>5. CASE OfferAram \/ OfferAid
    BY <1>5 DEF OfferAram, OfferAid, OfferDsp, Raise, DspLine
  <1>6. CASE Redeliver \/ WaitQuiet \/ Dispatch \/ Boot
    BY <1>6 DEF Redeliver, WaitQuiet, Dispatch, Boot, Unhalt, ReadBoot, Send
  <1>7. CASE PostInit \/ PostResume
    BY <1>7 DEF PostInit, PostResume, Post, Raise, DspLine
  <1>8. CASE HandleVi \/ HandlePe
    BY <1>8 DEF HandleVi, HandlePe
  <1>9. CASE HandleAram \/ HandleAid \/ HandleMail
    BY <1>9 DEF HandleAram, HandleAid, HandleMail, Acknowledge, DspLine
  <1>10. CASE ArmOne \/ EnableDisplay
    BY <1>10 DEF ArmOne, Arm, EnableDisplay
  <1>11. CASE \E b \in BOOLEAN : SetEE(b) \/ SetContext(b)
    BY <1>11 DEF SetEE, SetContext
  <1> QED BY <1>1, <1>2, <1>3, <1>4, <1>5, <1>6, <1>7, <1>8, <1>9, <1>10, <1>11
          DEF Next, Offer, OfferTask, Handler, Thread

LEMMA CountStep == TypeOK /\ Next => CountTypes'
  <1> SUFFICES ASSUME TypeOK, Next PROVE CountTypes'
    OBVIOUS
  <1>a. CountTypes
    BY DEF TypeOK
  <1>1. CASE DrawDone
    BY <1>1, <1>a, CompletesCounts DEF DrawDone, CountTypes, Sources
  <1>2. CASE LatchBuffer
    BY <1>2, <1>a, CompletesCounts DEF LatchBuffer, CountTypes, Sources
  <1>3. CASE StartTransfer
    BY <1>3, <1>a, CompletesCounts DEF StartTransfer, CountTypes, Sources
  <1>4. CASE OfferVi
    BY <1>4, <1>a, CompletesCounts DEF OfferVi, CountTypes, Sources
  <1>5. CASE OfferPe
    <2>1. pending["pe"] \in Nat /\ pending["pe"] - 1 \in Nat
      BY <1>5, <1>a DEF OfferPe, CountTypes, Sources
    <2> QED BY <1>5, <1>a, <2>1 DEF OfferPe, Spend, CountTypes
  <1>6. ASSUME NEW s \in {"aram", "aid"}, OfferDsp(s) PROVE CountTypes'
    <2>1. pending[s] \in Nat /\ pending[s] - 1 \in Nat
      BY <1>6, <1>a DEF OfferDsp, CountTypes, Sources
    <2>2. pending' \in [Sources -> Nat]
      BY <1>6, <1>a, <2>1 DEF OfferDsp, Spend, CountTypes
    <2>3. aidRaised' \in Nat
      BY <1>6, <1>a DEF OfferDsp, CountTypes
    <2> QED BY <1>6, <1>a, <2>2, <2>3 DEF OfferDsp, CountTypes
  <1>7. CASE Redeliver \/ Dispatch \/ Boot \/ ArmOne \/ EnableDisplay
    BY <1>7, <1>a DEF Redeliver, Dispatch, Boot, Unhalt, ReadBoot, Send, ArmOne, Arm, EnableDisplay, CountTypes
  <1>12. CASE WaitQuiet
    BY <1>12, <1>a DEF WaitQuiet, CountTypes
  <1>8. CASE PostInit \/ PostResume
    BY <1>8, <1>a DEF PostInit, PostResume, Post, CountTypes
  <1>9. CASE HandleVi \/ HandlePe \/ HandleAram \/ HandleAid
    <2>1. unseen' \in [Sources -> BOOLEAN]
      BY <1>9, <1>a DEF HandleVi, HandlePe, HandleAram, HandleAid, CountTypes, Sources
    <2> QED BY <1>9, <1>a, <2>1 DEF HandleVi, HandlePe, HandleAram, HandleAid, CountTypes
  <1>10. CASE HandleMail
    BY <1>10, <1>a DEF HandleMail, CountTypes
  <1>11. CASE \E b \in BOOLEAN : SetEE(b) \/ SetContext(b)
    BY <1>11, <1>a DEF SetEE, SetContext, CountTypes
  <1> QED BY <1>1, <1>2, <1>3, <1>4, <1>5, <1>6, <1>7, <1>8, <1>9, <1>10, <1>11, <1>12
          DEF Next, Offer, OfferAram, OfferAid, OfferTask, Handler, Thread

LEMMA MailStep == TypeOK /\ Next => MailTypes'
  <1> SUFFICES ASSUME MailTypes, Next PROVE MailTypes'
    BY DEF TypeOK
  <1> USE DEF MailTypes
  <1>1. CASE DrawDone \/ LatchBuffer \/ StartTransfer
    BY <1>1 DEF DrawDone, LatchBuffer, StartTransfer
  <1>2. CASE OfferVi \/ OfferPe \/ OfferAram \/ OfferAid \/ Redeliver \/ WaitQuiet
    BY <1>2 DEF OfferVi, OfferPe, OfferAram, OfferAid, OfferDsp, Redeliver, WaitQuiet
  <1>3. CASE PostInit \/ PostResume
    BY <1>3 DEF PostInit, PostResume, Post
  <1>4. CASE Dispatch \/ HandleVi \/ HandlePe \/ HandleAram \/ HandleAid
    BY <1>4 DEF Dispatch, HandleVi, HandlePe, HandleAram, HandleAid
  <1>5. CASE HandleMail \/ ReadBoot
    <2>1. ReadMail
      BY <1>5 DEF HandleMail, ReadBoot
    <2> QED BY <2>1 DEF ReadMail
  <1>6. CASE Unhalt \/ Send
    BY <1>6 DEF Unhalt, Send
  <1>7. CASE ArmOne \/ EnableDisplay
    BY <1>7 DEF ArmOne, Arm, EnableDisplay
  <1>8. CASE \E b \in BOOLEAN : SetEE(b) \/ SetContext(b)
    BY <1>8 DEF SetEE, SetContext
  <1> QED BY <1>1, <1>2, <1>3, <1>4, <1>5, <1>6, <1>7, <1>8
          DEF Next, Offer, OfferTask, Handler, Boot, Thread

LEMMA TaskStep == TypeOK /\ Next => TaskTypes'
  <1> SUFFICES ASSUME TaskTypes, MailTypes, Next PROVE TaskTypes'
    BY DEF TypeOK
  <1> USE QuietAssumption DEF TaskTypes, QuietAssumption
  <1>1. CASE DrawDone \/ LatchBuffer \/ StartTransfer
    BY <1>1 DEF DrawDone, LatchBuffer, StartTransfer
  <1>2. CASE OfferVi \/ OfferPe \/ OfferAram \/ OfferAid \/ Redeliver
    BY <1>2 DEF OfferVi, OfferPe, OfferAram, OfferAid, OfferDsp, Redeliver
  <1>3. CASE WaitQuiet
    BY <1>3 DEF WaitQuiet, UploadMoved, MailTypes
  <1>4. CASE PostInit
    BY <1>4 DEF PostInit
  <1>5. CASE PostResume
    BY <1>5 DEF PostResume, CreditFrame
  <1>6. CASE Dispatch \/ HandleVi \/ HandlePe \/ HandleAram \/ HandleAid \/ HandleMail
    BY <1>6 DEF Dispatch, HandleVi, HandlePe, HandleAram, HandleAid, HandleMail
  <1>7. CASE Boot \/ ArmOne \/ EnableDisplay
    BY <1>7 DEF Boot, Unhalt, ReadBoot, Send, ArmOne, Arm, EnableDisplay
  <1>8. CASE \E b \in BOOLEAN : SetEE(b) \/ SetContext(b)
    BY <1>8 DEF SetEE, SetContext
  <1> QED BY <1>1, <1>2, <1>3, <1>4, <1>5, <1>6, <1>7, <1>8
          DEF Next, Offer, OfferTask, Handler, Thread

LEMMA GuestStep == TypeOK /\ Next => GuestTypes'
  <1> SUFFICES ASSUME TypeOK, GuestTypes, Next PROVE GuestTypes'
    BY DEF TypeOK
  <1> USE DEF GuestTypes
  <1>1. CASE DrawDone \/ LatchBuffer \/ StartTransfer
    BY <1>1 DEF DrawDone, LatchBuffer, StartTransfer
  <1>2. CASE OfferVi \/ OfferPe \/ OfferAram \/ OfferAid \/ Redeliver
    BY <1>2 DEF OfferVi, OfferPe, OfferAram, OfferAid, OfferDsp, Redeliver, Raise, Enter
  <1>3. CASE OfferTask
    <2>1. idle' \in 0..Quiet
      BY <1>3, QuietAssumption DEF OfferTask, WaitQuiet, PostInit, PostResume, Offering,
         UploadKeepsUp, QuietAssumption
    <2>2. /\ ee' \in BOOLEAN /\ context' \in BOOLEAN
          /\ serving' \in Sources \cup {"threads", "dispatcher", "dsp"}
      BY <1>3 DEF OfferTask, WaitQuiet, PostInit, PostResume, Post, Raise, Enter
    <2>3. upload' = upload /\ arq' = arq
      BY <1>3 DEF OfferTask, WaitQuiet, PostInit, PostResume, Offering
    <2> QED BY <2>1, <2>2, <2>3
  <1>4. CASE Dispatch
    <2>1. serving' \in Sources \cup {"threads", "dispatcher", "dsp"}
      BY <1>4 DEF Dispatch, Asserted, TypeOK, LineTypes, Sources
    <2> QED BY <1>4, <2>1 DEF Dispatch
  <1>5. CASE HandleVi \/ HandlePe \/ HandleAram \/ HandleAid \/ HandleMail
    BY <1>5 DEF HandleVi, HandlePe, HandleAram, HandleAid, HandleMail, Return
  <1>6. CASE Boot
    BY <1>6, QuietAssumption DEF Boot, Unhalt, ReadBoot, Send, QuietAssumption
  <1>7. CASE ArmOne \/ EnableDisplay
    BY <1>7 DEF ArmOne, Arm, EnableDisplay
  <1>8. CASE \E b \in BOOLEAN : SetEE(b) \/ SetContext(b)
    BY <1>8 DEF SetEE, SetContext
  <1> QED BY <1>1, <1>2, <1>3, <1>4, <1>5, <1>6, <1>7, <1>8
          DEF Next, Offer, Handler, Thread

LEMMA TypeStep == TypeOK /\ Next => TypeOK'
  BY LineStep, CountStep, MailStep, TaskStep, GuestStep DEF TypeOK

-----------------------------------------------------------------------------
(* The lines. *)

LEMMA LinesStep == TypeOK /\ LinesBacked /\ TaskExists /\ Next => LinesBacked'
  <1> SUFFICES ASSUME TypeOK, LinesBacked, TaskExists, Next PROVE LinesBacked'
    OBVIOUS
  <1> USE DEF LinesBacked
  <1>1. CASE DrawDone \/ LatchBuffer
    BY <1>1 DEF DrawDone, LatchBuffer
  <1>2. CASE StartTransfer
    BY <1>2 DEF StartTransfer, DspLine
  <1>3. CASE OfferVi
    BY <1>3 DEF OfferVi, Raise
  <1>4. CASE OfferPe
    BY <1>4 DEF OfferPe, Raise
  <1>5. ASSUME NEW s \in {"aram", "aid"}, OfferDsp(s) PROVE LinesBacked'
    BY <1>5 DEF OfferDsp, Raise, DspLine
  <1>6. CASE Redeliver \/ WaitQuiet \/ Dispatch
    BY <1>6 DEF Redeliver, WaitQuiet, Dispatch
  <1>7. ASSUME NEW m \in {"init", "resume"}, Post(m), Offering PROVE LinesBacked'
    BY <1>7 DEF Post, Offering, Raise, DspLine
  <1>8. CASE HandleVi \/ HandlePe
    BY <1>8 DEF HandleVi, HandlePe
  <1>9. CASE HandleAram \/ HandleAid
    BY <1>9 DEF HandleAram, HandleAid, Acknowledge, DspLine
  <1>10. CASE HandleMail
    BY <1>10 DEF HandleMail, Acknowledge, DspLine, ReadMail
  <1>11. CASE Boot
    BY <1>11 DEF Boot, Unhalt, ReadBoot, Send, ReadMail, TaskExists
  <1>12. CASE ArmOne \/ EnableDisplay
    BY <1>12 DEF ArmOne, Arm, EnableDisplay
  <1>13. CASE \E b \in BOOLEAN : SetEE(b) \/ SetContext(b)
    BY <1>13 DEF SetEE, SetContext
  <1> QED BY <1>1, <1>2, <1>3, <1>4, <1>5, <1>6, <1>7, <1>8, <1>9, <1>10, <1>11, <1>12, <1>13
          DEF Next, Offer, OfferAram, OfferAid, OfferTask, PostInit, PostResume, Handler, Thread

\* A raise either makes the guest enter its dispatcher with the line's cause
\* set, or leaves the guest where it is and takes no cause away.
LEMMA RaiseServes ==
  ASSUME NEW line \in Lines, NEW c, Raise(line, c)
  PROVE  \/ Taken(line) /\ ee' = FALSE /\ serving' = "dispatcher" /\ line \in cause'
         \/ ~Taken(line) /\ UNCHANGED cpu /\ c \subseteq cause'
  BY DEF Raise, Taken, Enter

LEMMA ServesStep == TypeOK /\ LinesBacked /\ DispatcherServes /\ Next => DispatcherServes'
  <1> SUFFICES ASSUME TypeOK, LinesBacked, DispatcherServes, Next PROVE DispatcherServes'
    OBVIOUS
  <1> USE DEF DispatcherServes, Asserted
  <1>1. CASE DrawDone \/ LatchBuffer \/ WaitQuiet
    BY <1>1 DEF DrawDone, LatchBuffer, WaitQuiet
  <1>2. CASE StartTransfer \/ ArmOne \/ EnableDisplay \/ Boot
    BY <1>2 DEF StartTransfer, ArmOne, Arm, EnableDisplay, Boot, Unhalt, ReadBoot, Send
  <1>3. CASE OfferVi
    <2>1. CASE Taken("vi")
      BY <1>3, <2>1, RaiseServes DEF OfferVi, Lines, Taken, Open
    <2>2. CASE ~Taken("vi")
      <3>1. UNCHANGED <<ee, serving, status, mask>> /\ cause \subseteq cause'
        BY <1>3, <2>2 DEF OfferVi, Raise
      <3> QED BY <3>1
    <2> QED BY <2>1, <2>2
  <1>4. CASE OfferPe
    BY <1>4, RaiseServes DEF OfferPe, Lines, Taken, Open
  <1>5. ASSUME NEW s \in {"aram", "aid"}, OfferDsp(s) PROVE DispatcherServes'
    <2>1. status' = status \cup {s} /\ cause \subseteq DspLine(status', cause)
      BY <1>5 DEF OfferDsp, DspLine
    <2>2. Raise("dsp", DspLine(status', cause)) /\ UNCHANGED mask
      BY <1>5 DEF OfferDsp
    <2>3. CASE Taken("dsp")
      BY <2>1, <2>2, <2>3, RaiseServes DEF Lines, Taken, Open
    <2>4. CASE ~Taken("dsp")
      <3>1. UNCHANGED <<ee, serving>> /\ cause \subseteq cause' /\ status \subseteq status'
        BY <2>1, <2>2, <2>4, RaiseServes DEF Lines
      <3> QED BY <3>1, <2>2
    <2> QED BY <2>3, <2>4
  <1>6. CASE Redeliver
    BY <1>6 DEF Redeliver, Enter, LinesBacked, TypeOK, LineTypes, Lines
  <1>7. ASSUME NEW m \in {"init", "resume"}, Post(m), Offering PROVE DispatcherServes'
    <2>1. CASE Taken("dsp")
      BY <1>7, <2>1 DEF Post, Raise, Enter, Taken, Open
    <2>2. CASE ~Taken("dsp")
      <3>1. status' = status /\ cause' = cause /\ UNCHANGED <<mask, cpu>>
        BY <1>7, <2>2 DEF Post, Offering, DspLine, LinesBacked
      <3> QED BY <3>1
    <2> QED BY <2>1, <2>2
  <1>8. CASE Dispatch
    <2>1. serving' \in Asserted /\ UNCHANGED <<ee, cause, status, mask>> /\ ~ee
      BY <1>8 DEF Dispatch
    <2> QED BY <2>1 DEF TypeOK, LineTypes, Lines
  <1>9. CASE HandleVi \/ HandlePe \/ HandleAram \/ HandleAid \/ HandleMail
    BY <1>9 DEF HandleVi, HandlePe, HandleAram, HandleAid, HandleMail, Return
  <1>10. CASE \E b \in BOOLEAN : SetEE(b) \/ SetContext(b)
    BY <1>10 DEF SetEE, SetContext
  <1> QED BY <1>1, <1>2, <1>3, <1>4, <1>5, <1>6, <1>7, <1>8, <1>9, <1>10
          DEF Next, Offer, OfferAram, OfferAid, OfferTask, PostInit, PostResume, Handler, Thread

-----------------------------------------------------------------------------
(* Completions. *)

LEMMA ForgottenStep ==
  TypeOK /\ LinesBacked /\ NoneForgotten /\ Next => NoneForgotten'
  <1> SUFFICES ASSUME TypeOK, LinesBacked, NoneForgotten, Next,
                      NEW r \in Sources, unseen'[r]
               PROVE  pending'[r] > 0 \/ r \in cause' \cup status'
    BY DEF NoneForgotten
  <1>a. /\ pending \in [Sources -> Nat] /\ unseen \in [Sources -> BOOLEAN]
        /\ unseen[r] => pending[r] > 0 \/ r \in cause \cup status
    BY DEF TypeOK, CountTypes, NoneForgotten
  <1>1. CASE DrawDone
    BY <1>1, <1>a DEF DrawDone, Completes, Sources
  <1>2. CASE LatchBuffer
    BY <1>2, <1>a DEF LatchBuffer, Completes, Sources
  <1>3. CASE StartTransfer
    BY <1>3, <1>a DEF StartTransfer, Completes, DspLine, Sources
  <1>4. CASE OfferVi
    BY <1>4, <1>a DEF OfferVi, Completes, Raise, Sources
  <1>5. CASE OfferPe
    BY <1>5, <1>a DEF OfferPe, Spend, Raise, Taken, Sources
  <1>6. ASSUME NEW s \in {"aram", "aid"}, OfferDsp(s)
        PROVE  pending'[r] > 0 \/ r \in cause' \cup status'
    <2>1. unseen[r] /\ (r # s => pending'[r] = pending[r])
      BY <1>6, <1>a DEF OfferDsp, Spend, Sources
    <2>2. status' = status \cup {s} /\ cause \subseteq cause'
      BY <1>6 DEF OfferDsp, Raise, DspLine
    <2> QED BY <2>1, <2>2, <1>a
  <1>7. CASE Redeliver \/ WaitQuiet \/ Dispatch \/ ArmOne \/ EnableDisplay
    BY <1>7, <1>a DEF Redeliver, WaitQuiet, Dispatch, ArmOne, Arm, EnableDisplay
  <1>8. ASSUME NEW m \in {"init", "resume"}, Post(m)
        PROVE  pending'[r] > 0 \/ r \in cause' \cup status'
    <2>1. UNCHANGED <<unseen, pending>>
      BY <1>8 DEF Post
    <2>2. r \in cause \cup status => r \in cause' \cup status'
      BY <1>8 DEF Post, Raise, DspLine, Sources
    <2> QED BY <2>1, <2>2, <1>a
  <1>9. CASE HandleVi \/ HandlePe
    BY <1>9, <1>a DEF HandleVi, HandlePe, Sources
  <1>10. CASE HandleAram \/ HandleAid
    BY <1>10, <1>a DEF HandleAram, HandleAid, Acknowledge, DspLine, Sources
  <1>11. CASE HandleMail
    BY <1>11, <1>a DEF HandleMail, Acknowledge, DspLine, Sources
  <1>12. CASE Boot
    BY <1>12, <1>a DEF Boot, Unhalt, ReadBoot, Send
  <1>13. CASE \E b \in BOOLEAN : SetEE(b) \/ SetContext(b)
    BY <1>13, <1>a DEF SetEE, SetContext
  <1> QED BY <1>1, <1>2, <1>3, <1>4, <1>5, <1>6, <1>7, <1>8, <1>9, <1>10, <1>11, <1>12, <1>13
          DEF Next, Offer, OfferAram, OfferAid, OfferTask, PostInit, PostResume, Handler, Thread

-----------------------------------------------------------------------------
(* The mailbox. *)

\* A posted mail finds the mailbox empty, and is there only if the line was taken.
LEMMA PostMail ==
  ASSUME NEW m \in {"init", "resume"}, Post(m), Offering
  PROVE  /\ mail = "none" /\ mail' = IF Taken("dsp") THEN m ELSE "none"
         /\ UNCHANGED <<booted, sends, upload, pending, begun, aidRaised, axFrames>>
  BY DEF Post, Offering

LEMMA TaskExistsStep ==
  TypeOK /\ TaskExists /\ UploadTold /\ Next => TaskExists'
  <1> SUFFICES ASSUME TypeOK, TaskExists, UploadTold, Next PROVE TaskExists'
    OBVIOUS
  <1> USE DEF TaskExists
  <1>1. CASE DrawDone \/ LatchBuffer \/ StartTransfer
    BY <1>1 DEF DrawDone, LatchBuffer, StartTransfer
  <1>2. CASE OfferVi \/ OfferPe \/ OfferAram \/ OfferAid \/ Redeliver
    BY <1>2 DEF OfferVi, OfferPe, OfferAram, OfferAid, OfferDsp, Redeliver
  <1>3. CASE WaitQuiet
    BY <1>3 DEF WaitQuiet, Offering
  <1>4. CASE PostInit
    <2>1. quiet + 1 >= Quiet /\ sends > 0 /\ sends = lastSent
      BY <1>4 DEF PostInit
    <2>2. upload # "sending"
      <3>1. SUFFICES ASSUME upload = "sending" PROVE FALSE
        OBVIOUS
      <3>2. quiet < idle /\ idle < Quiet
        BY <3>1, <2>1, <1>4 DEF UploadTold, PostInit, Offering, UploadKeepsUp
      <3>3. quiet \in Nat /\ idle \in Nat /\ Quiet \in Nat
        BY QuietAssumption DEF TypeOK, TaskTypes, GuestTypes, QuietAssumption
      <3> QED BY <2>1, <3>2, <3>3
    <2>3. upload = "current"
      BY <2>1, <2>2 DEF UploadTold, TypeOK, GuestTypes, MailTypes
    <2> QED BY <2>3, <1>4 DEF PostInit, Offering
  <1>5. CASE PostResume
    BY <1>5 DEF PostResume, Offering
  <1>6. CASE Dispatch \/ HandleVi \/ HandlePe \/ HandleAram \/ HandleAid
    BY <1>6 DEF Dispatch, HandleVi, HandlePe, HandleAram, HandleAid
  <1>7. CASE HandleMail
    BY <1>7 DEF HandleMail, ReadMail
  <1>8. CASE Unhalt \/ ReadBoot
    BY <1>8 DEF Unhalt, ReadBoot, ReadMail
  <1>9. CASE Send
    BY <1>9 DEF Send
  <1>10. CASE ArmOne \/ EnableDisplay
    BY <1>10 DEF ArmOne, Arm, EnableDisplay
  <1>11. CASE \E b \in BOOLEAN : SetEE(b) \/ SetContext(b)
    BY <1>11 DEF SetEE, SetContext
  <1> QED BY <1>1, <1>2, <1>3, <1>4, <1>5, <1>6, <1>7, <1>8, <1>9, <1>10, <1>11
          DEF Next, Offer, OfferTask, Handler, Boot, Thread

LEMMA UploadStep ==
  IntInv /\ TaskExists /\ Next => UploadTold'
  <1> SUFFICES ASSUME IntInv, TaskExists, Next PROVE UploadTold'
    OBVIOUS
  <1>t. TypeOK /\ LinesBacked /\ DispatcherServes /\ UploadTold
    BY DEF IntInv
  <1>n. /\ quiet \in Nat /\ idle \in Nat /\ Quiet \in Nat /\ sends \in Nat
        /\ lastSent \in Nat
    BY <1>t, QuietAssumption DEF TypeOK, MailTypes, TaskTypes, GuestTypes, QuietAssumption
  <1> USE DEF UploadTold
  <1>1. CASE DrawDone \/ LatchBuffer \/ StartTransfer
    BY <1>1, <1>t DEF DrawDone, LatchBuffer, StartTransfer
  <1>2. CASE OfferVi \/ OfferPe \/ OfferAram \/ OfferAid \/ Redeliver
    BY <1>2, <1>t DEF OfferVi, OfferPe, OfferAram, OfferAid, OfferDsp, Redeliver
  <1>3. CASE WaitQuiet
    <2>1. /\ UNCHANGED <<mail, booted, sends, upload, phase>> /\ booted /\ sends > 0
          /\ upload = "sending" => idle' = idle + 1
      BY <1>3 DEF WaitQuiet, Offering, UploadMoved
    <2>2. CASE sends # lastSent
      <3>1. lastSent' = sends /\ quiet' = 0
        BY <1>3, <2>2 DEF WaitQuiet, UploadMoved
      <3> QED BY <2>1, <3>1, <1>t, <1>n
    <2>3. CASE sends = lastSent
      <3>1. lastSent' = lastSent /\ quiet' = quiet + 1
        BY <1>3, <2>3 DEF WaitQuiet
      <3> QED BY <2>1, <2>3, <3>1, <1>t, <1>n
    <2> QED BY <2>2, <2>3
  <1>4. CASE PostInit
    <2>1. /\ UNCHANGED <<booted, sends, upload, lastSent>> /\ mail' # "boot"
      BY <1>4, PostMail DEF PostInit
    <2>2. upload # "sending"
      <3>1. SUFFICES ASSUME upload = "sending" PROVE FALSE
        OBVIOUS
      <3>2. quiet < idle /\ idle < Quiet /\ quiet + 1 >= Quiet
        BY <3>1, <1>4, <1>t DEF PostInit, Offering, UploadKeepsUp
      <3> QED BY <3>2, <1>n
    <2>3. upload = "current"
      BY <1>4, <2>2, <1>t, <1>n DEF PostInit, TypeOK, GuestTypes
    <2> QED BY <2>1, <2>3
  <1>5. CASE PostResume
    <2>1. /\ UNCHANGED <<booted, sends, upload, lastSent>> /\ mail' # "boot"
      BY <1>5, PostMail DEF PostResume
    <2> QED BY <1>5, <2>1, <1>t DEF PostResume
  <1>6. CASE Dispatch \/ HandleVi \/ HandlePe \/ HandleAram \/ HandleAid
    BY <1>6, <1>t DEF Dispatch, HandleVi, HandlePe, HandleAram, HandleAid
  <1>7. CASE HandleMail
    <2>1. upload = "current"
      BY <1>7, <1>t DEF HandleMail, DispatcherServes, LinesBacked, TaskExists
    <2> QED BY <1>7, <2>1 DEF HandleMail, ReadMail
  <1>8. CASE Unhalt
    BY <1>8, <1>t DEF Unhalt
  <1>9. CASE ReadBoot
    <2>1. upload = "announced" /\ upload' = "sending" /\ mail' = "none" /\ sends' = 0
      BY <1>9 DEF ReadBoot, ReadMail
    <2>2. UNCHANGED <<phase, lastSent, quiet, idle>>
      BY <1>9 DEF ReadBoot
    <2> QED BY <2>1, <2>2, <1>t, <1>n
  <1>10. CASE Send
    <2>1. upload = "sending" /\ UNCHANGED <<mail, phase, lastSent, quiet>>
      BY <1>10 DEF Send
    <2>2. \/ sends' = sends + 1 /\ upload' = "sending"
          \/ upload' = "current"
      BY <1>10 DEF Send
    <2> QED BY <2>1, <2>2, <1>t, <1>n
  <1>11. CASE ArmOne \/ EnableDisplay
    BY <1>11, <1>t DEF ArmOne, Arm, EnableDisplay
  <1>12. CASE \E b \in BOOLEAN : SetEE(b) \/ SetContext(b)
    BY <1>12, <1>t DEF SetEE, SetContext
  <1> QED BY <1>1, <1>2, <1>3, <1>4, <1>5, <1>6, <1>7, <1>8, <1>9, <1>10, <1>11, <1>12
          DEF Next, Offer, OfferTask, Handler, Boot, Thread

-----------------------------------------------------------------------------
(* Frames. *)

LEMMA PacedStep ==
  IntInv /\ TaskExists /\ FramesPaced /\ Next => FramesPaced'
  <1> SUFFICES ASSUME IntInv, TaskExists, FramesPaced, Next PROVE FramesPaced'
    OBVIOUS
  <1>t. /\ LinesBacked /\ DispatcherServes
        /\ pending \in [Sources -> Nat] /\ begun \in [Sources -> Nat]
        /\ aidRaised \in Nat /\ axFrames \in Nat /\ seenSends \in Nat
    BY DEF IntInv, TypeOK, CountTypes, TaskTypes
  <1>n. pending["aid"] \in Nat /\ begun["aid"] \in Nat
    BY <1>t DEF Sources
  <1> USE DEF FramesPaced
  <1>1. CASE DrawDone \/ StartTransfer
    <2>1. UNCHANGED <<aidRaised, seenSends, axFrames, mail>>
      BY <1>1 DEF DrawDone, StartTransfer, Completes
    <2>2. pending'["aid"] = pending["aid"] /\ begun'["aid"] = begun["aid"]
      BY <1>1, <1>t DEF DrawDone, StartTransfer, Completes, Sources
    <2> QED BY <2>1, <2>2
  <1>2. CASE LatchBuffer
    <2>1. UNCHANGED <<aidRaised, seenSends, axFrames, mail>>
      BY <1>2 DEF LatchBuffer, Completes
    <2>2. pending'["aid"] = pending["aid"] + 1 /\ begun'["aid"] = begun["aid"] + 1
      BY <1>2, <1>t DEF LatchBuffer, Completes, Sources
    <2> QED BY <2>1, <2>2, <1>t, <1>n
  <1>3. CASE OfferVi
    <2>1. UNCHANGED <<aidRaised, seenSends, axFrames, mail, pending>>
      BY <1>3 DEF OfferVi, Completes
    <2>2. begun'["aid"] = begun["aid"]
      BY <1>3, <1>t DEF OfferVi, Completes, Sources
    <2> QED BY <2>1, <2>2
  <1>4. CASE OfferPe \/ OfferAram
    <2>1. UNCHANGED <<aidRaised, seenSends, axFrames, mail, begun>>
      BY <1>4 DEF OfferPe, OfferAram, OfferDsp
    <2>2. pending'["aid"] = pending["aid"]
      BY <1>4, <1>t DEF OfferPe, OfferAram, OfferDsp, Spend, Sources
    <2> QED BY <2>1, <2>2
  <1>5. CASE OfferAid
    <2>1. UNCHANGED <<seenSends, axFrames, mail, begun>>
      BY <1>5 DEF OfferAid, OfferDsp
    <2>2. \/ /\ pending'["aid"] = pending["aid"] - 1
             /\ aidRaised' = aidRaised + 1
          \/ /\ pending'["aid"] = pending["aid"]
             /\ aidRaised' = aidRaised
      BY <1>5, <1>t DEF OfferAid, OfferDsp, Spend, Sources
    <2> QED BY <2>1, <2>2, <1>t, <1>n
  <1>6. CASE Redeliver \/ WaitQuiet \/ Dispatch \/ HandleVi \/ HandlePe \/ HandleAram \/ HandleAid
    BY <1>6 DEF Redeliver, WaitQuiet, UploadMoved, Dispatch, HandleVi, HandlePe, HandleAram, HandleAid
  <1>7. CASE PostInit
    <2>1. mail # "resume" /\ mail' # "resume"
      BY <1>7, PostMail DEF PostInit
    <2>2. UNCHANGED <<aidRaised, seenSends, axFrames, pending, begun>>
      BY <1>7 DEF PostInit, Post
    <2> QED BY <2>1, <2>2
  <1>8. CASE PostResume
    <2>1. UNCHANGED <<aidRaised, axFrames, pending, begun>>
      BY <1>8 DEF PostResume, Post
    <2>2. mail = "none" /\ seenSends < aidRaised
      BY <1>8, PostMail DEF PostResume, FrameDue
    <2>3. \/ mail' = "resume" /\ seenSends' = seenSends + 1
          \/ mail' = "none" /\ seenSends' = seenSends
      BY <1>8, PostMail DEF PostResume, CreditFrame
    <2> QED BY <2>1, <2>2, <2>3, <1>t
  <1>9. CASE HandleMail
    <2>1. UNCHANGED <<aidRaised, seenSends, pending, begun>> /\ mail' = "none"
      BY <1>9 DEF HandleMail, ReadMail
    <2>2. axFrames' = IF mail = "resume" THEN axFrames + 1 ELSE axFrames
      BY <1>9 DEF HandleMail
    <2> QED BY <2>1, <2>2, <1>t
  <1>10. CASE Unhalt \/ ReadBoot
    <2>1. UNCHANGED <<aidRaised, seenSends, axFrames, pending, begun>>
      BY <1>10 DEF Unhalt, ReadBoot
    <2>2. mail # "resume" /\ mail' # "resume"
      BY <1>10 DEF Unhalt, ReadBoot, ReadMail, TaskExists
    <2> QED BY <2>1, <2>2
  <1>11. CASE Send
    BY <1>11 DEF Send
  <1>12. CASE ArmOne \/ EnableDisplay
    BY <1>12 DEF ArmOne, Arm, EnableDisplay
  <1>13. CASE \E b \in BOOLEAN : SetEE(b) \/ SetContext(b)
    BY <1>13 DEF SetEE, SetContext
  <1> QED BY <1>1, <1>2, <1>3, <1>4, <1>5, <1>6, <1>7, <1>8, <1>9, <1>10, <1>11, <1>12, <1>13
          DEF Next, Offer, OfferTask, Handler, Boot, Thread

-----------------------------------------------------------------------------

Inductive == IntInv /\ TaskExists /\ FramesPaced

LEMMA InitInductive == Init => Inductive
  <1> SUFFICES ASSUME Init PROVE Inductive
    OBVIOUS
  <1>1. LinesBacked /\ DispatcherServes
    BY DEF Init, LinesBacked, DispatcherServes
  <1>2. NoneForgotten /\ UploadTold /\ TaskExists
    BY DEF Init, NoneForgotten, UploadTold, TaskExists
  <1>3. FramesPaced
    BY DEF Init, FramesPaced, Sources
  <1> QED BY <1>1, <1>2, <1>3, InitTypes DEF Inductive, IntInv

LEMMA InductiveStep == Inductive /\ [Next]_vars => Inductive'
  <1>1. CASE Next
    BY <1>1, TypeStep, LinesStep, ServesStep, ForgottenStep, UploadStep, TaskExistsStep,
       PacedStep DEF Inductive, IntInv
  <1>2. CASE UNCHANGED vars
    <2>1. UNCHANGED <<status, cause, mask, di, pending, mail, booted, sends, phase, lastSent,
                      quiet, seenSends, aidRaised, ee, context, serving, upload, arq, begun,
                      unseen, axFrames, idle>>
      BY <1>2 DEF vars
    <2>2. TypeOK => TypeOK'
      BY <2>1 DEF TypeOK, LineTypes, CountTypes, MailTypes, TaskTypes, GuestTypes
    <2>3. /\ LinesBacked => LinesBacked'
          /\ DispatcherServes => DispatcherServes'
          /\ NoneForgotten => NoneForgotten'
      BY <2>1 DEF LinesBacked, DispatcherServes, Asserted, NoneForgotten
    <2>4. /\ UploadTold => UploadTold'
          /\ TaskExists => TaskExists'
          /\ FramesPaced => FramesPaced'
      BY <2>1 DEF UploadTold, TaskExists, FramesPaced
    <2> QED BY <2>2, <2>3, <2>4 DEF Inductive, IntInv
  <1> QED BY <1>1, <1>2

\* Whatever the order of completions, offers and guest steps, asserted lines have
\* sources, the dispatcher always finds one, and no completion is forgotten.
THEOREM InterruptInvariant == Spec => []IntInv
  <1>1. Inductive => IntInv
    BY DEF Inductive
  <1> QED BY InitInductive, InductiveStep, <1>1, PTL DEF Spec

\* No task mail is ever in the mailbox before the guest has a task, for any Quiet.
THEOREM TaskTheorem == Spec => []TaskExists
  <1>1. Inductive => TaskExists
    BY DEF Inductive
  <1> QED BY InitInductive, InductiveStep, <1>1, PTL DEF Spec

\* Every delivered audio interrupt earns one frame, and none earns two.
THEOREM FramesTheorem == Spec => []FramesPaced
  <1>1. Inductive => FramesPaced
    BY DEF Inductive
  <1> QED BY InitInductive, InductiveStep, <1>1, PTL DEF Spec

-----------------------------------------------------------------------------
(* The clock. *)

USE PeriodAssumption, FieldsAssumption, NumberAssumption

\* A hook that fires is due again later than now; the others keep their deadline.
LEMMA RearmType ==
  ASSUME ClockTypes, NEW field \in Fields
  PROVE  /\ Rearm(field) \in [Hooks -> Nat]
         /\ \A h \in Hooks : ~Fires(h) => Rearm(field)[h] = due[h]
         /\ \A h \in Hooks \ {"vi"} : Fires(h) => Rearm(field)[h] = gt + Period[h]
         /\ Fires("vi") => Rearm(field)["vi"] = gt + field
<1>1. \A h \in Hooks \ {"vi"} : Period[h] \in Nat \ {0} BY DEF Hooks
<1>2. field \in Nat \ {0} OBVIOUS
<1>3. "vi" \in Hooks BY DEF Hooks
<1> QED BY <1>1, <1>2, <1>3 DEF Rearm, ClockTypes

\* The retrace, the draw-done and the pace are hooks, and the first two are always active.
LEMMA ActiveHooks ==
  ASSUME ClockTypes
  PROVE  "vi" \in Active /\ "pe" \in Active /\ Active \subseteq Hooks
BY DEF Active, Hooks, ClockTypes

LEMMA ClockTypesStep == ASSUME ClockTypes, BehindHost, [ClockNext]_clockVars PROVE ClockTypes'
<1> USE DEF ClockTypes, Least
<1>1. CASE HostTime BY <1>1 DEF HostTime
<1>2. CASE ReadClock BY <1>2 DEF ReadClock, Elapsed, BehindHost
<1>3. CASE SkipClock BY <1>3 DEF SkipClock
<1>4. CASE PayOut BY <1>4 DEF PayOut, Room
<1>5. CASE StepTick BY <1>5 DEF StepTick
<1>6. CASE RunHooks
  <2>1. PICK field \in Fields : due' = Rearm(field) BY <1>6 DEF RunHooks
  <2>2. due' \in [Hooks -> Nat] BY <2>1, RearmType
  <2>3. nextDue' \in Nat BY <1>6, <2>2, ActiveHooks DEF RunHooks
  <2> QED BY <1>6, <2>2, <2>3 DEF RunHooks
<1>7. CASE NoHooks BY <1>7 DEF NoHooks
<1>8. CASE UNCHANGED clockVars BY <1>8 DEF clockVars
<1> QED BY <1>1, <1>2, <1>3, <1>4, <1>5, <1>6, <1>7, <1>8 DEF ClockNext

LEMMA EarliestStep == ASSUME ClockTypes, NextDueEarliest, [ClockNext]_clockVars PROVE NextDueEarliest'
<1>1. CASE RunHooks
  BY <1>1 DEF RunHooks, NextDueEarliest, Earliest, Active
<1>2. CASE UNCHANGED <<due, nextDue, wallMode>>
  BY <1>2 DEF NextDueEarliest, Earliest, Active
<1> QED BY <1>1, <1>2 DEF ClockNext, HostTime, ReadClock, SkipClock, PayOut, StepTick, NoHooks, clockVars

LEMMA HostStep == ASSUME ClockTypes, BehindHost, [ClockNext]_clockVars PROVE BehindHost'
<1> USE DEF ClockTypes, BehindHost, Least
<1>1. CASE HostTime BY <1>1 DEF HostTime
<1>2. CASE ReadClock BY <1>2 DEF ReadClock, Elapsed
<1>3. CASE PayOut BY <1>3 DEF PayOut, Room
<1>4. CASE SkipClock \/ StepTick \/ RunHooks \/ NoHooks \/ UNCHANGED clockVars
  BY <1>4 DEF SkipClock, StepTick, RunHooks, NoHooks, clockVars
<1> QED BY <1>1, <1>2, <1>3, <1>4 DEF ClockNext

LEMMA TicksStep == ASSUME ClockTypes, TicksAgree, [ClockNext]_clockVars PROVE TicksAgree'
<1> USE DEF ClockTypes, TicksAgree, Least
<1>1. CASE PayOut BY <1>1 DEF PayOut, Room
<1>2. CASE StepTick
  <2>1. batch * Rate + Rate = (batch + 1) * Rate OBVIOUS
  <2>2. 0 * Rate = 0 OBVIOUS
  <2> QED BY <1>2, <2>1, <2>2 DEF StepTick
<1>3. CASE HostTime \/ ReadClock \/ SkipClock \/ RunHooks \/ NoHooks \/ UNCHANGED clockVars
  BY <1>3 DEF HostTime, ReadClock, SkipClock, RunHooks, NoHooks, clockVars
<1> QED BY <1>1, <1>2, <1>3 DEF ClockNext

\* Guest time goes at most to the earliest deadline, or one coin past a late draw-done.
LEMMA PayOutPunctual ==
  ASSUME ClockTypes, NextDueEarliest, Punctual, PayOut PROVE Punctual'
<1> USE DEF ClockTypes, PayOut
<1>1. Active' = Active /\ Lag' = Lag /\ Coin' = Coin /\ Lag = 0 /\ Coin = 1 BY DEF Active, Lag, Coin
<1>2. SUFFICES ASSUME NEW h \in Active PROVE Reached(h)' BY <1>1 DEF Punctual
<1>3. h \in Hooks /\ "pe" \in Active /\ "vi" \in Hooks /\ "pe" \in Hooks BY ActiveHooks DEF Hooks
<1>4. gt' <= gt + Least(pool, Room) BY DEF Room, Least
<1>5. CASE Beginning
  <2>1. gt' = 0 BY <1>5 DEF Beginning, Least, Room
  <2> QED BY <2>1, <1>1, <1>3, <1>5 DEF Beginning, Reached
<1>6. CASE nextDue > gt
  <2>1. gt' <= nextDue BY <1>6, <1>4 DEF Room, Least
  <2>2. nextDue <= due[h] BY DEF NextDueEarliest, Earliest
  <2>3. gt' <= due[h] BY <2>1, <2>2, <1>3
  <2> QED BY <2>3, <1>1, <1>3 DEF Reached
<1>7. CASE ~Beginning /\ ~(nextDue > gt)
  <2>1. gt' <= gt + 1 BY <1>7, <1>4 DEF Room, Least
  <2>2. Ahead(h) BY <1>7 DEF Punctual
  <2>3. CASE due[h] > gt BY <2>1, <2>3, <1>1, <1>3 DEF Reached
  <2>4. CASE h = "pe" /\ gt <= due["pe"] + Lag /\ due["vi"] > gt + Coin
    BY <2>1, <2>4, <1>1, <1>3 DEF Reached
  <2> QED BY <2>2, <2>3, <2>4 DEF Ahead
<1> QED BY <1>5, <1>6, <1>7

LEMMA StepTickPunctual == ASSUME ClockTypes, Punctual, StepTick PROVE Punctual'
<1> USE DEF ClockTypes, StepTick
<1>1. Active' = Active /\ Lag' = Lag /\ Coin' = Coin /\ Lag = Rate /\ Coin = Rate BY DEF Active, Lag, Coin
<1>2. SUFFICES ASSUME NEW h \in Active PROVE Reached(h)' BY <1>1 DEF Punctual
<1>3. h \in Hooks /\ "vi" \in Hooks /\ "pe" \in Hooks BY ActiveHooks DEF Hooks
<1>4. CASE Beginning BY <1>4, <1>1, <1>3 DEF Beginning, Reached
<1>5. CASE Ahead(h) BY <1>5, <1>1, <1>3 DEF Ahead, Reached
<1> QED BY <1>4, <1>5 DEF Punctual

\* A hook that fires moves ahead; the draw-done that does not has a retrace behind it.
LEMMA RunHooksPunctual == ASSUME ClockTypes, Punctual, RunHooks PROVE Punctual'
<1> USE DEF ClockTypes
<1>1. PICK field \in Fields : due' = Rearm(field) BY DEF RunHooks
<1>2. gt' = gt /\ loop' = "clock" /\ loop = "hooks" /\ wallMode' = wallMode BY DEF RunHooks
<1>3. Active' = Active /\ Lag' = Lag /\ Coin' = Coin BY <1>2 DEF Active, Lag, Coin
<1>4. SUFFICES ASSUME NEW h \in Active PROVE Ahead(h)' BY <1>2, <1>3 DEF Punctual
<1>5. h \in Hooks /\ "vi" \in Hooks /\ "pe" \in Hooks /\ "vi" \in Active BY ActiveHooks DEF Hooks
<1>6. \A k \in Hooks \ {"vi"} : Period[k] \in Nat \ {0} BY DEF Hooks
<1>7. field \in Nat /\ field > 2 * Rate /\ field > 0 OBVIOUS
<1>8. CASE Fires(h)
  <2>1. due'[h] > gt BY <1>1, <1>5, <1>6, <1>7, <1>8, RearmType
  <2> QED BY <2>1, <1>2, <1>5 DEF Ahead
<1>9. CASE ~Fires(h) /\ due[h] > gt
  <2>1. due'[h] = due[h] BY <1>1, <1>5, <1>9, RearmType
  <2> QED BY <2>1, <1>2, <1>9 DEF Ahead
<1>10. CASE ~Fires(h) /\ ~(due[h] > gt)
  <2>1. h = "pe" /\ due["vi"] <= gt BY <1>5, <1>10 DEF Fires
  <2>2. due'["vi"] = gt + field BY <1>1, <1>5, <2>1, RearmType DEF Fires
  <2>3. due'["pe"] = due["pe"] BY <1>1, <1>5, <1>10, <2>1, RearmType
  <2>4. gt <= due["pe"] + Lag BY <1>2, <1>5, <2>1 DEF Punctual, Reached
  <2>5. Coin <= Rate BY DEF Coin
  <2>6. gt + field > gt + Coin BY <1>7, <2>5 DEF Coin
  <2> QED BY <2>1, <2>2, <2>3, <2>4, <2>6, <1>2, <1>3 DEF Ahead
<1> QED BY <1>8, <1>9, <1>10

LEMMA PunctualStep ==
  ASSUME ClockTypes, NextDueEarliest, Punctual, [ClockNext]_clockVars PROVE Punctual'
<1>1. CASE PayOut BY <1>1, PayOutPunctual
<1>2. CASE StepTick BY <1>2, StepTickPunctual
<1>3. CASE RunHooks BY <1>3, RunHooksPunctual
<1>4. CASE NoHooks
  <2>1. \A h \in Active : due[h] > gt
    BY <1>4, ActiveHooks DEF NoHooks, NextDueEarliest, Earliest, ClockTypes
  <2> QED BY <1>4, <2>1 DEF NoHooks, Punctual, Ahead, Active
<1>5. CASE ReadClock
  <2>1. ~Beginning BY <1>5 DEF ReadClock, TimeToRead, Beginning
  <2> QED BY <1>5, <2>1 DEF ReadClock, Punctual, Ahead, Active, Lag, Coin
<1>6. CASE SkipClock
  BY <1>6 DEF SkipClock, Punctual, Beginning, Ahead, Active, Lag, Coin
<1>7. CASE HostTime \/ UNCHANGED clockVars
  BY <1>7 DEF HostTime, clockVars, Punctual, Beginning, Ahead, Reached, Active, Lag, Coin
<1> QED BY <1>1, <1>2, <1>3, <1>4, <1>5, <1>6, <1>7 DEF ClockNext

\* The clock's invariant holds under both clocks and for every set of periods:
\* next_due is the earliest deadline, none is passed over, the guest stays
\* behind the host, and the devices get every tick.
THEOREM ClockInvariant == ClockSpec => []ClockInv
<1>1. ClockInit => ClockInv
  BY DEF ClockInit, ClockInv, ClockTypes, NextDueEarliest, Earliest, Punctual, Beginning, BehindHost,
         TicksAgree, Active, Hooks
<1>2. ClockInv /\ [ClockNext]_clockVars => ClockInv'
  BY ClockTypesStep, EarliestStep, PunctualStep, HostStep, TicksStep DEF ClockInv
<1> QED BY <1>1, <1>2, PTL DEF ClockSpec

LEMMA PunctualOnTime == ASSUME ClockTypes, Punctual PROVE OnTime
<1> USE DEF ClockTypes
<1>1. SUFFICES ASSUME NEW h \in Active PROVE gt <= due[h] + Late(h) BY DEF OnTime
<1>2. h \in Hooks /\ "pe" \in Hooks BY ActiveHooks DEF Hooks
<1>3. due[h] \in Nat /\ Lag \in Nat /\ Coin \in Nat BY <1>2 DEF Lag, Coin
<1>4. CASE loop = "hooks" BY <1>2, <1>3, <1>4 DEF Punctual, Reached, Late
<1>5. CASE loop # "hooks" BY <1>2, <1>3, <1>5 DEF Punctual, Ahead, Beginning, Late
<1> QED BY <1>4, <1>5

\* No deadline of a hook is stepped over (module.c:1824: "keeps the property exactly").
THEOREM OnTimeTheorem == ClockSpec => []OnTime
<1>1. ClockInv => OnTime BY PunctualOnTime DEF ClockInv
<1> QED BY <1>1, ClockInvariant, PTL

LEMMA CadenceStep ==
  ASSUME ClockTypes, OnTime, [ClockNext]_clockVars, NEW h \in Active, due'[h] # due[h]
  PROVE  LET periods == IF h = "vi" THEN Fields ELSE {Period[h]}
         IN  \E p \in periods : due'[h] \in due[h] + p .. due[h] + p + Late(h)
<1> USE DEF ClockTypes
<1>1. RunHooks BY DEF ClockNext, HostTime, ReadClock, SkipClock, PayOut, StepTick, NoHooks, clockVars
<1>2. PICK field \in Fields : due' = Rearm(field) BY <1>1 DEF RunHooks
<1>3. h \in Hooks BY ActiveHooks
<1>4. Fires(h) BY <1>2, <1>3, RearmType
<1>5. due[h] <= gt /\ gt <= due[h] + Late(h) BY <1>4 DEF Fires, OnTime
<1>6. due[h] \in Nat /\ Late(h) \in Nat BY <1>3 DEF Late, Lag, Coin
<1>7. CASE h = "vi"
  <2>1. due'[h] = gt + field BY <1>2, <1>4, <1>7, RearmType
  <2>2. due'[h] \in due[h] + field .. due[h] + field + Late(h) BY <2>1, <1>5, <1>6
  <2> QED BY <2>2, <1>7
<1>8. CASE h # "vi"
  <2>1. Period[h] \in Nat BY <1>3, <1>8 DEF Hooks
  <2>2. due'[h] = gt + Period[h] BY <1>2, <1>3, <1>4, <1>8, RearmType
  <2>3. due'[h] \in due[h] + Period[h] .. due[h] + Period[h] + Late(h) BY <2>1, <2>2, <1>5, <1>6
  <2> QED BY <2>3, <1>8
<1> QED BY <1>7, <1>8

\* Every hook runs once a period, never sooner, and later only by what it may be late.
THEOREM CadenceTheorem == ClockSpec => Cadence
<1>1. ClockInv /\ OnTime /\ [ClockNext]_clockVars =>
        [\A h \in Active : due'[h] # due[h] =>
           LET periods == IF h = "vi" THEN Fields ELSE {Period[h]}
           IN  \E p \in periods : due'[h] \in due[h] + p .. due[h] + p + Late(h)]_clockVars
  BY CadenceStep DEF ClockInv
<1> QED BY <1>1, ClockInvariant, OnTimeTheorem, PTL DEF ClockSpec, Cadence
=============================================================================
