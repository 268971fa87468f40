--------------------------- MODULE MCParts_proofs ---------------------------
(***************************************************************************)
(* Proofs about the parts that share no state: Captcha, ExcelExport and     *)
(* WsNotice, for any number of logins, exports, days, users, roles, clients *)
(* and notices; and that MCParts, with the parts side by side, keeps what   *)
(* each keeps (TaskService_proofs, MenuTree_proofs and TableApi_proofs hold *)
(* the proofs of the others).                                              *)
(***************************************************************************)
EXTENDS MCParts, TaskService_proofs, MenuTree_proofs, TableApi_proofs

----------------------------------------------------------------------------
(* Captcha. *)

(* No captcha is drawn at the start. *)
LEMMA CaptchaInitInv == CaptchaInit => CaptchaInv
<1> SUFFICES ASSUME CaptchaInit PROVE CaptchaInv
  OBVIOUS
<1>1. \A l \in Logins : login[l].pc = "idle"
  BY DEF CaptchaInit, NoLogin
<1>2. CaptchaTypeOK
  BY <1>1 DEF CaptchaInit, CaptchaTypeOK, LoginSlot, NoLogin
<1>3. \A c \in Captchas : captcha[c] = NoCaptcha /\ Holders(c) = {}
  BY <1>1 DEF CaptchaInit, Holders
<1>4. QED
  BY <1>2, <1>3 DEF CaptchaInv, SpentCaptchaGone, OneHolder, CaptchaInit

(* A step of one login that makes it no holder it was not before, and        *)
(* leaves the keys alone.                                                  *)
LEMMA OtherLoginStep ==
  ASSUME CaptchaInv, NEW l \in Logins, NEW q \in LoginSlot,
         q.pc # "idle" => q.id \in Captchas /\ q.code \in Texts,
         q.pc # "delete",
         login' = [login EXCEPT ![l] = q],
         UNCHANGED <<drawn, captcha, passed, doubled>>
  PROVE  CaptchaInv'
<1>1. CaptchaTypeOK'
  BY DEF CaptchaInv, CaptchaTypeOK
<1>2. \A c \in Captchas : Holders(c)' = Holders(c) \ {l}
  BY DEF CaptchaInv, CaptchaTypeOK, Holders
<1>3. SpentCaptchaGone'
  BY DEF CaptchaInv, SpentCaptchaGone
<1>4. OneHolder'
  BY <1>2 DEF CaptchaInv, OneHolder
<1>5. QED
  BY <1>1, <1>2, <1>3, <1>4 DEF CaptchaInv

(* A new captcha is none that was passed. *)
LEMMA CreateKeepsInv ==
  ASSUME CaptchaInv, NEW c \in Captchas, NEW t \in Texts, CreateImageCaptcha(c, t)
  PROVE  CaptchaInv'
<1>1. CaptchaTypeOK'
  BY DEF CaptchaInv, CaptchaTypeOK, CreateImageCaptcha
<1>2. \A d \in Captchas : Holders(d)' = Holders(d)
  BY DEF CreateImageCaptcha, Holders
<1>3. c \notin passed
  BY DEF CaptchaInv, SpentCaptchaGone, CreateImageCaptcha
<1>4. SpentCaptchaGone' /\ OneHolder'
  BY <1>2, <1>3 DEF CaptchaInv, CaptchaTypeOK, SpentCaptchaGone, OneHolder, CreateImageCaptcha
<1>5. QED
  BY <1>1, <1>2, <1>4 DEF CaptchaInv, CaptchaTypeOK, CreateImageCaptcha

(* A captcha that expires changes no holder. *)
LEMMA ExpiryKeepsInv ==
  ASSUME CaptchaInv, NEW c \in Captchas, CaptchaExpires(c)
  PROVE  CaptchaInv'
<1>1. CaptchaTypeOK'
  BY DEF CaptchaInv, CaptchaTypeOK, CaptchaExpires
<1>2. \A d \in Captchas : Holders(d)' = Holders(d)
  BY DEF CaptchaExpires, Holders
<1>3. SpentCaptchaGone' /\ OneHolder'
  BY <1>2 DEF CaptchaInv, CaptchaTypeOK, SpentCaptchaGone, OneHolder, CaptchaExpires
<1>4. QED
  BY <1>1, <1>2, <1>3 DEF CaptchaInv, CaptchaTypeOK, CaptchaExpires

(* The check is where two logins can come to hold one captcha. *)
LEMMA CheckKeepsInv ==
  ASSUME CaptchaInv, NEW l \in Logins, CheckImgCaptcha(l)
  PROVE  CaptchaInv'
<1> DEFINE c == login[l].id
<1>1. c \in Captchas /\ login[l].code \in Texts /\ login[l].pc = "check"
  BY DEF CaptchaInv, CaptchaTypeOK, CheckImgCaptcha
<1>2. CASE captcha[c] = login[l].code
  <2>1. login' = [login EXCEPT ![l].pc = "delete"]
    BY <1>2 DEF CheckImgCaptcha
  <2>2. CaptchaTypeOK'
    BY <1>1, <2>1 DEF CaptchaInv, CaptchaTypeOK, CheckImgCaptcha, LoginSlot
  <2>3. \A d \in Captchas : Holders(d)' = IF d = c THEN Holders(d) \cup {l} ELSE Holders(d)
    BY <1>1, <2>1 DEF CaptchaInv, CaptchaTypeOK, LoginSlot, Holders
  <2>4. captcha[c] # NoCaptcha
    BY <1>1, <1>2, NoCaptchaAssumption
  <2>5. c \notin passed /\ c \in drawn
    BY <1>1, <2>4 DEF CaptchaInv, SpentCaptchaGone
  <2>6. doubled' = IF Holders(c) # {} THEN doubled \cup {c} ELSE doubled
    BY <1>2 DEF CheckImgCaptcha
  <2>7. OneHolder'
    BY <1>1, <2>3, <2>5, <2>6 DEF CaptchaInv, OneHolder, CheckImgCaptcha
  <2>8. SpentCaptchaGone'
    BY DEF CaptchaInv, SpentCaptchaGone, CheckImgCaptcha
  <2>9. QED
    BY <2>2, <2>3, <2>5, <2>6, <2>7, <2>8 DEF CaptchaInv, CheckImgCaptcha
<1>3. CASE captcha[c] # login[l].code
  <2>1. NoLogin \in LoginSlot /\ NoLogin.pc = "idle"
    BY DEF NoLogin, LoginSlot
  <2>2. login' = [login EXCEPT ![l] = NoLogin] /\ UNCHANGED <<drawn, captcha, passed, doubled>>
    BY <1>3 DEF CheckImgCaptcha
  <2>3. QED
    BY <2>1, <2>2, OtherLoginStep
<1>4. QED
  BY <1>2, <1>3

(* A captcha that its holder deletes is gone for good. *)
LEMMA DeleteKeepsInv ==
  ASSUME CaptchaInv, NEW l \in Logins, DeleteCaptcha(l)
  PROVE  CaptchaInv'
<1> DEFINE c == login[l].id
<1>1. c \in Captchas /\ l \in Holders(c)
  BY DEF CaptchaInv, CaptchaTypeOK, DeleteCaptcha, Holders
<1>2. CaptchaTypeOK'
  BY <1>1 DEF CaptchaInv, CaptchaTypeOK, DeleteCaptcha, LoginSlot
<1>3. \A d \in Captchas : Holders(d)' = Holders(d) \ {l}
  BY <1>1 DEF CaptchaInv, CaptchaTypeOK, DeleteCaptcha, Holders, LoginSlot
<1>4. c \in drawn
  BY <1>1 DEF CaptchaInv
<1>5. /\ \A d \in Captchas : captcha'[d] = IF d = c THEN NoCaptcha ELSE captcha[d]
      /\ passed' = passed \cup {c}
      /\ UNCHANGED <<drawn, doubled>>
  BY <1>1 DEF CaptchaInv, CaptchaTypeOK, DeleteCaptcha
<1>6. SpentCaptchaGone'
  BY <1>1, <1>4, <1>5 DEF CaptchaInv, CaptchaTypeOK, SpentCaptchaGone
<1>7. OneHolder'
  <2> SUFFICES ASSUME NEW d \in Captchas \ doubled', NEW m \in Logins, m \in Holders(d)'
               PROVE  Holders(d)' = {m} /\ d \notin passed'
    BY DEF OneHolder
  <2>1. d \notin doubled /\ m \in Holders(d) /\ m # l
    BY <1>3, <1>5
  <2>2. Holders(d) = {m} /\ d \notin passed
    BY <2>1 DEF CaptchaInv, OneHolder
  <2>3. d # c
    BY <1>1, <2>1, <2>2
  <2>4. QED
    BY <1>3, <1>5, <2>1, <2>2, <2>3
<1>8. QED
  BY <1>2, <1>3, <1>5, <1>6, <1>7 DEF CaptchaInv

(* Every step keeps the invariant. *)
LEMMA CaptchaStepInv == CaptchaInv /\ [CaptchaNext]_captchaVars => CaptchaInv'
<1> SUFFICES ASSUME CaptchaInv, [CaptchaNext]_captchaVars PROVE CaptchaInv'
  OBVIOUS
<1>0. NoLogin \in LoginSlot /\ NoLogin.pc = "idle"
  BY DEF NoLogin, LoginSlot
<1>1. CASE \E c \in Captchas, t \in Texts : CreateImageCaptcha(c, t)
  BY <1>1, CreateKeepsInv
<1>2. CASE \E c \in Captchas : CaptchaExpires(c)
  BY <1>2, ExpiryKeepsInv
<1>3. ASSUME NEW l \in Logins, NEW c \in Captchas, NEW t \in Texts, LoginRequest(l, c, t)
      PROVE  CaptchaInv'
  <2> DEFINE q == [pc |-> "check", id |-> c, code |-> t]
  <2>1. q \in LoginSlot
    BY DEF LoginSlot
  <2>2. login' = [login EXCEPT ![l] = q] /\ UNCHANGED <<drawn, captcha, passed, doubled>>
    BY <1>3 DEF LoginRequest
  <2>3. QED
    BY <2>1, <2>2, OtherLoginStep
<1>4. ASSUME NEW l \in Logins, LoginDone(l) \/ LoginAborts(l)
      PROVE  CaptchaInv'
  <2>1. login' = [login EXCEPT ![l] = NoLogin] /\ UNCHANGED <<drawn, captcha, passed, doubled>>
    BY <1>4 DEF LoginDone, LoginAborts
  <2>2. QED
    BY <1>0, <2>1, OtherLoginStep
<1>5. CASE UNCHANGED captchaVars
  BY <1>5 DEF captchaVars, CaptchaInv, CaptchaTypeOK, SpentCaptchaGone, OneHolder, Holders
<1>6. QED
  BY <1>1, <1>2, <1>3, <1>4, <1>5, CheckKeepsInv, DeleteKeepsInv DEF CaptchaNext, LoginStep

(* A captcha is spent once it let a login through, and is not held twice     *)
(* unless two logins read it before either deleted it.                     *)
THEOREM CaptchaInvariant == CaptchaSpec => []CaptchaInv
BY CaptchaInitInv, CaptchaStepInv, PTL DEF CaptchaSpec

(* The type of the state. *)
THEOREM CaptchaTypes == CaptchaSpec => []CaptchaTypeOK
<1>1. CaptchaInv => CaptchaTypeOK
  BY DEF CaptchaInv
<1>2. QED
  BY <1>1, CaptchaInvariant, PTL

(* One captcha lets one login through, unless their checks overlapped. *)
THEOREM CaptchaOnce == CaptchaSpec => OneLoginPerCaptcha
<1> DEFINE Once == \A l \in Logins :
             login[l].pc = "delete" /\ login'[l].pc = "sign" =>
               login[l].id \notin passed \/ login[l].id \in doubled
<1>1. CaptchaInv /\ [CaptchaNext]_captchaVars => [Once]_captchaVars
  <2> SUFFICES ASSUME CaptchaInv, NEW l \in Logins, login[l].pc = "delete",
                      login[l].id \notin doubled
               PROVE  login[l].id \notin passed
    OBVIOUS
  <2>1. login[l].id \in Captchas
    BY DEF CaptchaInv, CaptchaTypeOK
  <2>2. QED
    BY <2>1 DEF CaptchaInv, OneHolder, Holders
<1>2. QED
  BY <1>1, CaptchaInvariant, PTL DEF CaptchaSpec, OneLoginPerCaptcha

----------------------------------------------------------------------------
(* ExcelExport. *)

(* The part of ExcelInv about one export. *)
Own(e) == ~exp[e].over =>
            /\ exp[e].pc = "open" =>
                 /\ file[exp[e].day] = e \/ (file[exp[e].day] = NoFile /\ exp[e].lost)
                 /\ exp[e].sent = NoFile
            /\ exp[e].pc = "read" => exp[e].src = e
            /\ exp[e].pc = "unlink" /\ ~exp[e].cut =>
                 exp[e].sent = e \/ (exp[e].sent = NoFile /\ exp[e].lost)

(* The invariant, one export at a time. *)
LEMMA InvParts ==
  ExcelInv <=> ExcelTypeOK /\ NoFileLeft /\ \A e \in Exports : Own(e)
BY DEF ExcelInv, OwnDataSent, Own

(* The same after a step. *)
LEMMA InvPartsNext ==
  ExcelInv' <=> ExcelTypeOK' /\ NoFileLeft' /\ \A e \in Exports : Own(e)'
BY DEF ExcelInv, OwnDataSent, Own

(* A slot at rest is well formed. *)
LEMMA NoExportFits == NoExport \in ExportSlot /\ NoExport.pc = "idle"
BY LastDayAssumption DEF NoExport, ExportSlot, Days

(* There are no files and no exports at the start. *)
LEMMA ExcelInitInv == ExcelInit => ExcelInv
<1> SUFFICES ASSUME ExcelInit PROVE ExcelInv
  OBVIOUS
<1>1. ExcelTypeOK
  BY LastDayAssumption, NoExportFits DEF ExcelInit, ExcelTypeOK, Days
<1>2. NoFileLeft
  BY DEF ExcelInit, NoFileLeft
<1>3. \A e \in Exports : Own(e)
  BY NoExportFits DEF ExcelInit, Own
<1>4. QED
  BY <1>1, <1>2, <1>3, InvParts

(* A step of one export that leaves the files alone. *)
LEMMA OneExport ==
  ASSUME ExcelInv, NEW e \in Exports, NEW q \in ExportSlot,
         exp' = [exp EXCEPT ![e] = q], UNCHANGED <<today, file, leftover>>,
         Busy(e, exp[e].day) => q.pc \in {"open", "read", "unlink"} /\ q.day = exp[e].day,
         ~q.over =>
           /\ q.pc # "open"
           /\ q.pc = "read" => q.src = e
           /\ q.pc = "unlink" /\ ~q.cut => q.sent = e \/ (q.sent = NoFile /\ q.lost)
  PROVE  ExcelInv'
<1>1. ExcelTypeOK'
  BY DEF ExcelInv, ExcelTypeOK
<1>2. \A x \in Exports : exp'[x] = IF x = e THEN q ELSE exp[x]
  BY DEF ExcelInv, ExcelTypeOK
<1>3. \A x \in Exports, d \in Days : Busy(x, d) => Busy(x, d)'
  BY <1>2 DEF Busy
<1>4. NoFileLeft'
  BY <1>3 DEF ExcelInv, NoFileLeft
<1>5. \A x \in Exports : Own(x)'
  BY <1>2, InvParts DEF Own
<1>6. QED
  BY <1>1, <1>4, <1>5, InvPartsNext

(* A file that is written overtakes the other exports of its day. *)
LEMMA WriteKeepsInv ==
  ASSUME ExcelInv, NEW e \in Exports, WriteFile(e)
  PROVE  ExcelInv'
<1> DEFINE new == [NoExport EXCEPT !.pc = "open", !.day = today]
           hit(x) == [exp[x] EXCEPT !.over = TRUE, !.src = IF exp[x].linked THEN e ELSE @]
<1>1. today \in Days /\ file' = [file EXCEPT ![today] = e] /\ UNCHANGED <<today, leftover>>
  BY DEF ExcelInv, ExcelTypeOK, WriteFile
<1>2. \A x \in Exports : exp'[x] = IF x = e THEN new
                                   ELSE IF Busy(x, today) THEN hit(x) ELSE exp[x]
  BY DEF WriteFile
<1>3. /\ new \in ExportSlot /\ new.pc = "open" /\ new.day = today /\ new.sent = NoFile
      /\ \A x \in Exports : hit(x) \in ExportSlot /\ hit(x).over = TRUE
                            /\ hit(x).pc = exp[x].pc /\ hit(x).day = exp[x].day
  <2>1. new \in ExportSlot /\ new.pc = "open" /\ new.day = today /\ new.sent = NoFile
    BY <1>1 DEF NoExport, ExportSlot
  <2>2. ASSUME NEW x \in Exports
        PROVE  /\ hit(x) \in ExportSlot /\ hit(x).over = TRUE
               /\ hit(x).pc = exp[x].pc /\ hit(x).day = exp[x].day
    <3>1. exp[x] \in ExportSlot
      BY DEF ExcelInv, ExcelTypeOK
    <3>2. (IF exp[x].linked THEN e ELSE exp[x].src) \in Exports \cup {NoFile}
      BY <3>1 DEF ExportSlot
    <3>3. QED
      BY <3>1, <3>2 DEF ExportSlot
  <2>3. QED
    BY <2>1, <2>2
<1>4. ExcelTypeOK'
  <2>1. exp' \in [Exports -> ExportSlot]
    <3>1. \A x \in Exports : exp'[x] \in ExportSlot
      BY <1>2, <1>3 DEF ExcelInv, ExcelTypeOK
    <3>2. QED
      BY <3>1 DEF WriteFile
  <2>2. QED
    BY <1>1, <2>1 DEF ExcelInv, ExcelTypeOK
<1> HIDE DEF new, hit
<1>5. Busy(e, today)' /\ \A x \in Exports, d \in Days : Busy(x, d) => Busy(x, d)'
  <2>1. Busy(e, today)'
    <3>1. exp'[e].pc = "open" /\ exp'[e].day = today /\ today' = today
      BY <1>1, <1>2, <1>3
    <3>2. QED
      BY <3>1 DEF Busy
  <2>2. ASSUME NEW x \in Exports, NEW d \in Days, Busy(x, d)
        PROVE  Busy(x, d)'
    <3>1. x # e
      BY <2>2 DEF Busy, WriteFile
    <3>2. exp'[x].pc = exp[x].pc /\ exp'[x].day = exp[x].day
      BY <1>2, <1>3, <3>1
    <3>3. QED
      BY <2>2, <3>2 DEF Busy
  <2>3. QED
    BY <2>1, <2>2
<1>6. NoFileLeft'
  BY <1>1, <1>5 DEF ExcelInv, ExcelTypeOK, NoFileLeft
<1>7. \A x \in Exports : Own(x)'
  <2> SUFFICES ASSUME NEW x \in Exports PROVE Own(x)'
    OBVIOUS
  <2>1. CASE x = e
    BY <1>1, <1>2, <1>3, <2>1 DEF Own, ExcelInv, ExcelTypeOK
  <2>2. CASE x # e /\ Busy(x, today)
    BY <1>2, <1>3, <2>2 DEF Own
  <2>3. CASE x # e /\ ~Busy(x, today)
    BY <1>1, <1>2, <2>3, InvParts DEF Own, Busy, ExcelTypeOK
  <2>4. QED
    BY <2>1, <2>2, <2>3
<1>8. QED
  BY <1>4, <1>6, <1>7, InvPartsNext

(* A file that is deleted is lost to the other exports of its day. *)
LEMMA UnlinkKeepsInv ==
  ASSUME ExcelInv, NEW e \in Exports, Unlink(e)
  PROVE  ExcelInv'
<1> DEFINE d0 == exp[e].day
           hit(x) == [exp[x] EXCEPT !.lost = TRUE, !.linked = FALSE]
<1>1. /\ d0 \in Days
      /\ file' = [file EXCEPT ![d0] = NoFile]
      /\ leftover' = leftover \ {d0}
      /\ UNCHANGED today
  BY DEF ExcelInv, ExcelTypeOK, ExportSlot, Unlink
<1>2. \A x \in Exports : exp'[x] = IF x = e THEN NoExport
                                   ELSE IF Busy(x, d0) THEN hit(x) ELSE exp[x]
  BY DEF Unlink, Deleted
<1>3. \A x \in Exports :
        /\ hit(x) \in ExportSlot
        /\ hit(x).lost = TRUE /\ hit(x).over = exp[x].over /\ hit(x).pc = exp[x].pc
        /\ hit(x).day = exp[x].day /\ hit(x).src = exp[x].src
        /\ hit(x).sent = exp[x].sent /\ hit(x).cut = exp[x].cut
  <2>1. \A x \in Exports : exp[x] \in ExportSlot
    BY DEF ExcelInv, ExcelTypeOK
  <2>2. QED
    BY <2>1 DEF ExportSlot
<1>4. ExcelTypeOK'
  <2>1. exp' \in [Exports -> ExportSlot]
    <3>1. \A x \in Exports : exp'[x] \in ExportSlot
      BY <1>2, <1>3, NoExportFits DEF ExcelInv, ExcelTypeOK
    <3>2. QED
      BY <3>1 DEF Unlink, Deleted
  <2>2. QED
    BY <1>1, <2>1 DEF ExcelInv, ExcelTypeOK
<1> HIDE DEF hit
<1>5. \A x \in Exports \ {e}, d \in Days : Busy(x, d) => Busy(x, d)'
  BY <1>2, <1>3 DEF Busy
<1>6. \A d \in Days \ {d0} : ~Busy(e, d)
  BY DEF Busy
<1>7. NoFileLeft'
  BY <1>1, <1>5, <1>6 DEF ExcelInv, ExcelTypeOK, NoFileLeft
<1>8. \A x \in Exports : Own(x)'
  <2> SUFFICES ASSUME NEW x \in Exports PROVE Own(x)'
    OBVIOUS
  <2>1. CASE x = e
    BY <1>2, <2>1, NoExportFits DEF Own
  <2>2. CASE x # e /\ Busy(x, d0)
    <3>1. exp[x].day = d0 /\ file'[d0] = NoFile
      BY <1>1, <2>2 DEF Busy, ExcelInv, ExcelTypeOK
    <3>2. Own(x)
      BY InvParts
    <3>3. exp'[x] = hit(x)
      BY <1>2, <2>2
    <3>4. QED
      BY <1>3, <3>1, <3>2, <3>3 DEF Own
  <2>3. CASE x # e /\ ~Busy(x, d0)
    BY <1>1, <1>2, <2>3, InvParts DEF Own, Busy, ExcelTypeOK
  <2>4. QED
    BY <2>1, <2>2, <2>3
<1>9. QED
  BY <1>4, <1>7, <1>8, InvPartsNext

(* Every step keeps the invariant. *)
LEMMA ExcelStepInv == ExcelInv /\ [ExcelNext]_excelVars => ExcelInv'
<1> SUFFICES ASSUME ExcelInv, [ExcelNext]_excelVars PROVE ExcelInv'
  OBVIOUS
<1>0. ExcelTypeOK /\ \A e \in Exports : exp[e] \in ExportSlot /\ Own(e)
  BY InvParts DEF ExcelTypeOK
<1>1. ASSUME NEW e \in Exports, ExportRequest(e) PROVE ExcelInv'
  <2> DEFINE q == [exp[e] EXCEPT !.pc = "query"]
  <2>1. q \in ExportSlot /\ q.pc = "query"
    BY <1>0 DEF ExportSlot
  <2>2. exp' = [exp EXCEPT ![e] = q] /\ ~Busy(e, exp[e].day)
    BY <1>1 DEF ExportRequest, Busy
  <2>3. QED
    BY <1>1, <2>1, <2>2, OneExport DEF ExportRequest
<1>2. ASSUME NEW e \in Exports, OpenFile(e) PROVE ExcelInv'
  <2>1. CASE file[exp[e].day] # NoFile
    <3> DEFINE q == [exp[e] EXCEPT !.pc = "read", !.linked = TRUE, !.src = file[exp[e].day]]
    <3>1. exp' = [exp EXCEPT ![e] = q] /\ exp[e].pc = "open"
      BY <1>2, <2>1 DEF OpenFile
    <3>2. /\ q \in ExportSlot /\ q.pc = "read" /\ q.day = exp[e].day
          /\ q.over = exp[e].over /\ q.src = file[exp[e].day]
      BY <1>0 DEF ExportSlot, ExcelTypeOK
    <3>3. ~q.over => q.src = e
      BY <1>0, <2>1, <3>1, <3>2 DEF Own
    <3>4. QED
      BY <1>2, <3>1, <3>2, <3>3, OneExport DEF OpenFile
  <2>2. CASE file[exp[e].day] = NoFile
    <3> DEFINE q == [exp[e] EXCEPT !.pc = "unlink"]
    <3>1. exp' = [exp EXCEPT ![e] = q] /\ exp[e].pc = "open"
      BY <1>2, <2>2 DEF OpenFile
    <3>2. /\ q \in ExportSlot /\ q.pc = "unlink" /\ q.day = exp[e].day
          /\ q.over = exp[e].over /\ q.sent = exp[e].sent /\ q.lost = exp[e].lost
      BY <1>0 DEF ExportSlot
    <3>3. ~q.over => q.sent = NoFile /\ q.lost
      BY <1>0, <2>2, <3>1, <3>2, NoFileAssumption DEF Own
    <3>4. QED
      BY <1>2, <3>1, <3>2, <3>3, OneExport DEF OpenFile
  <2>3. QED
    BY <2>1, <2>2
<1>3. ASSUME NEW e \in Exports, ReadFile(e) PROVE ExcelInv'
  <2> DEFINE q == [exp[e] EXCEPT !.pc = "unlink", !.sent = exp[e].src, !.linked = FALSE]
  <2>1. exp' = [exp EXCEPT ![e] = q] /\ exp[e].pc = "read"
    BY <1>3 DEF ReadFile
  <2>2. /\ q \in ExportSlot /\ q.pc = "unlink" /\ q.day = exp[e].day
        /\ q.over = exp[e].over /\ q.sent = exp[e].src
    BY <1>0 DEF ExportSlot
  <2>3. ~q.over => q.sent = e
    BY <1>0, <2>1, <2>2 DEF Own
  <2>4. QED
    BY <1>3, <2>1, <2>2, <2>3, OneExport DEF ReadFile
<1>4. ASSUME NEW e \in Exports, ClientGone(e) PROVE ExcelInv'
  <2> DEFINE q == [exp[e] EXCEPT !.pc = "unlink", !.cut = TRUE, !.linked = FALSE]
  <2>1. exp' = [exp EXCEPT ![e] = q]
    BY <1>4 DEF ClientGone
  <2>2. q \in ExportSlot /\ q.pc = "unlink" /\ q.day = exp[e].day /\ q.cut = TRUE
    BY <1>0 DEF ExportSlot
  <2>3. QED
    BY <1>4, <2>1, <2>2, OneExport DEF ClientGone
<1>5. ASSUME NEW e \in Exports, QueryFails(e) PROVE ExcelInv'
  <2>1. ~Busy(e, exp[e].day)
    BY <1>5 DEF QueryFails, Busy
  <2>2. QED
    BY <1>5, <2>1, NoExportFits, OneExport DEF QueryFails
<1>6. CASE ProcessEnds
  <2>1. ExcelTypeOK'
    BY <1>6, NoExportFits DEF ProcessEnds, ExcelInv, ExcelTypeOK
  <2>2. NoFileLeft'
    BY <1>6 DEF ProcessEnds, NoFileLeft
  <2>3. \A e \in Exports : Own(e)'
    BY <1>6, NoExportFits DEF ProcessEnds, Own
  <2>4. QED
    BY <2>1, <2>2, <2>3, InvPartsNext
<1>7. CASE NextDay
  <2>1. ExcelTypeOK'
    BY <1>7, LastDayAssumption DEF NextDay, ExcelInv, ExcelTypeOK, Days
  <2>2. NoFileLeft'
    BY <1>7 DEF NextDay, ExcelInv, NoFileLeft, Busy
  <2>3. \A e \in Exports : Own(e)'
    BY <1>0, <1>7 DEF NextDay, Own
  <2>4. QED
    BY <2>1, <2>2, <2>3, InvPartsNext
<1>8. CASE UNCHANGED excelVars
  BY <1>8 DEF excelVars, ExcelInv, ExcelTypeOK, OwnDataSent, NoFileLeft, Busy
<1>9. QED
  BY <1>1, <1>2, <1>3, <1>4, <1>5, <1>6, <1>7, <1>8, WriteKeepsInv, UnlinkKeepsInv
  DEF ExcelNext, ExportStep

(* The inductive invariant. *)
THEOREM ExcelInvariant == ExcelSpec => []ExcelInv
BY ExcelInitInv, ExcelStepInv, PTL DEF ExcelSpec

(* An export that nothing overtook sends its own rows. *)
THEOREM ExportSendsOwn == ExcelSpec => []OwnDataSent
<1>1. ExcelInv => OwnDataSent
  BY DEF ExcelInv
<1>2. QED
  BY <1>1, ExcelInvariant, PTL

(* The clean-ups leave no file behind. *)
THEOREM ExportCleansUp == ExcelSpec => []NoFileLeft
<1>1. ExcelInv => NoFileLeft
  BY DEF ExcelInv
<1>2. QED
  BY <1>1, ExcelInvariant, PTL

----------------------------------------------------------------------------
(* WsNotice.  A client whose user's menus have changed has a notice under way *)
(* that will reach it, or its notice went to a user with the id of a role.   *)

(* No client and no notice at the beginning. *)
LEMMA StaleInit == WsInit => StaleInv
BY NoUserAssumption DEF WsInit, StaleInv, StaleTypes, StaleNoticed, NoNotice, NoticeSlot

(* Nobody waits to be told who is not connected. *)
LEMMA OfflineFresh ==
  ASSUME StaleInv, NEW s \in Sockets, s \notin OnlineSockets
  PROVE  stale[s] = {}
<1>1. uid[s] = NoUser
  BY DEF OnlineSockets
<1>2. \A r \in stale[s] : <<uid[s], r>> \in Users \X Roles
  BY DEF StaleInv, StaleTypes
<1> QED BY <1>1, <1>2, NoUserAssumption

(* Closing or telling clients, while the notices go on as they were or       *)
(* everyone is told.                                                        *)
LEMMA FewerStale ==
  ASSUME StaleInv, StaleTypes', userRole' = userRole, notice' = notice,
         \A s \in Sockets :
           \/ stale'[s] = {}
           \/ stale'[s] = stale[s] /\ missed'[s] = missed[s] /\ uid'[s] = uid[s]
  PROVE  StaleInv'
BY DEF StaleInv, StaleNoticed

(* The same where nobody waits any more. *)
LEMMA NoneStale ==
  ASSUME StaleTypes', \A s \in Sockets : stale'[s] = {},
         \A n \in Notices : notice'[n].pc # "emit" => notice'[n].ids = {},
         \A n \in Notices : notice'[n].pc = "idle" => notice'[n].roles = {}
  PROVE  StaleInv'
BY DEF StaleInv, StaleNoticed

(* A client that connects is up to date. *)
LEMMA StaleConnect ==
  ASSUME StaleInv, NEW s \in Sockets, NEW u \in Users, HandleConnection(s, u)
  PROVE  StaleInv'
<1>1. stale[s] = {}
  BY OfflineFresh DEF HandleConnection
<1>2. StaleTypes'
  BY DEF HandleConnection, StaleInv, StaleTypes
<1>3. \A x \in Sockets :
        \/ stale'[x] = {}
        \/ stale'[x] = stale[x] /\ missed'[x] = missed[x] /\ uid'[x] = uid[x]
  BY <1>1 DEF HandleConnection, StaleInv, StaleTypes
<1> QED BY <1>2, <1>3, FewerStale DEF HandleConnection

(* Sockets closed, by the client or by a kick. *)
LEMMA StaleClose ==
  ASSUME StaleInv, NEW S, Close(S), userRole' = userRole, notice' = notice
  PROVE  StaleInv'
<1>1. StaleTypes'
  BY DEF Close, StaleInv, StaleTypes
<1>2. \A x \in Sockets :
        \/ stale'[x] = {}
        \/ stale'[x] = stale[x] /\ missed'[x] = missed[x] /\ uid'[x] = uid[x]
  BY DEF Close, StaleInv, StaleTypes
<1> QED BY <1>1, <1>2, FewerStale

(* A restart leaves neither clients nor notices. *)
LEMMA StaleServerEnds ==
  ASSUME StaleInv, ServerEnds
  PROVE  StaleInv'
<1>1. StaleTypes'
  BY DEF ServerEnds, Close, StaleInv, StaleTypes, NoNotice, NoticeSlot
<1>2. \A s \in Sockets : stale'[s] = {}
  BY OfflineFresh DEF ServerEnds, Close
<1>3. \A n \in Notices : notice'[n].ids = {} /\ notice'[n].roles = {}
  BY DEF ServerEnds, NoNotice
<1> QED BY <1>1, <1>2, <1>3, NoneStale

(* A client no longer waits for a role its user loses. *)
LEMMA StaleUserRole ==
  ASSUME StaleInv, NEW u \in Users, NEW r \in Roles, ChangeUserRole(u, r)
  PROVE  StaleInv'
<1>1. StaleTypes'
  BY DEF ChangeUserRole, StaleInv, StaleTypes
<1>2. \A s \in Sockets : /\ stale'[s] \subseteq stale[s] /\ (uid[s] = u => r \notin stale'[s])
                         /\ stale'[s] \ missed'[s] \subseteq stale[s] \ missed[s]
  BY DEF ChangeUserRole, StaleInv, StaleTypes
<1>3. \A s \in Sockets : \A q \in stale'[s] : <<uid'[s], q>> \in userRole'
  <2> SUFFICES ASSUME NEW s \in Sockets, NEW q \in stale'[s]
               PROVE  <<uid[s], q>> \in userRole'
    BY DEF ChangeUserRole
  <2>1. <<uid[s], q>> \in userRole
    BY <1>2 DEF StaleInv
  <2>2. <<uid[s], q>> # <<u, r>>
    BY <1>2
  <2> QED BY <2>1, <2>2 DEF ChangeUserRole
<1>4. notice' = notice
  BY DEF ChangeUserRole
<1>5. StaleNoticed'
  BY <1>2, <1>4 DEF StaleNoticed, StaleInv
<1> QED BY <1>1, <1>3, <1>4, <1>5 DEF StaleInv

(* What a change of menus does to the clients and the notices: the roles in C  *)
(* are stale, and missed but for those in N, for which a notice begins; a    *)
(* role that a notice loses is among them.                                  *)
LEMMA StaleChanged ==
  ASSUME StaleInv, StaleTypes', NEW C \in SUBSET Roles, NEW N \in SUBSET Roles,
         MenusChange(C, N), UNCHANGED <<uid, userRole>>,
         \A r \in N : \E n \in Notices : r \in notice'[n].roles /\ notice'[n].pc # "emit",
         \A n \in Notices : /\ notice'[n].pc # "emit" => notice'[n].ids = {}
                            /\ notice'[n].pc = "idle" => notice'[n].roles = {},
         \A n \in Notices : notice[n].pc # "idle" =>
           /\ notice'[n].pc = notice[n].pc /\ notice'[n].ids = notice[n].ids
           /\ notice[n].roles \ (C \cup N) \subseteq notice'[n].roles
  PROVE  StaleInv'
<1>1. \A s \in Sockets :
        /\ stale'[s] = stale[s] \cup {r \in C : <<uid[s], r>> \in userRole}
        /\ missed'[s] = (missed[s] \cup {r \in C : <<uid[s], r>> \in userRole}) \ N
  BY DEF MenusChange
<1>2. StaleNoticed'
  <2> SUFFICES ASSUME NEW s \in Sockets, NEW r \in stale'[s], r \notin missed'[s]
               PROVE  \E n \in Notices : r \in notice'[n].roles
                        /\ (notice'[n].pc = "emit" => r \in notice'[n].ids)
    BY DEF StaleNoticed
  <2>1. CASE r \in N
    BY <2>1
  <2>2. CASE r \notin N
    <3>1. r \in stale[s] /\ r \notin missed[s] /\ ~(r \in C /\ <<uid[s], r>> \in userRole)
      BY <2>2, <1>1
    <3>2. r \notin C
      BY <3>1 DEF StaleInv
    <3>3. PICK n \in Notices : r \in notice[n].roles /\ (notice[n].pc = "emit" => r \in notice[n].ids)
      BY <3>1 DEF StaleInv, StaleNoticed
    <3>4. notice[n].pc # "idle"
      BY <3>3 DEF StaleInv
    <3> QED BY <2>2, <3>2, <3>3, <3>4
  <2> QED BY <2>1, <2>2
<1>3. \A s \in Sockets : \A r \in stale'[s] : <<uid'[s], r>> \in userRole'
  BY <1>1 DEF StaleInv
<1> QED BY <1>2, <1>3 DEF StaleInv

(* A notice whose roles lose their rows goes on with fewer roles. *)
LEMMA RowsLostSlot ==
  ASSUME notice \in [Notices -> NoticeSlot], NEW lost, NEW m \in Notices
  PROVE  /\ RowsLost(lost)[m].pc = notice[m].pc /\ RowsLost(lost)[m].ids = notice[m].ids
         /\ RowsLost(lost)[m].roles = {r \in notice[m].roles : <<m, r>> \notin lost}
         /\ RowsLost(lost)[m] \in NoticeSlot
<1> DEFINE rs == {r \in notice[m].roles : <<m, r>> \notin lost}
<1>1. notice[m] \in NoticeSlot
  OBVIOUS
<1>2. rs \in SUBSET Roles
  BY <1>1 DEF NoticeSlot
<1>3. RowsLost(lost)[m] = [notice[m] EXCEPT !.roles = rs]
  BY DEF RowsLost
<1> HIDE DEF rs
<1>4. /\ RowsLost(lost)[m].pc = notice[m].pc /\ RowsLost(lost)[m].ids = notice[m].ids
      /\ RowsLost(lost)[m].roles = rs
  BY <1>1, <1>3 DEF NoticeSlot
<1>5. RowsLost(lost)[m] \in NoticeSlot
  BY <1>1, <1>2, <1>3 DEF NoticeSlot
<1> QED BY <1>4, <1>5 DEF rs

(* A role saved: its own notice begins, the roles that lose menus with it are  *)
(* given none.                                                              *)
LEMMA StaleSaveRole ==
  ASSUME StaleInv, NEW n \in Notices, NEW r \in Roles, NEW S \in SUBSET (Roles \ {r}),
         NEW lost \in SUBSET (Asking \X (S \cup {r})), SaveRole(n, r, S, lost)
  PROVE  StaleInv'
<1>0. notice \in [Notices -> NoticeSlot]
  BY DEF StaleInv, StaleTypes
<1>1. /\ notice'[n].pc = "roles" /\ notice'[n].roles = {r} /\ notice'[n].ids = {}
      /\ \A m \in Notices \ {n} : notice'[m] = RowsLost(lost)[m]
  BY DEF SaveRole, RowsLost, NoNotice
<1>2. \A m \in Notices \ {n} :
        /\ notice'[m].pc = notice[m].pc /\ notice'[m].ids = notice[m].ids
        /\ notice'[m].roles = {q \in notice[m].roles : <<m, q>> \notin lost}
        /\ notice'[m] \in NoticeSlot
  BY <1>0, <1>1, RowsLostSlot
<1>3. notice'[n] \in NoticeSlot
  BY DEF SaveRole, RowsLost, NoNotice, NoticeSlot
<1>4. notice' \in [Notices -> NoticeSlot]
  BY <1>2, <1>3 DEF SaveRole, RowsLost
<1>5. StaleTypes'
  BY <1>4 DEF SaveRole, MenusChange, StaleInv, StaleTypes
<1>6. \A m \in Notices : /\ notice'[m].pc # "emit" => notice'[m].ids = {}
                         /\ notice'[m].pc = "idle" => notice'[m].roles = {}
  BY <1>1, <1>2 DEF StaleInv
<1>7. \A m \in Notices : notice[m].pc # "idle" =>
        /\ notice'[m].pc = notice[m].pc /\ notice'[m].ids = notice[m].ids
        /\ notice[m].roles \ ((S \cup {r}) \cup {r}) \subseteq notice'[m].roles
  <2>1. notice[n].pc = "idle"
    BY DEF SaveRole
  <2>2. \A m \in Notices \ {n} :
          /\ notice'[m].pc = notice[m].pc /\ notice'[m].ids = notice[m].ids
          /\ notice[m].roles \ (S \cup {r}) \subseteq notice'[m].roles
    BY <1>2
  <2> QED BY <2>1, <2>2
<1>8. MenusChange(S \cup {r}, {r}) /\ UNCHANGED <<uid, userRole>>
  BY DEF SaveRole
<1>10. \A q \in {r} : \E m \in Notices : q \in notice'[m].roles /\ notice'[m].pc # "emit"
  BY <1>1
<1>11. S \cup {r} \in SUBSET Roles /\ {r} \in SUBSET Roles
  OBVIOUS
<1> QED BY <1>5, <1>6, <1>7, <1>8, <1>10, <1>11, StaleChanged

(* Menus deleted: the roles that have rows of them are given the notice. *)
LEMMA StaleDeleteMenus ==
  ASSUME StaleInv, NEW n \in Notices, NEW R \in SUBSET Roles, DeleteMenus(n, R)
  PROVE  StaleInv'
<1>1. /\ notice'[n].pc = "menus" /\ notice'[n].roles = R /\ notice'[n].ids = {}
      /\ \A m \in Notices \ {n} : notice'[m] = notice[m]
  BY DEF DeleteMenus, NoNotice, StaleInv, StaleTypes
<1>2. StaleTypes'
  BY RootAssumption DEF DeleteMenus, MenusChange, StaleInv, StaleTypes, NoNotice, NoticeSlot
<1>3. \A m \in Notices : /\ notice'[m].pc # "emit" => notice'[m].ids = {}
                         /\ notice'[m].pc = "idle" => notice'[m].roles = {}
  BY <1>1 DEF StaleInv
<1>4. \A m \in Notices : notice[m].pc # "idle" =>
        /\ notice'[m].pc = notice[m].pc /\ notice'[m].ids = notice[m].ids
        /\ notice[m].roles \ ((R \cup {Root}) \cup R) \subseteq notice'[m].roles
  BY <1>1 DEF DeleteMenus
<1>5. MenusChange(R \cup {Root}, R) /\ UNCHANGED <<uid, userRole>>
  BY DEF DeleteMenus
<1>7. \A q \in R : \E m \in Notices : q \in notice'[m].roles /\ notice'[m].pc # "emit"
  BY <1>1
<1>8. R \cup {Root} \in SUBSET Roles
  BY RootAssumption
<1> QED BY <1>2, <1>3, <1>4, <1>5, <1>7, <1>8, StaleChanged

(* A change that is given no notice. *)
LEMMA StaleUnnoticed ==
  ASSUME StaleInv, NEW S \in SUBSET Roles, NEW lost \in SUBSET (Asking \X S),
         ChangeUnnoticed(S, lost)
  PROVE  StaleInv'
<1>0. notice \in [Notices -> NoticeSlot]
  BY DEF StaleInv, StaleTypes
<1>1. \A m \in Notices : notice'[m] = RowsLost(lost)[m]
  BY DEF ChangeUnnoticed
<1>2. \A m \in Notices :
        /\ notice'[m].pc = notice[m].pc /\ notice'[m].ids = notice[m].ids
        /\ notice'[m].roles = {q \in notice[m].roles : <<m, q>> \notin lost}
        /\ notice'[m] \in NoticeSlot
  BY <1>0, <1>1, RowsLostSlot
<1>3. notice' \in [Notices -> NoticeSlot]
  BY <1>2 DEF ChangeUnnoticed, RowsLost
<1>4. StaleTypes'
  BY <1>3 DEF ChangeUnnoticed, MenusChange, StaleInv, StaleTypes
<1>5. \A m \in Notices : /\ notice'[m].pc # "emit" => notice'[m].ids = {}
                         /\ notice'[m].pc = "idle" => notice'[m].roles = {}
  BY <1>2 DEF StaleInv
<1>6. \A m \in Notices : notice[m].pc # "idle" =>
        /\ notice'[m].pc = notice[m].pc /\ notice'[m].ids = notice[m].ids
        /\ notice[m].roles \ (S \cup {}) \subseteq notice'[m].roles
  BY <1>2
<1>7. MenusChange(S, {}) /\ UNCHANGED <<uid, userRole>>
  BY DEF ChangeUnnoticed
<1>9. \A q \in {} : \E m \in Notices : q \in notice'[m].roles /\ notice'[m].pc # "emit"
  OBVIOUS
<1> QED BY <1>4, <1>5, <1>6, <1>7, <1>9, StaleChanged

(* A notice that reads takes no one's role away. *)
LEMMA StaleNoticeMenus ==
  ASSUME StaleInv, NEW n \in Notices, NoticeMenus(n)
  PROVE  StaleInv'
<1>1. StaleTypes'
  BY DEF NoticeMenus, StaleInv, StaleTypes, NoticeSlot
<1>2. \A m \in Notices : /\ notice'[m].roles = notice[m].roles /\ notice'[m].ids = notice[m].ids
                         /\ notice'[m].pc = IF m = n THEN "roles" ELSE notice[m].pc
  BY DEF NoticeMenus, StaleInv, StaleTypes, NoticeSlot
<1>3. notice[n].pc = "menus"
  BY DEF NoticeMenus
<1>4. uid' = uid /\ userRole' = userRole /\ UNCHANGED <<stale, missed>>
  BY DEF NoticeMenus
<1>5. StaleNoticed'
  BY <1>2, <1>4 DEF StaleNoticed, StaleInv
<1> QED BY <1>1, <1>2, <1>3, <1>4, <1>5 DEF StaleInv

(* The search of a notice: it finds the roles that have users. *)
LEMMA StaleNoticeRoles ==
  ASSUME StaleInv, NEW n \in Notices, NoticeRoles(n)
  PROVE  StaleInv'
<1> DEFINE ids == {r \in notice[n].roles : \E u \in Users : <<u, r>> \in userRole}
<1>1. StaleTypes'
  <2>1. notice[n] \in NoticeSlot /\ notice \in [Notices -> NoticeSlot]
    BY DEF StaleInv, StaleTypes
  <2>2. ids \in SUBSET Roles
    BY <2>1 DEF NoticeSlot
  <2>3. notice' = [notice EXCEPT ![n] = [@ EXCEPT !.pc = "emit", !.ids = ids]]
    BY <2>1 DEF NoticeRoles
  <2> HIDE DEF ids
  <2>4. notice' \in [Notices -> NoticeSlot]
    BY <2>1, <2>2, <2>3 DEF NoticeSlot
  <2> QED BY <2>4 DEF NoticeRoles, StaleInv, StaleTypes
<1>2. \A m \in Notices : /\ notice'[m].roles = notice[m].roles
                         /\ notice'[m].ids = IF m = n THEN ids ELSE notice[m].ids
                         /\ notice'[m].pc = IF m = n THEN "emit" ELSE notice[m].pc
  BY DEF NoticeRoles, StaleInv, StaleTypes, NoticeSlot
<1>3. uid' = uid /\ userRole' = userRole /\ UNCHANGED <<stale, missed>>
  BY DEF NoticeRoles
<1>4. \A s \in Sockets : \A r \in stale[s] : uid[s] \in Users /\ <<uid[s], r>> \in userRole
  BY DEF StaleInv, StaleTypes
<1>5. StaleNoticed'
  <2> SUFFICES ASSUME NEW s \in Sockets, NEW r \in stale[s], r \notin missed[s]
               PROVE  \E m \in Notices : r \in notice'[m].roles
                        /\ (notice'[m].pc = "emit" => r \in notice'[m].ids)
    BY <1>3 DEF StaleNoticed
  <2>1. PICK m \in Notices : r \in notice[m].roles /\ (notice[m].pc = "emit" => r \in notice[m].ids)
    BY DEF StaleInv, StaleNoticed
  <2>2. m = n => r \in ids
    BY <2>1, <1>4
  <2> QED BY <2>1, <2>2, <1>2
<1> QED BY <1>1, <1>2, <1>3, <1>5 DEF StaleInv

(* A notice that finds no socket tells everyone; one that finds a socket of   *)
(* a user with the id of a role misses the others.                          *)
LEMMA StaleEmit ==
  ASSUME StaleInv, NEW n \in Notices, Emit(n)
  PROVE  StaleInv'
<1> DEFINE found == SocketsOf(notice[n].ids)
<1>1. StaleTypes'
  BY DEF Emit, Told, StaleInv, StaleTypes, NoNotice, NoticeSlot
<1>2. /\ notice'[n].pc = "idle" /\ notice'[n].roles = {} /\ notice'[n].ids = {}
      /\ \A m \in Notices \ {n} : notice'[m] = notice[m]
  BY DEF Emit, StaleInv, StaleTypes, NoNotice
<1>3. CASE found = {}
  <2>1. \A s \in Sockets : s \in OnlineSockets => stale'[s] = {}
    BY <1>3 DEF Emit, Told
  <2>2. \A s \in Sockets : s \notin OnlineSockets => stale'[s] = {}
    BY <1>3, OfflineFresh DEF Emit, Told
  <2>3. \A m \in Notices : /\ notice'[m].pc # "emit" => notice'[m].ids = {}
                           /\ notice'[m].pc = "idle" => notice'[m].roles = {}
    BY <1>2 DEF StaleInv
  <2> QED BY <1>1, <2>1, <2>2, <2>3, NoneStale
<1>4. CASE found # {}
  <2>1. UNCHANGED <<uid, userRole>>
    BY <1>4 DEF Emit
  <2>2. \A s \in Sockets :
          /\ stale'[s] \subseteq stale[s]
          /\ stale'[s] \ missed'[s] \subseteq (stale[s] \ missed[s]) \ notice[n].roles
    BY <1>4 DEF Emit, Told
  <2>3. StaleNoticed'
    <3> SUFFICES ASSUME NEW s \in Sockets, NEW r \in stale[s], r \notin missed[s],
                        r \notin notice[n].roles
                 PROVE  \E m \in Notices : r \in notice'[m].roles
                          /\ (notice'[m].pc = "emit" => r \in notice'[m].ids)
      BY <2>1, <2>2 DEF StaleNoticed
    <3>1. PICK m \in Notices : r \in notice[m].roles /\ (notice[m].pc = "emit" => r \in notice[m].ids)
      BY DEF StaleInv, StaleNoticed
    <3> QED BY <3>1, <1>2
  <2>4. \A s \in Sockets : \A r \in stale'[s] : <<uid'[s], r>> \in userRole'
    BY <2>1, <2>2 DEF StaleInv
  <2> QED BY <1>1, <1>2, <2>3, <2>4 DEF StaleInv
<1> QED BY <1>3, <1>4

(* Kicks change the sockets only when they close one. *)
LEMMA StaleKick ==
  ASSUME StaleInv, UNCHANGED <<earlier, uid, userRole, notice, stale, missed>>
  PROVE  StaleInv'
BY DEF StaleInv, StaleTypes, StaleNoticed

(* Every step keeps the strengthening. *)
LEMMA StaleNext ==
  ASSUME StaleInv, [WsNext]_wsVars
  PROVE  StaleInv'
<1>1. CASE \E s \in Sockets, u \in Users : HandleConnection(s, u)
  BY <1>1, StaleConnect
<1>2. CASE \E s \in Sockets : HandleDisconnect(s)
  BY <1>2, StaleClose DEF HandleDisconnect
<1>3. CASE \E u \in Users, r \in Roles : ChangeUserRole(u, r)
  BY <1>3, StaleUserRole
<1>4. CASE \E n \in Notices, r \in Roles : \E S \in SUBSET (Roles \ {r}) :
        \E lost \in SUBSET (Asking \X (S \cup {r})) : SaveRole(n, r, S, lost)
  BY <1>4, StaleSaveRole
<1>5. CASE \E n \in Notices : \E R \in SUBSET Roles : DeleteMenus(n, R)
  BY <1>5, StaleDeleteMenus
<1>11. CASE \E S \in SUBSET Roles : \E lost \in SUBSET (Asking \X S) : ChangeUnnoticed(S, lost)
  BY <1>11, StaleUnnoticed
<1>6. ASSUME NEW n \in Notices, NoticeStep(n) PROVE StaleInv'
  BY <1>6, StaleNoticeMenus, StaleNoticeRoles, StaleEmit DEF NoticeStep
<1>7. ASSUME NEW k \in Kicks, KickClose(k) PROVE StaleInv'
  BY <1>7, StaleClose DEF KickClose
<1>8. ASSUME NEW k \in Kicks, KickUser(k) \/ KickFails(k) \/ \E u \in Users : KickRequest(k, u)
      PROVE  StaleInv'
  BY <1>8, StaleKick DEF KickUser, KickFails, KickRequest
<1>9. CASE ServerEnds
  BY <1>9, StaleServerEnds
<1>10. CASE UNCHANGED wsVars
  BY <1>10, StaleKick DEF wsVars
<1> QED BY <1>1, <1>2, <1>3, <1>4, <1>5, <1>6, <1>7, <1>8, <1>9, <1>10,
           <1>11 DEF WsNext, KickStep

(* The strengthening of StaleNoticed is an invariant of the gateway. *)
THEOREM StaleInvariant == WsSpec => []StaleInv
<1>1. WsInit => StaleInv
  BY StaleInit
<1>2. StaleInv /\ [WsNext]_wsVars => StaleInv'
  BY StaleNext
<1> QED BY <1>1, <1>2, PTL DEF WsSpec

(* A client that has not been told of its user's new menus has a notice      *)
(* under way that looks for its user's role, unless one went to others      *)
(* (admin-ws.service.ts:96) or the role's last change was given no notice    *)
(* (role.service.ts:376).                                                   *)
THEOREM StaleIsNoticed == WsSpec => []StaleNoticed
<1>1. StaleInv => StaleNoticed
  BY DEF StaleInv
<1> QED BY <1>1, StaleInvariant, PTL

(* A step that leaves the holders of the root role, or marks the kicks that   *)
(* are about to close a socket.                                            *)
LEMMA SpareRest ==
  ASSUME KickSparesRoot, RootUsers' = RootUsers,
         \A k \in Kicks : kick'[k] = kick[k] \/ kick'[k].pc # "close"
  PROVE  KickSparesRoot'
<1>1. FindRootUser' = FindRootUser
  BY DEF FindRootUser
<1> QED BY <1>1 DEF KickSparesRoot

(* Kicks have the type of their slots. *)
KickTypes == kick \in [Kicks -> KickSlot]

(* Every step keeps a kick off the root user. *)
LEMMA SpareStep ==
  ASSUME KickTypes, KickSparesRoot, [WsNext]_wsVars
  PROVE  KickTypes' /\ KickSparesRoot'
<1>0. NoKick \in KickSlot /\ NoKick.pc = "idle"
  BY DEF NoKick, KickSlot
<1>1. ASSUME UNCHANGED <<userRole, kick>> PROVE KickTypes' /\ KickSparesRoot'
  BY <1>1, SpareRest DEF KickTypes, RootUsers
<1>2. ASSUME NEW k \in Kicks, NEW q \in KickSlot, kick' = [kick EXCEPT ![k] = q],
             q.pc # "close", UNCHANGED userRole
      PROVE  KickTypes' /\ KickSparesRoot'
  BY <1>2, SpareRest DEF KickTypes, RootUsers
<1>3. CASE \E u \in Users, r \in Roles : ChangeUserRole(u, r)
  <2>1. PICK u \in Users, r \in Roles : ChangeUserRole(u, r)
    BY <1>3
  <2>2. \A k \in Kicks : /\ kick'[k] = [kick[k] EXCEPT !.moved = @ \/ (r = Root /\ kick[k].pc = "close")]
                         /\ kick[k] \in KickSlot
    BY <2>1 DEF ChangeUserRole, KickTypes
  <2>3. \A k \in Kicks : /\ kick'[k].pc = kick[k].pc /\ kick'[k].id = kick[k].id
                         /\ kick'[k].moved = (kick[k].moved \/ (r = Root /\ kick[k].pc = "close"))
                         /\ kick'[k] \in KickSlot
    BY <2>2 DEF KickSlot
  <2>4. KickTypes'
    BY <2>1, <2>3 DEF ChangeUserRole, KickTypes
  <2>5. CASE r = Root
    BY <2>3, <2>4, <2>5 DEF KickSparesRoot
  <2>6. CASE r # Root
    <3>1. RootUsers' = RootUsers
      BY <2>1, <2>6 DEF ChangeUserRole, RootUsers
    <3>2. FindRootUser' = FindRootUser
      BY <3>1 DEF FindRootUser
    <3> QED BY <2>3, <2>4, <3>2 DEF KickSparesRoot
  <2> QED BY <2>5, <2>6
<1>4. ASSUME NEW k \in Kicks, NEW u \in Users, KickRequest(k, u)
      PROVE  KickTypes' /\ KickSparesRoot'
  <2> DEFINE q == [NoKick EXCEPT !.pc = "root", !.id = u]
  <2>1. q \in KickSlot /\ q.pc # "close"
    BY DEF NoKick, KickSlot
  <2>2. kick' = [kick EXCEPT ![k] = q] /\ userRole' = userRole
    BY <1>4 DEF KickRequest
  <2> HIDE DEF q
  <2> QED BY <1>2, <2>1, <2>2
<1>5. ASSUME NEW k \in Kicks, KickUser(k) PROVE KickTypes' /\ KickSparesRoot'
  <2>1. CASE FindRootUser \in {NoUser, kick[k].id}
    BY <1>0, <1>2, <1>5, <2>1 DEF KickUser
  <2>2. CASE FindRootUser \notin {NoUser, kick[k].id}
    <3>1. kick' = [kick EXCEPT ![k] = [@ EXCEPT !.pc = "close"]] /\ kick[k] \in KickSlot
      BY <1>5, <2>2 DEF KickUser, KickTypes
    <3>2. KickTypes'
      BY <3>1 DEF KickTypes, KickSlot
    <3>3. RootUsers' = RootUsers
      BY <1>5 DEF KickUser, RootUsers
    <3>4. FindRootUser' = FindRootUser
      BY <3>3 DEF FindRootUser
    <3>5. kick'[k].id = kick[k].id /\ \A x \in Kicks \ {k} : kick'[x] = kick[x]
      BY <3>1 DEF KickTypes, KickSlot
    <3> QED BY <2>2, <3>2, <3>4, <3>5 DEF KickSparesRoot
  <2> QED BY <2>1, <2>2
<1>6. ASSUME NEW k \in Kicks, KickFails(k) \/ KickClose(k) PROVE KickTypes' /\ KickSparesRoot'
  BY <1>0, <1>2, <1>6 DEF KickFails, KickClose
<1>7. CASE ServerEnds
  <2>1. KickTypes' /\ \A k \in Kicks : kick'[k].pc # "close"
    BY <1>0, <1>7 DEF ServerEnds, KickTypes
  <2> QED BY <1>7, <2>1, SpareRest DEF ServerEnds, RootUsers
<1>8. CASE \/ \E n \in Notices, r \in Roles : \E S \in SUBSET (Roles \ {r}) :
              \E lost \in SUBSET (Asking \X (S \cup {r})) : SaveRole(n, r, S, lost)
           \/ \E n \in Notices : \/ \E R \in SUBSET Roles : DeleteMenus(n, R)
                                \/ NoticeStep(n)
           \/ \E S \in SUBSET Roles :
                \E lost \in SUBSET (Asking \X S) : ChangeUnnoticed(S, lost)
  BY <1>1, <1>8
  DEF SaveRole, DeleteMenus, ChangeUnnoticed, NoticeStep, NoticeMenus, NoticeRoles, Emit
<1>9. CASE \/ \E s \in Sockets, u \in Users : HandleConnection(s, u)
           \/ \E s \in Sockets : HandleDisconnect(s)
  BY <1>1, <1>9 DEF HandleConnection, HandleDisconnect
<1>10. CASE UNCHANGED wsVars
  BY <1>1, <1>10 DEF wsVars
<1> QED BY <1>3, <1>4, <1>5, <1>6, <1>7, <1>8, <1>9, <1>10 DEF WsNext, KickStep

(* A kick that is about to close a socket is not aimed at the root user,      *)
(* unless the root role changed hands since it looked                       *)
(* (online.service.ts:42).                                                  *)
THEOREM RootIsSpared == WsSpec => []KickSparesRoot
<1>1. WsInit => KickTypes /\ KickSparesRoot
  BY DEF WsInit, NoKick, KickSlot, KickTypes, KickSparesRoot
<1>2. KickTypes /\ KickSparesRoot /\ [WsNext]_wsVars => KickTypes' /\ KickSparesRoot'
  BY SpareStep
<1> QED BY <1>1, <1>2, PTL DEF WsSpec

(* The order of the sockets. *)
InOrder ==
  /\ earlier \in [Sockets -> SUBSET OnlineSockets]
  /\ \A s, t \in OnlineSockets :
       /\ s \in earlier[t] <=> s # t /\ t \notin earlier[s]
       /\ s \in earlier[t] => earlier[s] \subseteq earlier[t]

(* Closing sockets leaves the others in order. *)
LEMMA CloseInOrder ==
  ASSUME InOrder, StaleTypes, NEW S \in SUBSET Sockets, Close(S)
  PROVE  InOrder'
<1>1. OnlineSockets' = OnlineSockets \ S
  BY NoUserAssumption DEF Close, OnlineSockets
<1>2. earlier' = [s \in Sockets |-> IF s \in S THEN {} ELSE earlier[s] \ S]
  BY DEF Close
<1>3. OnlineSockets \subseteq Sockets
  BY DEF OnlineSockets
<1>4. \A s \in OnlineSockets' : earlier'[s] = earlier[s] \ S /\ s \in OnlineSockets /\ s \notin S
  BY <1>1, <1>2, <1>3
<1>5. earlier' \in [Sockets -> SUBSET OnlineSockets']
  BY <1>1, <1>2 DEF InOrder
<1>6. \A s, t \in OnlineSockets' :
        /\ s \in earlier'[t] <=> s # t /\ t \notin earlier'[s]
        /\ s \in earlier'[t] => earlier'[s] \subseteq earlier'[t]
  BY <1>4 DEF InOrder
<1> QED BY <1>5, <1>6 DEF InOrder

(* A socket that connects comes last. *)
LEMMA ConnectInOrder ==
  ASSUME InOrder, StaleTypes, NEW s \in Sockets, NEW u \in Users, HandleConnection(s, u)
  PROVE  InOrder'
<1>1. s \notin OnlineSockets /\ earlier' = [earlier EXCEPT ![s] = OnlineSockets]
  BY DEF HandleConnection
<1>2. OnlineSockets' = OnlineSockets \cup {s}
  BY NoUserAssumption DEF HandleConnection, OnlineSockets, StaleTypes
<1>3. OnlineSockets \subseteq Sockets
  BY DEF OnlineSockets
<1>4. earlier'[s] = OnlineSockets /\ \A t \in OnlineSockets : earlier'[t] = earlier[t]
  BY <1>1, <1>3 DEF InOrder
<1>5. earlier' \in [Sockets -> SUBSET OnlineSockets']
  BY <1>1, <1>2 DEF InOrder
<1>6. \A t \in OnlineSockets : earlier[t] \subseteq OnlineSockets
  BY <1>3 DEF InOrder
<1>7. \A r, t \in OnlineSockets' :
        /\ r \in earlier'[t] <=> r # t /\ t \notin earlier'[r]
        /\ r \in earlier'[t] => earlier'[r] \subseteq earlier'[t]
  BY <1>1, <1>2, <1>4, <1>6 DEF InOrder
<1> QED BY <1>5, <1>7 DEF InOrder

(* The order is kept by every step. *)
LEMMA OrderStep ==
  ASSUME InOrder, StaleTypes, [WsNext]_wsVars
  PROVE  InOrder'
<1>1. CASE UNCHANGED <<earlier, uid>>
  BY <1>1 DEF InOrder, OnlineSockets
<1>2. CASE \E S \in SUBSET Sockets : Close(S)
  BY <1>2, CloseInOrder
<1>3. ASSUME NEW k \in Kicks, KickClose(k) PROVE \E S \in SUBSET Sockets : Close(S)
  BY <1>3 DEF KickClose, FindSocket, SocketsOf, OnlineSockets
<1>4. ASSUME NEW s \in Sockets, HandleDisconnect(s) PROVE \E S \in SUBSET Sockets : Close(S)
  BY <1>4 DEF HandleDisconnect
<1>5. ServerEnds => \E S \in SUBSET Sockets : Close(S)
  BY DEF ServerEnds, OnlineSockets
<1> QED BY <1>1, <1>2, <1>3, <1>4, <1>5, ConnectInOrder
  DEF WsNext, ChangeUserRole, SaveRole, DeleteMenus, ChangeUnnoticed, NoticeStep, NoticeMenus,
      NoticeRoles, Emit, KickStep, KickUser, KickFails, KickRequest, wsVars

(* The parts of the type invariant, before and after a step. *)
LEMMA WsTypeParts == WsTypeOK <=> InOrder /\ KickTypes /\ StaleTypes
BY DEF WsTypeOK, InOrder, KickTypes

(* The same after a step. *)
LEMMA WsTypePartsNext == WsTypeOK' <=> InOrder' /\ KickTypes' /\ StaleTypes'
BY DEF WsTypeOK, InOrder, KickTypes

(* The types of the sockets and the slots, and that the sockets are at all times *)
(* in one order, that of their connection (findSocketIdByUid goes by it).      *)
THEOREM WsTypes == WsSpec => []WsTypeOK
<1>1. WsInit => WsTypeOK
  <2>1. WsInit => StaleTypes
    BY StaleInit DEF StaleInv
  <2>2. WsInit => InOrder
    BY DEF WsInit, InOrder, OnlineSockets
  <2>3. WsInit => KickTypes
    BY DEF WsInit, NoKick, KickSlot, KickTypes
  <2> QED BY <2>1, <2>2, <2>3, WsTypeParts
<1>2. WsTypeOK /\ StaleInv' /\ KickSparesRoot /\ [WsNext]_wsVars => WsTypeOK'
  BY WsTypeParts, WsTypePartsNext, OrderStep, SpareStep DEF StaleInv
<1> QED BY <1>1, <1>2, StaleInvariant, RootIsSpared, PTL DEF WsSpec

(* A kick closes at most one socket of its user. *)
LEMMA KickClosesOne ==
  ASSUME WsTypeOK, NEW u, NEW s \in FindSocket(u), NEW t \in FindSocket(u)
  PROVE  s = t
BY DEF WsTypeOK, FindSocket, SocketsOf

----------------------------------------------------------------------------
(* The parts side by side. *)

(* Every behaviour of the parts side by side is one of each part: whatever a   *)
(* part keeps on its own it keeps here.                                     *)
THEOREM PartsAreParts ==
  Spec => /\ CaptchaSpec /\ TaskSpec /\ TaskLogSpec /\ ExcelSpec /\ WsSpec /\ TreeSpec /\ ApiSpec
<1>1. Init => /\ CaptchaInit /\ TaskInit /\ TaskLogInit /\ ExcelInit /\ WsInit /\ TreeInit
              /\ ApiInit
  BY DEF Init
<1>2. [Next]_sumVars => [CaptchaNext]_captchaVars
  BY DEF Next, sumVars
<1>3. [Next]_sumVars => [TaskNext]_taskVars
  BY DEF Next, sumVars
<1>4. [Next]_sumVars => [TaskLogNext]_taskLogVars
  BY DEF Next, sumVars
<1>5. [Next]_sumVars => [ExcelNext]_excelVars
  BY DEF Next, sumVars
<1>6. [Next]_sumVars => [WsNext]_wsVars
  BY DEF Next, sumVars
<1>7. [Next]_sumVars => [TreeNext]_treeVars
  BY DEF Next, sumVars
<1>8. [Next]_sumVars => [ApiNext]_apiVars
  BY DEF Next, sumVars
<1> QED BY <1>1, <1>2, <1>3, <1>4, <1>5, <1>6, <1>7, <1>8, PTL
  DEF Spec, CaptchaSpec, TaskSpec, TaskLogSpec, ExcelSpec, WsSpec, TreeSpec, ApiSpec

(* What a login that holds a captcha, an instance that holds the lock, an      *)
(* export that has written its file and a client that waits for a notice may *)
(* rely on, and the types of the sockets and of the tables, hold whatever    *)
(* the others do.                                                          *)
THEOREM PartsInvariant == Spec => []PartsInv
<1>1. CaptchaInv /\ LockInv /\ ExcelInv /\ StaleInv /\ WsTypeOK /\ ApiInv => PartsInv
  BY DEF PartsInv, ApiInv
<1> QED BY <1>1, PartsAreParts, CaptchaInvariant, LockInvariant, ExcelInvariant, StaleInvariant,
           WsTypes, ApiInvariant, PTL

=============================================================================
