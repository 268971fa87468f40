------------------------------ MODULE Captcha ------------------------------
(***************************************************************************)
(* The image captcha in front of a login: GET captchaImage stores its text  *)
(* under admin:captcha:img:id for five minutes; POST login compares the     *)
(* text, deletes the key and goes on to getLoginSign (which AuthSession     *)
(* models).  The comparison and the deletion are two commands to Redis.     *)
(***************************************************************************)
EXTENDS FiniteSets

CONSTANTS
  Captchas,   \* ids, drawn by nanoid and therefore never drawn twice
  Texts,      \* what an image shows, and what people type
  Logins,     \* slots for the logins being processed
  NoCaptcha   \* no text, no id

ASSUME NoCaptchaAssumption == NoCaptcha \notin Texts \cup Captchas

VARIABLES
  drawn,      \* ids drawn so far
  captcha,    \* admin:captcha:img:id, NoCaptcha when the key is absent
  login,      \* the login in each slot
  passed,     \* history: captchas a login has got past
  doubled     \* history: captchas read by a login while another one, that
              \* had found them right, had not deleted them yet

captchaVars == <<drawn, captcha, login, passed, doubled>>

LoginSlot == [pc : {"idle", "check", "delete", "sign"},
              id : Captchas \cup {NoCaptcha}, code : Texts \cup {NoCaptcha}]
NoLogin   == [pc |-> "idle", id |-> NoCaptcha, code |-> NoCaptcha]

CaptchaInit ==
  /\ drawn   = {}
  /\ captcha = [c \in Captchas |-> NoCaptcha]
  /\ login   = [l \in Logins |-> NoLogin]
  /\ passed  = {}
  /\ doubled = {}

(* Logins that have found c right and have not deleted it yet. *)
Holders(c) == {l \in Logins : login[l].pc = "delete" /\ login[l].id = c}

----------------------------------------------------------------------------
(* createImageCaptcha: a new id, a text, SET ... EX 300. *)
CreateImageCaptcha(c, text) ==
  /\ c \notin drawn
  /\ drawn' = drawn \cup {c}
  /\ captcha' = [captcha EXCEPT ![c] = text]
  /\ UNCHANGED <<login, passed, doubled>>

CaptchaExpires(c) ==
  /\ captcha[c] # NoCaptcha
  /\ captcha' = [captcha EXCEPT ![c] = NoCaptcha]
  /\ UNCHANGED <<drawn, login, passed, doubled>>

(* POST login.  The dto only requires strings, the code of four characters. *)
LoginRequest(l, c, code) ==
  /\ login[l].pc = "idle"
  /\ login' = [login EXCEPT ![l] = [pc |-> "check", id |-> c, code |-> code]]
  /\ UNCHANGED <<drawn, captcha, passed, doubled>>

(* Variant: an absent captcha is not refused. *)
CheckImgCaptchaAbsent(l) ==
  LET c == login[l].id IN
  /\ login[l].pc = "check"
  /\ login' = IF captcha[c] \in {NoCaptcha, login[l].code}
              THEN [login EXCEPT ![l].pc = "delete"]
              ELSE [login EXCEPT ![l] = NoLogin]
  /\ doubled' = IF Holders(c) # {} /\ captcha[c] = login[l].code
                THEN doubled \cup {c} ELSE doubled
  /\ UNCHANGED <<drawn, captcha, passed>>

(* checkImgCaptcha: 10002 for an absent captcha or another text, which      *)
(* leaves the captcha where it is.                                         *)
CheckImgCaptcha(l) ==
  LET c == login[l].id IN
  /\ login[l].pc = "check"
  /\ login' = IF captcha[c] = login[l].code
              THEN [login EXCEPT ![l].pc = "delete"]
              ELSE [login EXCEPT ![l] = NoLogin]
  /\ doubled' = IF Holders(c) # {} /\ captcha[c] = login[l].code
                THEN doubled \cup {c} ELSE doubled
  /\ UNCHANGED <<drawn, captcha, passed>>

(* Variant: a captcha that was right is kept. *)
KeepCaptcha(l) ==
  /\ login[l].pc = "delete"
  /\ login' = [login EXCEPT ![l].pc = "sign"]
  /\ passed' = passed \cup {login[l].id}
  /\ UNCHANGED <<drawn, captcha, doubled>>

DeleteCaptcha(l) ==
  /\ login[l].pc = "delete"
  /\ captcha' = [captcha EXCEPT ![login[l].id] = NoCaptcha]
  /\ login' = [login EXCEPT ![l].pc = "sign"]
  /\ passed' = passed \cup {login[l].id}
  /\ UNCHANGED <<drawn, doubled>>

(* getLoginSign, with whatever outcome. *)
LoginDone(l) ==
  /\ login[l].pc = "sign"
  /\ login' = [login EXCEPT ![l] = NoLogin]
  /\ UNCHANGED <<drawn, captcha, passed, doubled>>

(* A command to Redis rejects, or the process is restarted. *)
LoginAborts(l) ==
  /\ login[l].pc \in {"check", "delete"}
  /\ login' = [login EXCEPT ![l] = NoLogin]
  /\ UNCHANGED <<drawn, captcha, passed, doubled>>

LoginStep(l) == CheckImgCaptcha(l) \/ DeleteCaptcha(l) \/ LoginDone(l)

CaptchaNext ==
  \/ \E c \in Captchas, t \in Texts : CreateImageCaptcha(c, t)
  \/ \E c \in Captchas : CaptchaExpires(c)
  \/ \E l \in Logins, c \in Captchas, t \in Texts : LoginRequest(l, c, t)
  \/ \E l \in Logins : LoginStep(l) \/ LoginAborts(l)

CaptchaSpec == CaptchaInit /\ [][CaptchaNext]_captchaVars

----------------------------------------------------------------------------
(* Types of the keys and of the slots. *)
CaptchaTypeOK ==
  /\ drawn \subseteq Captchas
  /\ captcha \in [Captchas -> Texts \cup {NoCaptcha}]
  /\ login \in [Logins -> LoginSlot]
  /\ \A l \in Logins : login[l].pc # "idle" =>
       login[l].id \in Captchas /\ login[l].code \in Texts
  /\ passed \subseteq Captchas
  /\ doubled \subseteq Captchas

(* A captcha some login got past is not in Redis any more, whatever         *)
(* overlapped, expired or failed (login.service.ts:124: removed after a     *)
(* successful check).                                                      *)
SpentCaptchaGone == \A c \in passed : c \in drawn /\ captcha[c] = NoCaptcha

(* Two logins hold one captcha only if the second read it before the first  *)
(* had deleted it, and nobody still holds one that was spent earlier.       *)
OneHolder ==
  \A c \in Captchas \ doubled, l \in Logins :
    l \in Holders(c) => Holders(c) = {l} /\ c \notin passed

(* A captcha that is not drawn is nowhere; with the two above, inductive. *)
CaptchaInv ==
  /\ CaptchaTypeOK
  /\ SpentCaptchaGone
  /\ OneHolder
  /\ \A c \in Captchas : captcha[c] # NoCaptcha \/ Holders(c) # {} => c \in drawn
  /\ doubled \subseteq drawn

(* One captcha lets one login through, unless their checks overlapped:      *)
(* however many are in flight, and whichever of them fail.                  *)
OneLoginPerCaptcha ==
  [][\A l \in Logins :
       login[l].pc = "delete" /\ login'[l].pc = "sign" =>
         login[l].id \notin passed \/ login[l].id \in doubled]_captchaVars

=============================================================================
