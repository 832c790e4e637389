------------------------------ MODULE MCSchool ------------------------------
(* The parts of the school's daily business side by side for TLC.  They    *)
(* share no state, so TLC explores them one at a time: `scene` says which  *)
(* of them is at work, the others rest in their initial state, and the     *)
(* state spaces add up.                                                    *)
EXTENDS AdminLogin, AdminSession, ParentOtp, Approvals, FeeUpload, Families,
        Identities, AcademicYears, ReceiptTemplates, Chat, ChatPage, Notices, TLC

CONSTANTS q1, q2, q3, t1, t2, n1, n2, y1, y2, MaxUnderWay

VARIABLE scene

Scenes == {"login", "session", "otp", "approvals", "upload", "families",
           "identities", "years", "templates", "chat", "marks", "page", "notices"}

schoolDayVars ==
    <<scene, loginVars, adminSessionVars, otpVars, approvalVars, feeUploadVars,
      familyVars, identityVars, yearVars, templateVars, chatVars, chatPageVars,
      noticeVars>>

\* Two requests of one tab, and one of another.
TwoTabs == q1 :> t1 @@ q2 :> t1 @@ q3 :> t2

\* Siblings: all children have one address.
OneFamily == [a \in Admissions |-> CHOOSE e \in Emails : TRUE]

\* One pupil over two years, and another one.
ThreeRows == {<<n1, y1>>, <<n1, y2>>, <<n2, y1>>}

\* Two schools with one password or with two: which is which does not matter.
Init ==
    /\ scene \in Scenes
    /\ InitLogin
    /\ password[CHOOSE s \in Schools : TRUE] = CHOOSE w \in Passwords : TRUE
    /\ scene # "login" => \A s, z \in Schools : password[s] = password[z]
    /\ InitSession
    /\ InitOtp
    /\ InitApprovals
    /\ scene # "approvals" => \A d \in Deciders : deciding[d] = CHOOSE c \in Concessions : TRUE
    /\ InitFeeUpload
    /\ InitFamilies
    /\ InitIdentities
    /\ InitAcademicYears
    /\ InitReceiptTemplates
    /\ InitChat
    /\ InitChatPage
    /\ InitNotices

\* Whatever is not at work rests.
Rest ==
    /\ UNCHANGED scene
    /\ IF scene = "login" THEN TRUE ELSE UNCHANGED loginVars
    /\ IF scene = "session" THEN TRUE ELSE UNCHANGED adminSessionVars
    /\ IF scene = "otp" THEN TRUE ELSE UNCHANGED otpVars
    /\ IF scene = "approvals" THEN TRUE ELSE UNCHANGED approvalVars
    /\ IF scene = "upload" THEN TRUE ELSE UNCHANGED feeUploadVars
    /\ IF scene = "families" THEN TRUE ELSE UNCHANGED familyVars
    /\ IF scene = "identities" THEN TRUE ELSE UNCHANGED identityVars
    /\ IF scene = "years" THEN TRUE ELSE UNCHANGED yearVars
    /\ IF scene = "templates" THEN TRUE ELSE UNCHANGED templateVars
    /\ IF scene \in {"chat", "marks"} THEN TRUE ELSE UNCHANGED chatVars
    /\ IF scene = "page" THEN TRUE ELSE UNCHANGED chatPageVars
    /\ IF scene = "notices" THEN TRUE ELSE UNCHANGED noticeVars

\* Codes are sent in one order, and one conversation is opened first: their
\* names do not matter.
CodesInOrder ==
    sending[CHOOSE c \in Codes : TRUE] = "new" =>
        \A c \in Codes : sending'[c] # "new" => c = CHOOSE d \in Codes : TRUE
OpensFirst ==
    activeConvId = NoneOpen => activeConvId' \in {NoneOpen, CHOOSE c \in Conversations : TRUE}

\* Once a parent row is switched the properties say nothing of the codes: one
\* code is enough to see what the requests do then.
OneCodeIfSwitched ==
    changes' > 0 => Cardinality({c \in Codes : sending'[c] # "new"}) <= 1

\* Bound: what is under way to the page at a time.
FewUnderWay ==
    Cardinality(pending') + Len(events') + Cardinality(answers' \ pending')
        + Cardinality({i \in Slots : loads'[i] # NoLoad}) <= MaxUnderWay

\* One member reads, with two lists or marks under way at a time: what the
\* others have read is independent of it.  The bell of the peer is rung at once.
OneReads ==
    /\ \A a \in Members : Cardinality(listed'[a]) + Cardinality(toMarkRead'[a]) <= 2
    /\ At({"notifying"}) # {} => At({"notifying"})' = {}
    /\ \A a \in Members \ {CHOOSE b \in Members : TRUE} : listed'[a] = {} /\ heard'[a] = {}

\* "chat" is about messages and what is done to them, "marks" about messages
\* and how far they are read.
Next ==
    /\ Rest
    /\ \/ scene = "login" /\ NextLogin
       \/ scene = "session" /\ NextSession
       \/ scene = "otp" /\ NextOtp /\ CodesInOrder /\ OneCodeIfSwitched
       \/ scene = "approvals" /\ NextApprovals
       \/ scene = "upload" /\ NextFeeUpload
       \/ scene = "families" /\ NextFamilies
       \/ scene = "identities" /\ NextIdentities
       \/ scene = "years" /\ NextAcademicYears
       \/ scene = "templates" /\ NextReceiptTemplates
       \/ scene = "chat" /\ NextChat /\ UNCHANGED readVars /\ dated' <= 2
       \/ scene = "marks" /\ NextChat /\ OneReads /\ UNCHANGED calls
       \/ scene = "page" /\ NextChatPage /\ OpensFirst /\ FewUnderWay
       \/ scene = "notices" /\ NextNotices

Spec == Init /\ [][Next]_schoolDayVars

\* In each scene the columns and the stages of requests have values they may
\* have.
SchoolTypeOK ==
    CASE scene = "login" -> LoginTypeOK
      [] scene = "session" -> SessionTypeOK
      [] scene = "otp" -> OtpTypeOK
      [] scene = "approvals" -> ApprovalsTypeOK
      [] scene = "upload" -> FeeUploadTypeOK
      [] scene = "families" -> FamiliesTypeOK
      [] scene = "identities" -> IdentitiesTypeOK
      [] scene = "years" -> AcademicYearsTypeOK
      [] scene = "templates" -> ReceiptTemplatesTypeOK
      [] scene \in {"chat", "marks"} -> ChatTypeOK
      [] scene = "page" -> ChatPageTypeOK
      [] scene = "notices" -> NoticesTypeOK
=============================================================================
