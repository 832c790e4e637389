---------------------------- MODULE School_proofs ----------------------------
(* The school day as TLC runs it.  In each scene only one component moves, *)
(* so the invariants of the components carry over to the composition, for  *)
(* any constants and not only for the ones of the run.                     *)
EXTENDS MCSchool, SignIn_proofs, Office_proofs, Messages_proofs

\* The component at work keeps its invariant; where the types are inductive
\* by themselves, they are enough.
SchoolInv ==
    /\ scene \in Scenes
    /\ scene = "login" => LoginInv
    /\ scene = "session" => SessionTypeOK
    /\ scene = "otp" => OtpInv
    /\ scene = "approvals" => ApprovalsTypeOK
    /\ scene = "upload" => FeeUploadTypeOK
    /\ scene = "families" => FamiliesInv
    /\ scene = "identities" => IdentitiesInv
    /\ scene = "years" => YearsInv
    /\ scene = "templates" => TemplatesInv
    /\ scene \in {"chat", "marks"} => ChatInv
    /\ scene = "page" => PageInv
    /\ scene = "notices" => NoticesInv

LEMMA SchoolInit == Init => SchoolInv
<1> SUFFICES ASSUME Init PROVE SchoolInv
  OBVIOUS
<1>1. LoginInv
  BY LoginInit DEF Init
<1>2. SessionTypeOK
  BY SessionInit DEF Init, SessionInv
<1>3. OtpInv
  BY OtpInit DEF Init
<1>4. ApprovalsTypeOK
  BY ApprovalsInit DEF Init
<1>5. FeeUploadTypeOK
  BY UploadInit DEF Init, FeeUploadInv
<1>6. FamiliesInv
  BY FamiliesInit DEF Init
<1>7. IdentitiesInv
  BY IdentitiesInit DEF Init
<1>8. YearsInv
  BY YearsInit DEF Init
<1>9. TemplatesInv
  BY TemplatesInit DEF Init
<1>10. ChatInv
  BY ChatInit DEF Init
<1>11. PageInv
  BY PageInit DEF Init
<1>12. NoticesInv
  BY NoticesInit DEF Init
<1> QED
  BY <1>1, <1>2, <1>3, <1>4, <1>5, <1>6, <1>7, <1>8, <1>9, <1>10, <1>11, <1>12 DEF Init, SchoolInv

LEMMA SchoolStep == SchoolInv /\ [Next]_schoolDayVars => SchoolInv'
<1> SUFFICES ASSUME SchoolInv, [Next]_schoolDayVars PROVE SchoolInv'
  OBVIOUS
<1>a. scene' = scene
  BY DEF Next, Rest, schoolDayVars
<1>1. scene = "login" => LoginInv'
  <2>1. scene = "login" => [NextLogin]_loginVars
    BY DEF Next, schoolDayVars
  <2> QED
    BY <2>1, LoginStep DEF SchoolInv
<1>2. scene = "session" => SessionTypeOK'
  <2>1. scene = "session" => [NextSession]_adminSessionVars
    BY DEF Next, schoolDayVars
  <2> QED
    BY <2>1, SessionTypeStep DEF SchoolInv
<1>3. scene = "otp" => OtpInv'
  <2>1. scene = "otp" => [NextOtp]_otpVars
    BY DEF Next, schoolDayVars
  <2> QED
    BY <2>1, OtpStep DEF SchoolInv
<1>4. scene = "approvals" => ApprovalsTypeOK'
  <2>1. scene = "approvals" => [NextApprovals]_approvalVars
    BY DEF Next, schoolDayVars
  <2> QED
    BY <2>1, ApprovalsTypeStep DEF SchoolInv
<1>5. scene = "upload" => FeeUploadTypeOK'
  <2>1. scene = "upload" => [NextFeeUpload]_feeUploadVars
    BY DEF Next, schoolDayVars
  <2> QED
    BY <2>1, UploadTypeStep DEF SchoolInv
<1>6. scene = "families" => FamiliesInv'
  <2>1. scene = "families" => [NextFamilies]_familyVars
    BY DEF Next, schoolDayVars
  <2> QED
    BY <2>1, FamiliesStep DEF SchoolInv
<1>7. scene = "identities" => IdentitiesInv'
  <2>1. scene = "identities" => [NextIdentities]_identityVars
    BY DEF Next, schoolDayVars
  <2> QED
    BY <2>1, IdentitiesStep DEF SchoolInv
<1>8. scene = "years" => YearsInv'
  <2>1. scene = "years" => [NextAcademicYears]_yearVars
    BY DEF Next, schoolDayVars
  <2> QED
    BY <2>1, YearsStep DEF SchoolInv
<1>9. scene = "templates" => TemplatesInv'
  <2>1. scene = "templates" => [NextReceiptTemplates]_templateVars
    BY DEF Next, schoolDayVars
  <2> QED
    BY <2>1, TemplatesStep DEF SchoolInv
<1>10. scene \in {"chat", "marks"} => ChatInv'
  <2>1. scene \in {"chat", "marks"} => [NextChat]_chatVars
    BY DEF Next, schoolDayVars
  <2> QED
    BY <2>1, ChatStep DEF SchoolInv
<1>11. scene = "page" => PageInv'
  <2>1. scene = "page" => [NextChatPage]_chatPageVars
    BY DEF Next, schoolDayVars
  <2> QED
    BY <2>1, PageStep DEF SchoolInv
<1>12. scene = "notices" => NoticesInv'
  <2>1. scene = "notices" => [NextNotices]_noticeVars
    BY DEF Next, schoolDayVars
  <2> QED
    BY <2>1, NoticesStep DEF SchoolInv
<1> QED
  BY <1>a, <1>1, <1>2, <1>3, <1>4, <1>5, <1>6, <1>7, <1>8, <1>9, <1>10, <1>11, <1>12 DEF SchoolInv

LEMMA SchoolTypes == SchoolInv => SchoolTypeOK
<1> SUFFICES ASSUME SchoolInv PROVE SchoolTypeOK
  OBVIOUS
<1>1. CASE scene = "login"
  BY <1>1 DEF SchoolInv, LoginInv, SchoolTypeOK
<1>2. CASE scene = "session"
  BY <1>2 DEF SchoolInv, SchoolTypeOK
<1>3. CASE scene = "otp"
  BY <1>3 DEF SchoolInv, OtpInv, SchoolTypeOK
<1>4. CASE scene = "approvals"
  BY <1>4 DEF SchoolInv, SchoolTypeOK
<1>5. CASE scene = "upload"
  BY <1>5 DEF SchoolInv, SchoolTypeOK
<1>6. CASE scene = "families"
  BY <1>6 DEF SchoolInv, FamiliesInv, SchoolTypeOK
<1>7. CASE scene = "identities"
  BY <1>7 DEF SchoolInv, IdentitiesInv, SchoolTypeOK
<1>8. CASE scene = "years"
  BY <1>8 DEF SchoolInv, YearsInv, SchoolTypeOK
<1>9. CASE scene = "templates"
  BY <1>9 DEF SchoolInv, TemplatesInv, SchoolTypeOK
<1>10. CASE scene \in {"chat", "marks"}
  BY <1>10 DEF SchoolInv, ChatInv, SchoolTypeOK
<1>11. CASE scene = "page"
  BY <1>11 DEF SchoolInv, PageInv, SchoolTypeOK
<1>12. CASE scene = "notices"
  BY <1>12 DEF SchoolInv, NoticesInv, SchoolTypeOK
<1> QED
  BY <1>1, <1>2, <1>3, <1>4, <1>5, <1>6, <1>7, <1>8, <1>9, <1>10, <1>11, <1>12 DEF SchoolInv, Scenes

\* In every scene of the school day the columns and the stages of requests
\* have values they may have.
THEOREM SchoolTypeCorrect == Spec => []SchoolTypeOK
BY SchoolInit, SchoolStep, SchoolTypes, PTL DEF Spec
=============================================================================
