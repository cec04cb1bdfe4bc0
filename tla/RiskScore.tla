----------------------------- MODULE RiskScore -----------------------------
(***************************************************************************)
(* The risk scores (internal/risk): sums of points for what is seen of a   *)
(* connection or of a port usage bucket, clamped to 0 .. 100 and put into  *)
(* buckets.  Computed on every read, from inputs that change apart.        *)
(*                                                                         *)
(* Abstractions.  Thresholds of bytes and age are Booleans, `heavy' and    *)
(* `old'; the texts of the reasons are left out.  A verdict is one that    *)
(* was found in the cache, so that Resolved is always true; "unknown" is   *)
(* also the empty classification, which the scores treat alike.            *)
(***************************************************************************)
EXTENDS Integers, FiniteSets

wellKnownPorts == {20, 21, 22, 25, 53, 67, 68, 80, 110, 123, 143, 443, 465, 587,
                   993, 995, 3478}
legacyAdminPorts == {23, 512, 513, 514, 111}
cleartextPorts == {21, 23, 25, 69, 110, 143}
cleartextHTTPPort == 80
LowConfidenceSampleCount == 3

NoApp == ""

Classifications == {"malicious", "benign", "unknown"}
ReputationInfo == [classification : Classifications, noise : BOOLEAN, riot : BOOLEAN]

Malicious(r) == r.classification = "malicious"
NoiseUnknown(r) == r.noise /\ r.classification = "unknown"

Points(reason, points) == IF reason THEN points ELSE 0

(* What both scores say of the port, the application and the number of
   sessions of the bucket. *)
PortPoints(port, app, count) ==
    Points(port \in legacyAdminPorts, 30)
    + Points(port \in cleartextPorts, 25)
    + Points(port = cleartextHTTPPort, 10)
    + Points(app = NoApp /\ port \notin wellKnownPorts, 20)
    + Points(0 < count /\ count < LowConfidenceSampleCount, 5)

(* finalize *)
Clamp(score) == IF score < 0 THEN 0 ELSE IF score > 100 THEN 100 ELSE score

bucketFor(score) ==
    IF score >= 80 THEN "critical"
    ELSE IF score >= 55 THEN "high"
    ELSE IF score >= 25 THEN "medium"
    ELSE "low"

(* A connection; r is the verdict on its destination, or c.known is false. *)
ScoreConnection(c, r) ==
    Clamp(
      (IF c.known
       THEN Points(Malicious(r), 60) + Points(NoiseUnknown(r), 15) + Points(r.riot, -10)
       ELSE Points(~c.dstPrivate /\ c.old, 10))
      + PortPoints(c.port, c.app, c.count)
      + Points(c.heavy /\ c.firstContact, 15)
      + Points(c.lanToLan, -5))

(* Bug: one harmless destination clears the bucket. *)
AnyMalicious_Every(reps) == reps # {} /\ \A r \in reps : Malicious(r)

(* Some destination of the bucket is malicious. *)
AnyMalicious(reps) == \E r \in reps : Malicious(r)

(* A row u of port_usage, two hours old or not; reps are the verdicts on its destinations. *)
ScorePortUsage(port, app, u, old, reps) ==
    Clamp(
      Points(AnyMalicious(reps), 50)
      + Points(\E r \in reps : NoiseUnknown(r), 15)
      + Points(~AnyMalicious(reps) /\ \E r \in reps : r.riot, -10)
      + Points(reps = {} /\ u.distinct > 0 /\ old, 10)
      + PortPoints(port, app, u.count)
      + Points(u.heavy /\ u.distinct <= 1, 15))
=============================================================================
