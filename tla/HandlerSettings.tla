--------------------------- MODULE HandlerSettings ---------------------------
(***************************************************************************)
(* The public settings of the extension (main/handlersettings.go) and the  *)
(* JSON schema they are checked against (main/schema.go).  A setting that  *)
(* the JSON object leaves out is the zero value of its Go type: 0 for a    *)
(* number, "" for the protocol, FALSE for the presence of a request path.  *)
(* The VMWatch section of the settings is not part of this module.         *)
(***************************************************************************)
EXTENDS Integers

Omitted == 0
defaultIntervalInSeconds == 5
defaultNumberOfProbes == 1
maximumProbeSettleTime == 240

Protocols == {"", "tcp", "http", "https"}

\* What unmarshalling a JSON object into publicSettings can produce.
PublicSettings ==
  [protocol: Protocols, port: Nat, requestPath: BOOLEAN,
   intervalInSeconds: Nat, numberOfProbes: Nat, gracePeriod: Nat]

-----------------------------------------------------------------------------
(* publicSettingsSchema: every number that is given lies in its range. *)

ports == 1..65535
gracePeriods == 5..14400

SchemaValid(s) ==
  /\ s.port \in {Omitted} \cup ports
  /\ s.intervalInSeconds \in {Omitted} \cup 5..60
  /\ s.numberOfProbes \in {Omitted} \cup 1..24
  /\ s.gracePeriod \in {Omitted} \cup gracePeriods

(* The accessors replace what was left out by its default. *)

intervalInSeconds(s) ==
  IF s.intervalInSeconds = Omitted THEN defaultIntervalInSeconds ELSE s.intervalInSeconds

numberOfProbes(s) ==
  IF s.numberOfProbes = Omitted THEN defaultNumberOfProbes ELSE s.numberOfProbes

gracePeriod(s) ==
  IF s.gracePeriod = Omitted THEN intervalInSeconds(s) * numberOfProbes(s) ELSE s.gracePeriod

(* handlerSettings.validate: the logical validation behind the schema. *)
validate(s) ==
  /\ s.protocol = "tcp" => s.port # Omitted /\ ~s.requestPath
  /\ intervalInSeconds(s) * numberOfProbes(s) <= maximumProbeSettleTime

\* parseAndValidateSettings accepts exactly these settings.
Accepted(s) == SchemaValid(s) /\ validate(s)

=============================================================================
