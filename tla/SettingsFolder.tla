--------------------------- MODULE SettingsFolder ---------------------------
(***************************************************************************)
(* Which sequence number an enable is about, as the three places that ask  *)
(* for it answer: the shim, main (through FindSeqNum of the vendored       *)
(* azure-extension-platform) and parseAndValidateSettings (through         *)
(* settingsPath of the vendored azure-docker-extension).                   *)
(*                                                                         *)
(* The config folder is a function from the numbers of its .settings files *)
(* to their modification times.  A .settings file whose name is no number  *)
(* stands under NoNumber, which is also the number nobody found.           *)
(***************************************************************************)
EXTENDS Integers

NoNumber == -1

Highest(S) == CHOOSE n \in S : \A k \in S : k <= n

Newest(folder) ==
  {f \in DOMAIN folder : \A g \in DOMAIN folder : folder[g] <= folder[f]}

\* Mutant: of files with the same time the first one is taken.
SearchFolder_First(folder) ==
  IF Newest(folder) = {} THEN NoNumber
  ELSE CHOOSE f \in Newest(folder) : \A g \in Newest(folder) : f <= g

\* The newest file; of several with the same time, the highest number of all.
SearchFolder(folder) ==
  CASE Newest(folder) = {} -> NoNumber
    [] \E f \in Newest(folder) : Newest(folder) = {f} -> Highest(Newest(folder))
    [] OTHER -> IF NoNumber \in DOMAIN folder THEN NoNumber ELSE Highest(DOMAIN folder)

\* ConfigSequenceNumber of the environment comes first.
FindSeqNum(env, folder) == IF env # NoNumber THEN env ELSE SearchFolder(folder)

\* The highest number, as long as every name is a number.
settingsPath(folder) ==
  IF DOMAIN folder = {} \/ NoNumber \in DOMAIN folder THEN NoNumber ELSE Highest(DOMAIN folder)

\* The highest number among the names that are numbers.
status_file_path(folder) ==
  LET numbered == DOMAIN folder \ {NoNumber}
  IN  IF numbered = {} THEN NoNumber ELSE Highest(numbered)

=============================================================================
