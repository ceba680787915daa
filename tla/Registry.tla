------------------------------ MODULE Registry ------------------------------
(***************************************************************************)
(* The rows the API keeps of readers and of companies. Readers' requests   *)
(* name a company by its id, which neither the daily run nor the           *)
(* subscriber ever changes or deletes, and neither of these reads a row of *)
(* a reader; the rows alerts are sent by are read by no other request:     *)
(* the three are run side by side.                                         *)
(***************************************************************************)
EXTENDS Library, Directory, Channels

NoDirectory ==
  /\ company = [i \in Ids |-> Nobody] /\ alias = [s \in Symbols |-> Nobody]
  /\ event = [e \in Events |-> Nobody] /\ fmp = {} /\ pc = "frozen"
  /\ run = NoRun /\ draft = NoDraft /\ moves = MaxMoves /\ runs = MaxRuns

NoChannels ==
  /\ sub = [b \in Browsers |-> Subscription(NoOwner, 1)]
  /\ config = [u \in Readers |-> [ch \in Names |-> NoData]]
  /\ gone = {} /\ send = [t \in Senders |-> Waiting]
  /\ edits = MaxEdits /\ sent = MaxSends + 1 /\ sendFaults = MaxSendFaults

RegistryInit ==
  /\ Init
  /\ \/ NoDirectory /\ NoChannels
     \/ DirectoryInit /\ NoChannels
     \/ NoDirectory /\ ChannelsInit

RegistryNext ==
  \/ pc = "frozen" /\ sent > MaxSends /\ Next /\ UNCHANGED <<directoryVars, channelVars>>
  \/ pc # "frozen" /\ DirectoryNext /\ UNCHANGED <<vars, channelVars>>
  \/ sent <= MaxSends /\ ChannelsNext /\ UNCHANGED <<vars, directoryVars>>

RegistrySpec == RegistryInit /\ [][RegistryNext]_<<vars, directoryVars, channelVars>>
=============================================================================
