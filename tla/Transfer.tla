------------------------------- MODULE Transfer --------------------------------
(***************************************************************************)
(* Moving an account to a new device (packages/core/src/transfer.ts, the   *)
(* restorer of bundle.ts, sendMove, finishMove and receiveMove in the      *)
(* app's useKant.ts, and the two screens that drive them).  The old device *)
(* calls the new one, the user compares the codes there, the records are   *)
(* streamed with one acknowledgement for every window, and after the new   *)
(* device's `done' the old one erases itself.  Meanwhile the old device    *)
(* stays connected and keeps receiving.                                    *)
(*                                                                         *)
(* A piece of the stream is one record of the database; what a record      *)
(* holds is how often it was changed.  The user only confirms a call of    *)
(* the own old device: that is what the comparison of codes is for.        *)
(***************************************************************************)
EXTENDS Integers, Sequences

CONSTANTS
  Records,       \* records of the account
  Identity,      \* the one that hasIdentity looks for
  AckWindow,     \* ACK_WINDOW
  MaxCalls,      \* bound: calls of the old device
  MaxChanges,    \* bound: messages the old device receives meanwhile
  MaxDeviceReloads, \* bound: reloads of either device
  Absent         \* no such record

ASSUME TransferAssumption ==
  /\ Records \in Nat \ {0} /\ Identity \in 1..Records /\ AckWindow \in Nat \ {0}
  /\ MaxChanges \in Nat
  /\ Absent \notin Nat

VARIABLES
  old,        \* "using" or "erased": the old device's database
  have,       \* its records
  mover,      \* where startOutgoingMove is
  out,        \* pieces sent
  unacked,
  toNew, toOld, \* frames under way
  line,       \* the stream: "none", "open" or "closed"
  screen,     \* where startIncomingMove is
  caller,     \* whose call the new device is busy with
  expected,   \* pieces it has taken
  received,   \* the new device's records
  other,      \* another identity was made on the new device
  tally,      \* the counters behind the bounds
  cutShort,   \* history: a restore was broken off and its records not cleared
  atCall      \* history: the old device's records when it called

transferVars == <<old, have, mover, out, unacked, toNew, toOld, line, screen, caller, expected,
                  received, other, tally, cutShort, atCall>>

All == 1..Records
Nothing == [r \in All |-> Absent]
MoveFrame(t, i, v) == [t |-> t, i |-> i, v |-> v]
Says(t) == MoveFrame(t, 0, 0)

TransferTypeOK ==
  /\ old \in {"using", "erased"}
  /\ have \in [All -> 0..MaxChanges] /\ received \in [All -> 0..MaxChanges \cup {Absent}]
  /\ mover \in {"idle", "calling", "sending", "draining", "ending", "moved", "failed"}
  /\ out \in 0..Records /\ expected \in 0..Records /\ unacked \in 0..AckWindow
  /\ line \in {"none", "open", "closed"}
  /\ screen \in {"listening", "asking", "restoring", "finished", "over"}
  /\ caller \in {"nobody", "old", "stranger"}
  /\ other \in BOOLEAN

TransferInit ==
  /\ old = "using" /\ have = [r \in All |-> 0]
  /\ mover = "idle" /\ out = 0 /\ unacked = 0
  /\ toNew = << >> /\ toOld = << >> /\ line = "none"
  /\ screen = "listening" /\ caller = "nobody" /\ expected = 0
  /\ received = Nothing /\ other = FALSE
  /\ tally = [calls |-> 0, changes |-> 0, reloads |-> 0] /\ cutShort = FALSE
  /\ atCall = have

oldVars == <<old, have, mover, out, unacked, atCall>>
newVars == <<screen, caller, expected, received, other, cutShort>>

-----------------------------------------------------------------------------
(* The old device.                                                         *)

(* A message arrives and is stored; the node is up during a move.          *)
Receive ==
  /\ old = "using" /\ tally.changes < MaxChanges
  /\ tally' = [tally EXCEPT !.changes = @ + 1]
  /\ \E r \in All : have' = [have EXCEPT ![r] = @ + 1]
  /\ UNCHANGED <<old, mover, out, unacked, toNew, toOld, line, newVars, atCall>>

(* startOutgoingMove: a stream of its own and the hello.  While the new     *)
(* device is still busy with an earlier call of this one, it declines.     *)
Call ==
  /\ old = "using" /\ mover \in {"idle", "failed"}
  /\ tally.calls < MaxCalls
  /\ tally' = [tally EXCEPT !.calls = @ + 1]
  /\ IF caller = "old"
       THEN mover' = "failed" /\ UNCHANGED <<out, unacked, line, toNew, toOld>>
       ELSE /\ mover' = "calling" /\ out' = 0 /\ unacked' = 0
            /\ line' = "open" /\ toNew' = <<Says("hello")>> /\ toOld' = << >>
  /\ atCall' = have
  /\ UNCHANGED <<old, have, newVars>>

(* The move ends with an error; nothing on this device changes.            *)
MoveFails == mover' = "failed" /\ line' = "closed"

ReadReply ==
  /\ mover = "calling" /\ toOld # << >>
  /\ toOld' = Tail(toOld)
  /\ IF Head(toOld).t = "ready" THEN mover' = "sending" /\ UNCHANGED line ELSE MoveFails
  /\ UNCHANGED <<old, have, out, unacked, toNew, newVars, tally, atCall>>

(* One record is read from the database and sent; after a window its       *)
(* acknowledgement is waited for.                                          *)
SendPiece ==
  /\ mover = "sending" /\ out < Records
  /\ IF line = "open"
       THEN /\ toNew' = Append(toNew, MoveFrame("data", out, have[out + 1]))
            /\ out' = out + 1 /\ unacked' = unacked + 1
            /\ mover' = IF unacked + 1 >= AckWindow THEN "draining" ELSE "sending"
            /\ UNCHANGED line
       ELSE MoveFails /\ UNCHANGED <<toNew, out, unacked>>
  /\ UNCHANGED <<old, have, toOld, newVars, tally, atCall>>

ReadPieceAck ==
  /\ mover = "draining" /\ toOld # << >>
  /\ toOld' = Tail(toOld)
  /\ IF Head(toOld) = MoveFrame("ack", out - 1, 0)
       THEN mover' = "sending" /\ unacked' = 0 /\ UNCHANGED line
       ELSE MoveFails /\ UNCHANGED unacked
  /\ UNCHANGED <<old, have, out, toNew, newVars, tally, atCall>>

SendEnd ==
  /\ mover = "sending" /\ out = Records
  /\ IF line = "open"
       THEN mover' = "ending" /\ toNew' = Append(toNew, MoveFrame("end", out, 0)) /\ UNCHANGED line
       ELSE MoveFails /\ UNCHANGED toNew
  /\ UNCHANGED <<old, have, out, unacked, toOld, newVars, tally, atCall>>

(* The move succeeded when the new device says that it has everything.     *)
ReadDone ==
  /\ mover = "ending" /\ toOld # << >>
  /\ toOld' = Tail(toOld)
  /\ IF Head(toOld).t = "ack" THEN UNCHANGED <<mover, line>>
     ELSE IF Head(toOld).t = "done" THEN mover' = "moved" /\ line' = "closed"
     ELSE MoveFails
  /\ UNCHANGED <<old, have, out, unacked, toNew, newVars, tally, atCall>>

(* A read ends without a frame: the stream is closed, the user cancelled   *)
(* or five minutes are over.                                               *)
OldGivesUp ==
  /\ mover \in {"calling", "draining", "ending"} /\ toOld = << >>
  /\ MoveFails
  /\ UNCHANGED <<old, have, out, unacked, toNew, toOld, newVars, tally, atCall>>

(* A plausible bug: everything sent is taken for everything kept.          *)
EraseOnceSent ==
  /\ mover \in {"ending", "moved"} /\ old = "using"
  /\ old' = "erased"
  /\ UNCHANGED <<have, mover, out, unacked, toNew, toOld, line, newVars, tally, atCall>>

(* The sheet calls finishMove three seconds after it shows `Moved'.        *)
Erase ==
  /\ mover = "moved" /\ old = "using"
  /\ old' = "erased"
  /\ UNCHANGED <<have, mover, out, unacked, toNew, toOld, line, newVars, tally, atCall>>

(* The old device's page is reloaded: the sheet and its move are gone.     *)
OldReloads ==
  /\ old = "using" /\ mover # "idle" /\ tally.reloads < MaxDeviceReloads
  /\ tally' = [tally EXCEPT !.reloads = @ + 1]
  /\ mover' = "idle" /\ line' = "closed"
  /\ UNCHANGED <<old, have, out, unacked, toNew, toOld, newVars, atCall>>

-----------------------------------------------------------------------------
(* The new device.                                                         *)

SayLast(t) ==
  /\ toOld' = IF line = "open" THEN Append(toOld, Says(t)) ELSE toOld
  /\ line' = "closed"

(* A second call, and any call after the move ended, is declined.          *)
TakeCall ==
  /\ toNew # << >> /\ Head(toNew).t = "hello"
  /\ toNew' = Tail(toNew)
  /\ IF screen = "listening"
       THEN screen' = "asking" /\ caller' = "old" /\ expected' = 0 /\ UNCHANGED <<toOld, line>>
       ELSE SayLast("decline") /\ UNCHANGED <<screen, caller, expected>>
  /\ UNCHANGED <<oldVars, received, other, tally, cutShort>>

(* Somebody else who saw the code calls.                                   *)
StrangerCalls ==
  /\ screen = "listening"
  /\ screen' = "asking" /\ caller' = "stranger"
  /\ UNCHANGED <<oldVars, toNew, toOld, line, expected, received, other, tally, cutShort>>

(* The codes differ, or the user leaves the screen.                        *)
Decline ==
  /\ screen = "asking"
  /\ screen' = "listening" /\ caller' = "nobody"
  /\ IF caller = "old" THEN SayLast("decline") ELSE UNCHANGED <<toOld, line>>
  /\ UNCHANGED <<oldVars, toNew, expected, received, other, tally, cutShort>>

(* The stores are emptied one by one, and an error stops that silently:    *)
(* the records in `left' stay.                                             *)
Clear(left) ==
  /\ received' = [r \in All |-> IF r \in left THEN received[r] ELSE Absent]
  /\ other' = (other /\ Identity \in left)
  /\ cutShort' = (cutShort \/ left # {})

(* A plausible bug: an aborted restore leaves what was written.            *)
AbortKeepsRecords ==
  /\ screen' = "finished" /\ caller' = "nobody"
  /\ SayLast("failed")
  /\ UNCHANGED <<received, other, cutShort>>

(* abort: every store is cleared, whatever it held and as far as that      *)
(* goes, and the code is used up.                                          *)
Abort ==
  /\ screen' = "finished" /\ caller' = "nobody"
  /\ \E left \in SUBSET All : Clear(left)
  /\ SayLast("failed")

(* The user confirmed.  A restore that finds an identity is refused, one   *)
(* may fail to empty the stores before it starts, and both run through     *)
(* abort as well.                                                          *)
Confirm ==
  /\ screen = "asking" /\ caller = "old"
  /\ \/ /\ line # "open"
        /\ screen' = "listening" /\ caller' = "nobody"
        /\ UNCHANGED <<toOld, line, received, other, cutShort>>
     \/ /\ line = "open"
        /\ screen' = "finished" /\ caller' = "nobody"
        /\ \E left \in SUBSET All : Clear(left)
        /\ toOld' = toOld \o <<Says("ready"), Says("failed")>> /\ line' = "closed"
     \/ /\ line = "open" /\ ~other /\ received[Identity] = Absent
        /\ screen' = "restoring" /\ received' = Nothing
        /\ toOld' = Append(toOld, Says("ready"))
        /\ UNCHANGED <<line, caller, other, cutShort>>
  /\ UNCHANGED <<oldVars, toNew, expected, tally>>

(* A piece is written to the database; an acknowledgement that cannot be   *)
(* sent ends the restore.                                                  *)
TakePiece ==
  /\ screen = "restoring" /\ toNew # << >> /\ Head(toNew).t = "data"
  /\ toNew' = Tail(toNew)
  /\ LET piece == Head(toNew)
         owed == (expected + 1) % AckWindow = 0
     IN IF piece.i # expected \/ (owed /\ line # "open")
          THEN Abort /\ UNCHANGED expected
          ELSE /\ received' = [received EXCEPT ![expected + 1] = piece.v]
               /\ expected' = expected + 1
               /\ toOld' = IF owed THEN Append(toOld, MoveFrame("ack", expected, 0)) ELSE toOld
               /\ UNCHANGED <<screen, caller, other, line, cutShort>>
  /\ UNCHANGED <<oldVars, tally>>

(* The end: the restore is complete and the old device is told.            *)
TakeEnd ==
  /\ screen = "restoring" /\ toNew # << >> /\ Head(toNew).t = "end"
  /\ toNew' = Tail(toNew)
  /\ IF Head(toNew).i # expected \/ line # "open"
       THEN Abort
       ELSE /\ screen' = "finished" /\ caller' = "nobody" /\ SayLast("done")
            /\ UNCHANGED <<received, other, cutShort>>
  /\ UNCHANGED <<oldVars, expected, tally>>

(* Reading failed, or a record could not be opened or written.             *)
NewGivesUp ==
  /\ screen = "restoring"
  /\ Abort
  /\ UNCHANGED <<oldVars, toNew, expected, tally>>

(* Another window of the same browser creates an identity.                 *)
MakeIdentity ==
  /\ screen \in {"listening", "asking"} /\ received[Identity] = Absent
  /\ other' = TRUE
  /\ UNCHANGED <<oldVars, toNew, toOld, line, screen, caller, expected, received, tally, cutShort>>

(* The new device's page is reloaded; what was written stays.              *)
NewReloads ==
  /\ screen # "over" /\ tally.reloads < MaxDeviceReloads
  /\ tally' = [tally EXCEPT !.reloads = @ + 1]
  /\ cutShort' = (cutShort \/ screen = "restoring")
  /\ screen' = "over" /\ caller' = "nobody"
  /\ line' = IF caller = "old" THEN "closed" ELSE line
  /\ UNCHANGED <<oldVars, toNew, toOld, expected, received, other>>

(* A new code is shown, on a device without an identity.                   *)
Listen ==
  /\ screen \in {"finished", "over"} /\ received[Identity] = Absent /\ ~other
  /\ tally.calls < MaxCalls
  /\ screen' = "listening" /\ toNew' = << >>
  /\ line' = "closed"
  /\ UNCHANGED <<oldVars, toOld, caller, expected, received, other, tally, cutShort>>

(* The connection breaks: each side still gets a prefix of what was sent.  *)
Break ==
  /\ line # "none"
  /\ line' = "closed"
  /\ \E n \in 0..Len(toNew) : toNew' = SubSeq(toNew, 1, n)
  /\ \E n \in 0..Len(toOld) : toOld' = SubSeq(toOld, 1, n)
  /\ UNCHANGED <<oldVars, newVars, tally>>

TransferNext ==
  \/ Receive \/ Call \/ ReadReply \/ SendPiece \/ ReadPieceAck \/ SendEnd \/ ReadDone
  \/ OldGivesUp \/ Erase \/ OldReloads
  \/ TakeCall \/ StrangerCalls \/ Decline \/ Confirm \/ TakePiece \/ TakeEnd \/ NewGivesUp
  \/ MakeIdentity \/ NewReloads \/ Listen \/ Break

TransferSpec == TransferInit /\ [][TransferNext]_transferVars

-----------------------------------------------------------------------------
Whole == \A r \in All : received[r] # Absent

(* The old device erases itself only when the new one holds every record,  *)
(* each at least as it was when that move was started, and nothing that    *)
(* happens later takes them away again.  (What the old device receives     *)
(* while the move runs may be lost with it: a record is read once.)        *)
AccountSurvives ==
  old = "erased" => \A r \in All : received[r] # Absent /\ received[r] >= atCall[r]

(* A restore that did not end leaves nothing behind (the comment of        *)
(* BundleRestorer), unless the device was reloaded in the middle of it or  *)
(* clearing the stores failed.                                             *)
NoHalfAccount ==
  screen # "restoring" /\ ~cutShort => Whole \/ received = Nothing
=============================================================================
