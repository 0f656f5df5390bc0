------------------------------- MODULE Outgoing -------------------------------
(***************************************************************************)
(* One outgoing mail, a password reset or an invitation: dial the relay,   *)
(* upgrade, authenticate, hand the message over, quit. The relay offers    *)
(* what it likes, refuses what it likes, and may go silent at any step,    *)
(* for the request that sends the mail waits for all of it.                *)
(***************************************************************************)
EXTENDS Naturals

CONSTANTS
  DialTimeout,  \* how long a connect may take
  SendTimeout,  \* how long everything after it may take
  MaxWait       \* bound: how long the model waits for a relay

ASSUME TimeoutAssumption ==
  /\ {DialTimeout, SendTimeout} \subseteq Nat \ {0}
  /\ MaxWait \in Nat
  /\ MaxWait > DialTimeout + SendTimeout

VARIABLES
  smtpURL,  \* what SMTP_URL says, the same for the life of the process
  sending   \* the mail on its way, and the relay that takes it

outVars == <<smtpURL, sending>>

\* "loopback" is any name of this machine but "localhost" as net/smtp knows
\* it: 127.0.0.2, say.
SMTPURL ==
  [implicitTLS: BOOLEAN, startTLSDisabled: BOOLEAN,
   host: {"localhost", "loopback", "remote"}, credentials: BOOLEAN]

Secrets == {"credentials", "message"}

\* waited is the time since Send was called, deadline the time at which the
\* socket's reads and writes start to fail, 0 before it is set. clear is what
\* has gone over the wire unencrypted; accepted, whether the relay has taken
\* the message.
NotSending ==
  [pc |-> "idle", waited |-> 0, deadline |-> 0, tls |-> FALSE,
   offers |-> {}, clear |-> {}, accepted |-> FALSE]

Talking ==
  {"handshake", "greeting", "upgrade", "authenticate", "envelope", "body",
   "finish", "quit"}

SendState ==
  [pc: {"idle", "dial", "sent", "failed"} \cup Talking, waited: 0..MaxWait,
   deadline: 0..(MaxWait + SendTimeout), tls: BOOLEAN,
   offers: SUBSET {"STARTTLS", "AUTH"}, clear: SUBSET Secrets,
   accepted: BOOLEAN]

OutInit == smtpURL \in SMTPURL /\ sending = NotSending

-----------------------------------------------------------------------------
(* NewSMTPSender's policy.                                                 *)

\* Bug: STARTTLS is used where it is offered and done without elsewhere.
Opportunistic == FALSE

RequireSTARTTLS ==
  /\ ~smtpURL.implicitTLS
  /\ ~smtpURL.startTLSDisabled
  /\ smtpURL.host = "remote"

\* net/smtp's PlainAuth: not over an unencrypted connection, but to localhost.
PlainAuthWilling == sending.tls \/ smtpURL.host = "localhost"

-----------------------------------------------------------------------------

Becomes(state) == sending' = state /\ UNCHANGED smtpURL
GoOn(pc) == Becomes([sending EXCEPT !.pc = pc])

\* What is written is readable on the way unless the connection is encrypted.
Expose(what) == sending.clear \cup (IF sending.tls THEN {} ELSE {what})

\* The recipient and the sender are free of line breaks, the body composes.
Send ==
  /\ sending.pc \in {"idle", "sent", "failed"}
  /\ Becomes([NotSending EXCEPT !.pc = "dial"])

\* Bug: the deadline is set on the connection that came out of the handshake.
ConnectLate ==
  /\ sending.pc = "dial"
  /\ Becomes([sending EXCEPT
       !.pc = IF smtpURL.implicitTLS THEN "handshake" ELSE "greeting",
       !.deadline = IF smtpURL.implicitTLS THEN 0
                    ELSE sending.waited + SendTimeout])

\* dial: connected, and the deadline is set before anything is said.
Connect ==
  /\ sending.pc = "dial"
  /\ Becomes([sending EXCEPT
       !.pc = IF smtpURL.implicitTLS THEN "handshake" ELSE "greeting",
       !.deadline = sending.waited + SendTimeout])

Handshake ==
  /\ sending.pc = "handshake"
  /\ Becomes([sending EXCEPT !.pc = "greeting", !.tls = TRUE])

\* NewClient, and the EHLO that the first question about extensions sends.
Greet ==
  /\ sending.pc = "greeting"
  /\ \E offers \in SUBSET {"STARTTLS", "AUTH"} :
       Becomes([sending EXCEPT !.pc = "upgrade", !.offers = offers])

\* upgrade: after STARTTLS the relay says anew what it offers.
Upgrade ==
  /\ sending.pc = "upgrade"
  /\ IF smtpURL.implicitTLS \/ smtpURL.startTLSDisabled
     THEN GoOn("authenticate")
     ELSE IF "STARTTLS" \notin sending.offers
     THEN GoOn(IF RequireSTARTTLS THEN "failed" ELSE "authenticate")
     ELSE \E offers \in SUBSET {"AUTH"} :
            Becomes([sending EXCEPT !.pc = "authenticate", !.tls = TRUE,
                                    !.offers = offers])

Authenticate ==
  /\ sending.pc = "authenticate"
  /\ IF ~smtpURL.credentials THEN GoOn("envelope")
     ELSE IF "AUTH" \notin sending.offers \/ ~PlainAuthWilling
     THEN GoOn("failed")
     ELSE Becomes([sending EXCEPT !.pc = "envelope",
                                  !.clear = Expose("credentials")])

\* MAIL, RCPT and DATA are accepted.
Envelope == sending.pc = "envelope" /\ GoOn("body")

WriteBody ==
  /\ sending.pc = "body"
  /\ Becomes([sending EXCEPT !.pc = "finish", !.clear = Expose("message")])

\* The relay takes the message, and says so in an answer that may get lost.
Accept ==
  /\ sending.pc = "finish"
  /\ ~sending.accepted
  /\ Becomes([sending EXCEPT !.accepted = TRUE])

FinishBody == sending.pc = "finish" /\ sending.accepted /\ GoOn("quit")

Quit == sending.pc = "quit" /\ GoOn("sent")

\* The relay refuses, or the connection breaks, or the caller of the dial goes
\* away: the error is returned as it is.
FailSend ==
  /\ sending.pc \in {"dial"} \cup Talking
  /\ GoOn("failed")

\* Nothing has come back, and it is time: only an error can follow.
OutOfTime ==
  \/ sending.pc = "dial" /\ sending.waited >= DialTimeout
  \/ sending.pc \in Talking /\ sending.deadline # 0
       /\ sending.waited >= sending.deadline

Wait ==
  /\ sending.pc \in {"dial"} \cup Talking
  /\ ~OutOfTime
  /\ sending.waited < MaxWait
  /\ Becomes([sending EXCEPT !.waited = @ + 1])

Converse ==
  \/ Connect \/ Handshake \/ Greet \/ Upgrade \/ Authenticate \/ Envelope
  \/ WriteBody \/ Accept \/ FinishBody \/ Quit

OutNext == Send \/ Converse \/ FailSend \/ Wait

OutSpec == OutInit /\ [][OutNext]_outVars

-----------------------------------------------------------------------------
(* What sending promises.                                                  *)

OutTypeOK == smtpURL \in SMTPURL /\ sending \in SendState

\* "a relay that offers no upgrade is refused rather than spoken to in the
\* clear": whatever the relay offers before and after the upgrade, the link in
\* the mail is readable on the way only if it never leaves the machine or the
\* operator has spelled starttls=off, and the credentials not even then.
NothingInClear ==
  /\ "message" \in sending.clear =>
       smtpURL.host # "remote" \/ smtpURL.startTLSDisabled
  /\ "credentials" \in sending.clear => smtpURL.host = "localhost"

\* The request that sends a mail has its answer in the time of a connect and a
\* conversation, however silent the relay, and "sent" is the truth. ("failed"
\* need not be: the relay may have taken the message before its answer, or the
\* one to QUIT, got lost.)
AnswersInTime ==
  /\ sending.waited <= DialTimeout + SendTimeout
  /\ sending.pc = "sent" => sending.accepted

=============================================================================
