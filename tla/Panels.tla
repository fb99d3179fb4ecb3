------------------------------- MODULE Panels -------------------------------
(***************************************************************************)
(* The two panels of the page: a person pastes a payment request, which is *)
(* decoded at once, and has it paid (send_panel.rs), or asks for an        *)
(* invoice (receive_panel.rs).  Either way a call to the server is under   *)
(* way while the person goes on, and starting one panel clears the other   *)
(* (app.rs).  An event handler, with the effects it triggers, is one step. *)
(***************************************************************************)
EXTENDS Bolt11, FiniteSets

CONSTANTS
    Texts,          \* what may be put into the box: payment requests
    Amounts,        \* amounts that may be typed; 0 for all that are no good
    MaxCalls        \* calls each panel makes (a bound of the model)

(* Any data is the timestamp and a number of fields, cut short somewhere.  *)
ASSUME TextsAssumption ==
    \A text \in Texts :
        /\ text.hrp \in Hrps
        /\ text.stamp \in [1 .. 7 -> Word]
        /\ text.fields \in Seq(TaggedFields)
        /\ text.cut \in 0 .. 7 + Len(Encode(text.fields))
        /\ text.words = Compose(text.stamp, text.fields, text.cut)

ASSUME MaxCallsAssumption == MaxCalls \in Nat

VARIABLES
    request,        \* the text in the box of the send panel
    preview,        \* decoded_invoice, Invalid for a decode_error, or None
    paying,         \* the payments under way, by number
    sent,           \* how many have been started
    payLoading,     \* the pay button is disabled
    result,         \* the payment whose success is on the panel, or None
    payError,       \* the error on the panel, or None
    draft,          \* the amount typed into the receive panel
    creating,       \* the invoice requests under way, by number
    made,           \* how many have been started
    createLoading,  \* the create button is disabled
    invoice,        \* the call whose invoice is on the panel, or None
    createError,    \* the error on the panel, or None
    copied,         \* the copy button says so
    clipboard       \* the call whose invoice was handed to the clipboard last

sendVars == <<request, preview, paying, sent, payLoading, result, payError>>
receiveVars == <<draft, creating, made, createLoading, invoice, createError, copied, clipboard>>
vars == <<sendVars, receiveVars>>

(* An empty box; blanks are looked at by on_input, not by on_submit.       *)
Empty == [form |-> "empty", words |-> <<>>,
          hrp |-> [ln |-> FALSE, digits |-> "none", number |-> 0, multiplier |-> "btc"]]

IsBlank(text) == text.form \in {"empty", "blank"}

TypeOK ==
    /\ request \in Texts \cup {Empty}
    /\ preview \in Decoded \cup {Invalid, None}
    /\ paying \subseteq 1 .. MaxCalls
    /\ sent \in 0 .. MaxCalls /\ made \in 0 .. MaxCalls
    /\ payLoading \in BOOLEAN /\ createLoading \in BOOLEAN /\ copied \in BOOLEAN
    /\ result \in 1 .. MaxCalls \cup {None}
    /\ payError \in {None, "empty", "failed"}
    /\ draft \in Amounts \cup {0}
    /\ creating \subseteq 1 .. MaxCalls
    /\ invoice \in 1 .. MaxCalls \cup {None} /\ clipboard \in 1 .. MaxCalls \cup {None}
    /\ createError \in {None, "invalid", "failed"}

Init ==
    /\ request = Empty /\ preview = None
    /\ paying = {} /\ sent = 0 /\ payLoading = FALSE
    /\ result = None /\ payError = None
    /\ draft = 0
    /\ creating = {} /\ made = 0 /\ createLoading = FALSE
    /\ invoice = None /\ createError = None
    /\ copied = FALSE /\ clipboard = None

-----------------------------------------------------------------------------
(* Mutants of ClearSend and ClearReceive: the button is enabled again; the *)
(* copy button is left alone.                                              *)
ClearSendAll ==
    /\ request' = Empty /\ preview' = None
    /\ result' = None /\ payError' = None
    /\ payLoading' = FALSE
    /\ UNCHANGED <<paying, sent>>

ClearReceiveButCopied ==
    /\ draft' = 0
    /\ invoice' = None /\ createError' = None
    /\ UNCHANGED <<creating, made, createLoading, copied, clipboard>>

(* reset_panel of either panel, run when the other one is started.  A call *)
(* that is under way stays so, and the button disabled.                    *)
ClearSend ==
    /\ request' = Empty /\ preview' = None
    /\ result' = None /\ payError' = None
    /\ UNCHANGED <<paying, sent, payLoading>>

ClearReceive ==
    /\ draft' = 0
    /\ invoice' = None /\ createError' = None
    /\ copied' = FALSE
    /\ UNCHANGED <<creating, made, createLoading, clipboard>>

-----------------------------------------------------------------------------
(***************************************************************************)
(* The send panel.                                                         *)
(***************************************************************************)

(* Mutant of Input: what was decoded before stays beside a bad text.       *)
InputSticky(text) ==
    /\ request' = text
    /\ preview' = IF IsBlank(text) THEN None
                  ELSE IF Decode(text) = Invalid /\ preview # None
                  THEN preview ELSE Decode(text)
    /\ UNCHANGED <<paying, sent, payLoading, result, payError, receiveVars>>

(* on_input                                                                *)
Input(text) ==
    /\ request' = text
    /\ preview' = IF IsBlank(text) THEN None ELSE Decode(text)
    /\ UNCHANGED <<paying, sent, payLoading, result, payError, receiveVars>>

SubmitEmpty ==
    /\ ~payLoading
    /\ request = Empty
    /\ payError' = "empty"
    /\ UNCHANGED <<request, preview, paying, sent, payLoading, result, receiveVars>>

(* on_submit calls pay_invoice_fn with whatever is in the box.             *)
Pay ==
    /\ ~payLoading
    /\ request # Empty
    /\ sent < MaxCalls
    /\ ClearReceive
    /\ payLoading' = TRUE
    /\ sent' = sent + 1
    /\ paying' = paying \cup {sent'}
    /\ request' = Empty /\ preview' = None
    /\ result' = None /\ payError' = None

(* Mutant of PayFails: the button stays as it is.                          *)
PayFailsLoading(n) ==
    /\ paying' = paying \ {n}
    /\ payError' = "failed"
    /\ UNCHANGED <<request, preview, sent, payLoading, result, receiveVars>>

PaySucceeds(n) ==
    /\ paying' = paying \ {n}
    /\ result' = n
    /\ payError' = None
    /\ payLoading' = FALSE
    /\ UNCHANGED <<request, preview, sent, receiveVars>>

PayFails(n) ==
    /\ paying' = paying \ {n}
    /\ payError' = "failed"
    /\ payLoading' = FALSE
    /\ UNCHANGED <<request, preview, sent, result, receiveVars>>

-----------------------------------------------------------------------------
(***************************************************************************)
(* The receive panel.                                                      *)
(***************************************************************************)
Type(amount) ==
    /\ draft' = amount
    /\ UNCHANGED <<sendVars, creating, made, createLoading, invoice, createError,
                   copied, clipboard>>

CreateInvalid ==
    /\ ~createLoading
    /\ draft = 0
    /\ createError' = "invalid"
    /\ UNCHANGED <<sendVars, draft, creating, made, createLoading, invoice, copied, clipboard>>

(* on_submit calls create_invoice_fn; what was typed stays for now.  The   *)
(* description goes along unseen.                                          *)
Create ==
    /\ ~createLoading
    /\ draft > 0
    /\ made < MaxCalls
    /\ ClearSend
    /\ createLoading' = TRUE
    /\ made' = made + 1
    /\ creating' = creating \cup {made'}
    /\ invoice' = None /\ createError' = None
    /\ copied' = FALSE
    /\ UNCHANGED <<draft, clipboard>>

(* What has been typed by now is cleared, whatever the call asked for.     *)
CreateSucceeds(n) ==
    /\ creating' = creating \ {n}
    /\ invoice' = n
    /\ createError' = None
    /\ draft' = 0
    /\ createLoading' = FALSE
    /\ UNCHANGED <<sendVars, made, copied, clipboard>>

CreateFails(n) ==
    /\ creating' = creating \ {n}
    /\ createError' = "failed"
    /\ createLoading' = FALSE
    /\ UNCHANGED <<sendVars, draft, made, invoice, copied, clipboard>>

(* The promise of write_text is dropped: whether the browser allowed it is *)
(* not looked at.                                                          *)
CopyInvoice ==
    /\ invoice # None
    /\ clipboard' = invoice
    /\ copied' = TRUE
    /\ UNCHANGED <<sendVars, draft, creating, made, createLoading, invoice, createError>>

PayAnswer == \E n \in paying : PaySucceeds(n) \/ PayFails(n)

CreateAnswer == \E n \in creating : CreateSucceeds(n) \/ CreateFails(n)

Next ==
    \/ \E text \in Texts \cup {Empty} : Input(text)
    \/ SubmitEmpty \/ Pay \/ PayAnswer
    \/ \E amount \in Amounts : Type(amount)
    \/ CreateInvalid \/ Create \/ CreateAnswer \/ CopyInvoice

Spec == Init /\ [][Next]_vars

(* The browser settles every fetch, with an answer or with an error.       *)
FairSpec == Spec /\ WF_vars(PayAnswer) /\ WF_vars(CreateAnswer)

-----------------------------------------------------------------------------
(***************************************************************************)
(* Properties.                                                             *)
(***************************************************************************)

(* What is on the panel under the box is what BOLT#11 says of the text in  *)
(* it, amount, message and expiry, as the page words them; a text is       *)
(* called invalid only if it is, or its amount too long for a u64; nothing *)
(* is left of a text that is gone.                                         *)
PreviewExact ==
    /\ preview = None <=> IsBlank(request)
    /\ preview # None => Exact(request, preview)

(* An answer may come when its panel has been cleared and used for         *)
(* something else, but it is the answer to the last call of that panel:    *)
(* no answer replaces that of a later call, since clearing does not enable *)
(* the button, which says "Paying..." exactly while a call is under way.   *)
AnswersTheLast ==
    /\ payLoading <=> paying # {}
    /\ createLoading <=> creating # {}
    /\ paying \subseteq {sent} /\ creating \subseteq {made}
    /\ result # None => result = sent /\ paying = {}
    /\ invoice # None => invoice = made /\ creating = {}

(* "Copied!" is said of the invoice that is on the panel, and of no other  *)
(* that a late answer or a cleared panel has put there or taken away.      *)
CopiedIsShown == copied => invoice # None /\ clipboard = invoice

(* A button that is disabled is enabled again, whatever becomes of the     *)
(* call and whatever the other panel does meanwhile.                       *)
LoadingEnds ==
    /\ payLoading ~> ~payLoading
    /\ createLoading ~> ~createLoading
=============================================================================
