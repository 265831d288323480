----------------------------- MODULE HttpClient -----------------------------
(***************************************************************************)
(* net/http.cpp, net/http/request.h, request_builder.h, header.cpp: a      *)
(* CURL handle from curl_easy_init to curl_easy_cleanup, owned by a        *)
(* builder, a request, a Result or a call of Http::Get or PostJson; and    *)
(* the header of the response, which libcurl delivers line by line and     *)
(* Parse turns into a dictionary.                                          *)
(***************************************************************************)
EXTENDS StringReader, Result

CONSTANTS
  Requests,            \* variables of type HttpRequest
  Builder,             \* curl_ of the builder
  Local,               \* curl of Http::Get and Http::PostJson
  Keys, Values,        \* names of fields; texts of their values
  LineEnds,            \* the ways a line may end
  MaxFields            \* bound: fields of one header

ASSUME HttpAssumption ==
  /\ Others = Requests \cup {Builder, Local} /\ Token /= {}
  /\ Builder \notin Requests /\ Local \notin Requests \cup {Builder}
  /\ Keys \cap (Space \cup {"colon"}) = {}
  /\ \A v \in Values : /\ v \in Seq(ToSet(v)) /\ "lf" \notin ToSet(v)
                       /\ v /= << >> => Head(v) \notin Space
  /\ LineEnds \subseteq {<<"lf">>, <<"cr", "lf">>, <<"lf", "cr">>}

VARIABLES
  call,                \* the call in progress: its kind and where it is
  header,              \* response_header
  reader, dictionary,  \* of Parse
  sent                 \* history: the fields of the header, and its line end

httpVars == <<call, header, reader, dictionary, sent>>

NoFields == [k \in {} |-> << >>]
Idle == [at |-> "idle", by |-> None, to |-> None]

HttpInit ==
  /\ ResultInit
  /\ call = Idle
  /\ header = << >> /\ reader = << >>
  /\ dictionary = NoFields
  /\ sent = [fields |-> << >>, eol |-> << >>]

Ready == call.at = "idle"

----------------------------------------------------------------------------
(* the owners of a handle *)

CurlEasyInit(c) ==
  \E h \in Handle :
    /\ cell[c] = Dead /\ used[h] = 0
    /\ cell' = [cell EXCEPT ![c] = h]
    /\ used' = [used EXCEPT ![h] = 1]

(* curl_easy_cleanup, which ignores a null handle *)
CurlEasyCleanup(c) ==
  /\ cell' = [cell EXCEPT ![c] = Dead]
  /\ used' = Released(used, cell[c])

NewBuilder == Ready /\ CurlEasyInit(Builder) /\ UNCHANGED <<error, httpVars>>

(* Build: through a temporary HttpRequest and a temporary Result, both     *)
(* moved from when they are destroyed.  HttpRequest asserts a handle.      *)
Build(q) ==
  /\ Ready /\ cell[q] = Dead /\ cell[Builder] \in Handle
  /\ cell' = MovedCells(cell, Builder, q)
  /\ UNCHANGED <<error, used, httpVars>>

DestroyOwner(c) ==
  /\ Ready /\ cell[c] /= Dead
  /\ CurlEasyCleanup(c)
  /\ UNCHANGED <<error, httpVars>>

MoveRequest(q, from) ==
  /\ Ready /\ cell[q] = Dead /\ cell[from] /= Dead
  /\ cell' = MovedCells(cell, from, q)
  /\ UNCHANGED <<error, used, httpVars>>

(* operator=: swaps *)
MoveAssignRequest(q, from) ==
  /\ Ready /\ cell[q] /= Dead /\ cell[from] /= Dead /\ q /= from
  /\ cell' = [cell EXCEPT ![q] = cell[from], ![from] = cell[q]]
  /\ UNCHANGED <<error, used, httpVars>>

(* any use of Results that hold requests or responses *)
ResultStep ==
  /\ Ready
  /\ \E r \in Results :
       \/ \E q \in Requests : OkResult(r, q) \/ Unwrap(r, q)
       \/ \E s \in Results : \/ MoveResult(r, s) \/ MoveAssignResult(r, s)
                             \/ CopyResult(r, s) \/ CopyAssignResult(r, s)
                             \/ PropagateError(r, s)
       \/ DestroyResult(r)
  /\ UNCHANGED httpVars

----------------------------------------------------------------------------
(* a request *)

StartPerform(by, r, eol) ==
  /\ Ready /\ ~Exists(r)
  /\ call' = [at |-> "perform", by |-> by, to |-> r]
  /\ header' = <<"http", "k">> \o eol
  /\ sent' = [fields |-> << >>, eol |-> eol]
  /\ UNCHANGED <<error, reader, dictionary>>

(* HttpRequest::Run *)
Run(q, r, eol) ==
  /\ cell[q] \in Handle
  /\ StartPerform(q, r, eol)
  /\ UNCHANGED <<cell, used>>

(* libcurl refuses the null handle of a request that was moved from *)
RunMoved(q, r) ==
  /\ Ready /\ cell[q] = None
  /\ FailResult(r, "code")
  /\ UNCHANGED httpVars

(* Http::Get and Http::PostJson, as the function of GetAsync and           *)
(* PostJsonAsync, whose result Invoke stores in r                          *)
Get(r, eol) == CurlEasyInit(Local) /\ StartPerform(Local, r, eol)

WriteFunction(text) == header' = header \o text

Line(f) ==
  (IF f.colon THEN <<f.key, "colon", "space">> ELSE <<f.key>>) \o f.value \o sent.eol

WriteHeader ==
  /\ call.at = "perform" /\ Len(sent.fields) < MaxFields
  /\ \E k \in Keys, v \in Values, colon \in BOOLEAN :
       LET f == [key |-> k, value |-> v, colon |-> colon]
       IN  /\ colon \/ v = << >>
           /\ sent' = [sent EXCEPT !.fields = Append(@, f)]
           /\ WriteFunction(Line(f))
  /\ UNCHANGED <<resultVars, call, reader, dictionary>>

(* curl_easy_perform returns an error *)
Fails(e) ==
  /\ call.at = "perform"
  /\ error' = [error EXCEPT ![call.to] = e]
  /\ call' = Idle
  /\ header' = << >> /\ sent' = [fields |-> << >>, eol |-> << >>]
  /\ UNCHANGED <<reader, dictionary>>

(* Run returns it; the request keeps the handle *)
RunFails == call.by \in Requests /\ Fails("code") /\ UNCHANGED <<cell, used>>

(* Get and PostJson clean up and throw *)
GetFails == call.by = Local /\ Fails("exception") /\ CurlEasyCleanup(Local)

(* curl_easy_perform succeeds after the empty line *)
Parse ==
  /\ call.at = "perform"
  /\ WriteFunction(sent.eol)
  /\ call' = [call EXCEPT !.at = "parse"]
  /\ reader' = SkipLine(SkipUntil(header', "http"))
  /\ dictionary' = NoFields
  /\ UNCHANGED <<error, sent>>

RunParse == call.by \in Requests /\ Parse /\ UNCHANGED <<cell, used>>

(* Get and PostJson clean up, then parse *)
GetParse == call.by = Local /\ Parse /\ CurlEasyCleanup(Local)

----------------------------------------------------------------------------
(* HttpHeader::Parse *)

(* one round of the loop; Skip asserts that a character is left *)
ParseField ==
  LET key == ReadUntil(SkipSpaces(reader), "colon")
      val == ReadToEndLine(SkipSpaces(SkipOne(key.rest)))
  IN
  /\ call.at = "parse" /\ SkipSpaces(reader) /= << >>
  /\ IF key.rest = << >>
     THEN /\ call' = [call EXCEPT !.at = "assert"]
          /\ UNCHANGED <<reader, dictionary>>
     ELSE /\ dictionary' = [k \in DOMAIN dictionary \cup {key.text} |->
                              IF k = key.text THEN val.text ELSE dictionary[k]]
          /\ reader' = val.rest
          /\ UNCHANGED call
  /\ UNCHANGED <<resultVars, header, sent>>

(* Ok(HttpResponse{...}) *)
ParseEnds ==
  /\ call.at = "parse" /\ SkipSpaces(reader) = << >>
  /\ \E m \in Token :
       /\ used[m] = 0
       /\ cell' = [cell EXCEPT ![call.to] = m]
       /\ used' = [used EXCEPT ![m] = 1]
  /\ error' = [error EXCEPT ![call.to] = "none"]
  /\ call' = [call EXCEPT !.at = "parsed"]
  /\ UNCHANGED <<header, reader, dictionary, sent>>

Return ==
  /\ call.at = "parsed"
  /\ call' = Idle
  /\ header' = << >> /\ reader' = << >> /\ dictionary' = NoFields
  /\ sent' = [fields |-> << >>, eol |-> << >>]
  /\ UNCHANGED resultVars

(* assert ends the process *)
Aborted == call.at = "assert" /\ UNCHANGED <<resultVars, httpVars>>

HttpNext ==
  \/ NewBuilder \/ ResultStep
  \/ \E q \in Requests : \/ Build(q)
                        \/ \E p \in Requests : MoveRequest(q, p) \/ MoveAssignRequest(q, p)
  \/ \E c \in Requests \cup {Builder} : DestroyOwner(c)
  \/ \E r \in Results, q \in Requests : RunMoved(q, r)
  \/ \E r \in Results, eol \in LineEnds :
       Get(r, eol) \/ \E q \in Requests : Run(q, r, eol)
  \/ WriteHeader \/ RunFails \/ GetFails \/ RunParse \/ GetParse
  \/ ParseField \/ ParseEnds \/ Return \/ Aborted

HttpSpec == HttpInit /\ [][HttpNext]_<<resultVars, httpVars>>

----------------------------------------------------------------------------
(* The dictionary of a response has the fields of its header, the last one *)
(* of a name that occurs twice, with the value the server sent; a CR that  *)
(* precedes the LF of a line stays in the value.  A field without a value  *)
(* or without a colon runs into the next line, and is left out here.       *)
WellFormed == \A i \in DOMAIN sent.fields : sent.fields[i].colon /\ sent.fields[i].value /= << >>

ParsedAsSent ==
  call.at = "parsed" /\ WellFormed =>
    LET last(k) == CHOOSE i \in DOMAIN sent.fields :
                     /\ sent.fields[i].key = k
                     /\ \A j \in DOMAIN sent.fields : sent.fields[j].key = k => j <= i
        cr == IF Head(sent.eol) = "cr" THEN <<"cr">> ELSE << >>
    IN  /\ DOMAIN dictionary = {<<sent.fields[i].key>> : i \in DOMAIN sent.fields}
        /\ \A k \in Keys : <<k>> \in DOMAIN dictionary =>
                              dictionary[<<k>>] = sent.fields[last(k)].value \o cr
=============================================================================
