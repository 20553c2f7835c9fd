---------------------------- MODULE Collections ----------------------------
(* The flows around mail and shops: the e-mail collector, the run that sends *)
(* a message, the sellers of a search, and the figures of the profit check.  *)
(* A behaviour is a call of one of them; they share no state.                *)
EXTENDS LeadCollect

CONSTANTS
  Markets, ShopOf, Limits, PageSize, MinPages, Spread, ExtraPages, MaxScrolls, MaxFails,
  Requests, TopN, HitUnits, HitMargin, ReturnRate, ReturnCount,
  People, MaxRetries

VARIABLES
  flow,   \* which of them is called
  shop, health, mail

Shops == INSTANCE ShopSearch
Figures == INSTANCE ProfitFigures
Mail == INSTANCE MailSend

ASSUME ShopAssumption == Shops!ShopAssumption
ASSUME HealthAssumption == Figures!HealthAssumption
ASSUME MailAssumption == Mail!MailAssumption

collectVars == <<vars, flow, shop, health, mail>>

\* What is not called stays as it is.
CollectInit ==
  /\ Init
  /\ flow \in {"leads", "shops", "health", "mail"}
  /\ flow # "leads" => payload = CHOOSE p \in Payloads : TRUE
  /\ mail \in Mail!Mails /\ (flow # "mail" => mail = CHOOSE m \in Mail!Mails : TRUE)
  /\ IF flow = "shops" THEN shop \in Shops!Searches ELSE shop = CHOOSE s \in Shops!Searches : TRUE
  /\ IF flow = "health" THEN health \in Figures!Checks ELSE health = CHOOSE h \in Figures!Checks : TRUE

LeadStep == flow = "leads" /\ Next /\ UNCHANGED <<flow, shop, health, mail>>
ShopStep == flow = "shops" /\ Shops!ShopNext /\ UNCHANGED <<vars, flow, health, mail>>
HealthStep == flow = "health" /\ Figures!HealthNext /\ UNCHANGED <<vars, flow, shop, mail>>
MailStep == flow = "mail" /\ Mail!MailNext /\ UNCHANGED <<vars, flow, shop, health>>

CollectNext == LeadStep \/ ShopStep \/ HealthStep \/ MailStep

CollectSpec == CollectInit /\ [][CollectNext]_collectVars

-----------------------------------------------------------------------------
(* Properties.                                                               *)

\* What a directory, a site or a registry shows is read as its own, the sellers of a
\* search are the first of their shops, the figures of an article come from its own
\* rows of the tables that were uploaded, and a message is sent no more often than
\* answers were lost.
CollectedIsRight ==
  ReadingsAreRight /\ Shops!ShopsAreRight /\ Figures!HealthIsRight /\ Mail!MailIsCounted
=============================================================================
