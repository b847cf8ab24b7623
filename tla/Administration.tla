---------------------------- MODULE Administration ----------------------------
(***************************************************************************)
(* The administration of a workspace through the studio: its lexicon and   *)
(* glossary (Vocabulary), its brands and fonts (Brands), and the           *)
(* directories of its channels and events (Directories).                   *)
(*                                                                         *)
(* These write different files, and the composition explores one kind of   *)
(* request at a time: `focus` says which (a bound, in place of the product *)
(* of four independent state spaces).                                      *)
(***************************************************************************)
EXTENDS Brands, Directories

CONSTANTS
  Focuses,
  Scenario   \* focus -> the brands, fonts and request bodies of its instance

VARIABLE focus

administrationVars == <<vocabularyVars, brandVars, directoryVars, focus>>

AdministrationInit ==
  /\ focus \in Focuses
  /\ VocabularyInit(IF focus = "lexicon" THEN Files(MarkerPayloads) ELSE {Absent},
                    IF focus = "glossary" THEN Files(GlossaryPayloads) ELSE {Absent})
  /\ BrandInit(Scenario[focus])
  /\ DirectoryInit
  /\ focus # "directories" => channels = {}

AdministrationNext ==
  /\ \/ focus = "lexicon" /\ LexiconRequests /\ UNCHANGED <<brandVars, directoryVars>>
     \/ focus = "glossary" /\ GlossaryRequests /\ UNCHANGED <<brandVars, directoryVars>>
     \/ focus = "directories" /\ DirectoryNext /\ UNCHANGED <<vocabularyVars, brandVars>>
     \/ /\ BrandNext(Scenario[focus])
        /\ UNCHANGED <<vocabularyVars, directoryVars>>
  /\ UNCHANGED focus

Spec == AdministrationInit /\ [][AdministrationNext]_administrationVars

----------------------------------------------------------------------------
\* profile.load of the event goes through.
Loads(s) == BrandLoads(s) /\ LexiconProblems(s) = {} /\ GlossaryProblems(s) = {}

\* The step is the write of a request that could not know better.
Excused(s) ==
  \E t \in Tasks :
    /\ request[t] # Idle /\ request'[t] = Idle
    /\ \/ SavesUnderAnOverride(request[t], s)
       \/ TakesAnInheritedFont(request[t], s)
       \/ WasOvertaken(request[t])

\* What the studio accepts, profile.load accepts: no request turns a workspace
\* whose event loads into one whose event does not, though each editor validates
\* one file and load validates the merge of several (brand_admin.update_brand's
\* "accepted => loadable").  The exceptions are the three the code has: a channel
\* saved under an event's partial override, an event's font the channel's brand
\* names, and two requests that overtake one another.
SavesKeepProfilesLoadable ==
  [][\A s \in EventScopes : Loads(s) /\ ~Excused(s) => Loads(s)']_administrationVars

=============================================================================
