------------------------------ MODULE MCBrowser ------------------------------
(***************************************************************************)
(* The launched browser and a page of it.  They share the process only:    *)
(* its end closes the page's socket.  An instance looks at the launches,   *)
(* or at a page of a browser that runs.                                    *)
(***************************************************************************)
EXTENDS BrowserPage, ChromeBackend

VARIABLE scene

MCInit == Init /\ ChromeInit /\ scene \in {"launch", "page"}
                /\ (scene = "launch" => wrapped)
MCNext == \/ scene = "page" /\ Next /\ UNCHANGED <<chromeVars, scene>>
          \/ scene = "launch" /\ ChromeNext /\ UNCHANGED <<vars, scene>>
MCSpec == /\ MCInit /\ [][MCNext]_<<vars, chromeVars, scene>>
          /\ WF_vars(scene = "page" /\ Client) /\ WF_vars(scene = "page" /\ Execute)
=============================================================================
