----------------------------- MODULE MCRuntime -----------------------------
(***************************************************************************)
(* Small instances of the runtime's sessions, queues, leases and           *)
(* reservations, of captures and the evidence made of their pixels, and of *)
(* what is done to pages (network faults, content stress, the responsive   *)
(* search), in one run.  The components do not share a variable: a         *)
(* behaviour exercises one of them, the one in focus.                      *)
(***************************************************************************)
EXTENDS NativeExecutor, PublicActions, SurfaceResources, Governor, Capture, VisualEvidence,
        MCSessions, NetworkFault, ContentStress, Responsive

VARIABLE focus   \* the component that runs in this behaviour

SmallBudget == [captures |-> 2, browsers |-> 1, hidden |-> 2]

\* Every change of at most two corners of the tiles, and some shapes: the
\* border of the frame, a diagonal across tiles, a band.
Corners == {c \in Pixels : c[1] % 2 = 0 /\ c[2] % 2 = 0}

Changes ==
  {S \in SUBSET Corners : Cardinality(S) <= 2}
    \cup {{<<0, 0>>, <<2, 0>>, <<4, 0>>, <<0, 2>>, <<0, 4>>, <<4, 4>>}, {<<1, 1>>, <<2, 2>>},
          {<<0, 0>>, <<0, 4>>, <<4, 0>>}, {c \in Pixels : c[1] < 3}}

\* Paths from the root to an element: with and without a section, with an owner or
\* a component that its holder shares or not, inside, across and outside the frame.
Element(r, owner, component, section) ==
  [rect |-> r, owner |-> owner, component |-> component, section |-> section]

Leaves ==
  LET Holders == {<<"o1", "none">>, <<"none", "c1">>}
      Boxes == {Rect(100, 100, 200, 100), Rect(-50, 50, 400, 300), Rect(350, 300, 300, 100)}
  IN  {<<Element(r, h[1], h[2], s), Element(Rect(120, 120, 100, 50), "o1", "none", FALSE)>> :
         r \in Boxes, h \in Holders, s \in BOOLEAN}
        \cup {<<Element(r, "none", "c1", s), Element(Rect(120, 120, 100, 50), "none", "c1", FALSE)>> :
                r \in Boxes, s \in BOOLEAN}

Paths ==
  Leaves \cup {<<Element(WholeViewport, "o1", "c1", TRUE)>> \o p : p \in {q \in Leaves : q[1].section}}

\* How the page breaks: from a width on, around the bisection's first midpoints
\* and at the ends of its range.
Style(shape, at, wide) == [shape |-> shape, at |-> at, wide |-> wide]

Styles ==
  {Style("overflow", 330, FALSE), Style("overflow", 700, FALSE), Style("overflow", 1200, TRUE),
   Style("collision", 1100, FALSE), Style("collision", 1439, FALSE),
   Style("removed", 580, FALSE), Style("truncated", 400, FALSE), Style("sound", 320, FALSE)}

\* A fingerprint that tells the two states apart or not, and the trees of one
\* state or not, and one that covers some of the trees in part only.
Hash(states, trees, whole) ==
  [print |-> [t \in Trees |-> (IF states THEN t[1] ELSE 0) + (IF trees /\ t[2] THEN 3 ELSE 0)],
   whole |-> whole]
Hashes ==
  {Hash(FALSE, FALSE, Trees), Hash(FALSE, TRUE, Trees), Hash(TRUE, TRUE, Trees),
   Hash(FALSE, TRUE, {<<1, FALSE>>, <<1, TRUE>>})}

MCInit ==
  /\ focus \in {"native", "public", "surfaces", "governor", "capture", "visual",
                "sessions", "fault", "stress", "responsive"}
  /\ NativeInit
  /\ PublicInit
  /\ SurfaceInit
  /\ GovInit
  /\ CaptureInit
  /\ VisualInit
  /\ SessionsInit
  /\ FaultInit
  /\ StressInit
  /\ ResponsiveInit

MCvars == <<focus, nativeVars, publicVars, surfaceVars, govVars, capVars, visVars,
            sesVars, faultVars, stressVars, respVars>>

MCNext ==
  \/ /\ focus = "native" /\ NativeNext
     /\ UNCHANGED <<focus, publicVars, surfaceVars, govVars, capVars, visVars,
                    sesVars, faultVars, stressVars, respVars>>
  \/ /\ focus = "public" /\ PublicNext
     /\ UNCHANGED <<focus, nativeVars, surfaceVars, govVars, capVars, visVars,
                    sesVars, faultVars, stressVars, respVars>>
  \/ /\ focus = "surfaces" /\ SurfaceNext
     /\ UNCHANGED <<focus, nativeVars, publicVars, govVars, capVars, visVars,
                    sesVars, faultVars, stressVars, respVars>>
  \/ /\ focus = "governor" /\ GovNext
     /\ UNCHANGED <<focus, nativeVars, publicVars, surfaceVars, capVars, visVars,
                    sesVars, faultVars, stressVars, respVars>>
  \/ /\ focus = "capture" /\ CaptureNext
     /\ UNCHANGED <<focus, nativeVars, publicVars, surfaceVars, govVars, visVars,
                    sesVars, faultVars, stressVars, respVars>>
  \/ /\ focus = "visual" /\ VisualNext
     /\ UNCHANGED <<focus, nativeVars, publicVars, surfaceVars, govVars, capVars,
                    sesVars, faultVars, stressVars, respVars>>
  \/ /\ focus = "sessions" /\ SessionsNext
     /\ UNCHANGED <<focus, nativeVars, publicVars, surfaceVars, govVars, capVars, visVars,
                    faultVars, stressVars, respVars>>
  \/ /\ focus = "fault" /\ FaultNext
     /\ UNCHANGED <<focus, nativeVars, publicVars, surfaceVars, govVars, capVars, visVars,
                    sesVars, stressVars, respVars>>
  \/ /\ focus = "stress" /\ StressNext
     /\ UNCHANGED <<focus, nativeVars, publicVars, surfaceVars, govVars, capVars, visVars,
                    sesVars, faultVars, respVars>>
  \/ /\ focus = "responsive" /\ ResponsiveNext
     /\ UNCHANGED <<focus, nativeVars, publicVars, surfaceVars, govVars, capVars, visVars,
                    sesVars, faultVars, stressVars>>

MCSpec == MCInit /\ [][MCNext]_MCvars

\* The type invariant of the component in focus; the others keep their initial
\* state.
RuntimeTypesOK ==
  /\ focus = "native" => NativeTypeOK /\ NativeRecordsAgree
  /\ focus = "public" => PublicTypeOK /\ PublicRecordsAgree
  /\ focus = "surfaces" => SurfaceTypeOK
  /\ focus = "governor" => GovTypeOK
  /\ focus = "capture" => CaptureTypeOK
  /\ focus = "visual" => VisualTypeOK
  /\ focus = "sessions" => SessionsTypeOK
  /\ focus = "fault" => FaultTypeOK
  /\ focus = "stress" => StressTypeOK
  /\ focus = "responsive" => ResponsiveTypeOK
=============================================================================
