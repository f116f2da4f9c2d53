------------------------------- MODULE Parts -------------------------------
(***************************************************************************)
(* The parts that share no state with each other in the model, side by     *)
(* side: a behaviour is one of the phone's connection owner, of the        *)
(* worker's way to an authorized phone, of the files two processes keep,   *)
(* of the preview, of a session without a window, or one input of an       *)
(* algorithm.  The other parts stand still in it.                          *)
(***************************************************************************)
EXTENDS HostLink, HostFiles, PreviewRecord, SettingsText, QualityPreference, Picture,
        WireCodec, Headless, PhoneConnection

VARIABLES
    part,       \* the part this behaviour is about
    input       \* what the algorithm is applied to

others == <<linkVars, fileVars, previewVars, headlessVars>>
vars == <<others, act, part, input>>

(* Nothing is under way on the link.                                       *)
IdleLink == /\ link = End(NewLink("lan", FALSE, <<>>), "failed")
            /\ phone = [NewPhone("challenged", FALSE, <<>>) EXCEPT !.state = "off"]
            /\ report = NewReport /\ toPc = <<>> /\ toPhone = <<>>
IdleHeadless == HeadlessStarts([quality |-> NoQuality, seconds |-> FALSE])

Inputs ==
    [of : {"value"}, value : BoundedSeq(Characters, 4)]
    \union [of : {"save"}, file : BoundedSeq(SomeLines, 3), fallback : SomeFallbacks,
            settings : SomeSettings]
    \union [of : {"wish"}, wish : SomeWishes, modes : BoundedSeq(SomeModes, 2)]
    \union [of : {"picture"}, size : SomeSizes, angle : Angles]
    \union [of : {"message"}, message : SomeMessages]
    \union [of : {"beyond"}, message : BeyondLimits]
    \union [of : {"header"}, kind : HeaderKinds, length : 0 .. MAX_PAYLOAD + 1]

Init ==
    /\ FilesInit /\ PreviewInit
    /\ part \in {"connection", "link", "files", "preview", "headless", "algorithm"}
    /\ IF part = "connection" THEN ConnectionInit ELSE act = Launched("usb")
    /\ IF part = "link" THEN LinkInit ELSE IdleLink
    /\ IF part = "headless" THEN HeadlessInit ELSE IdleHeadless
    /\ IF part = "algorithm" THEN input \in Inputs ELSE input = [of |-> "nothing"]
Next ==
    /\ UNCHANGED <<part, input>>
    /\ \/ part = "connection" /\ ConnectionNext /\ UNCHANGED others
       \/ part = "link" /\ LinkNext /\ UNCHANGED <<act, fileVars, previewVars, headlessVars>>
       \/ part = "files" /\ FilesNext /\ UNCHANGED <<act, linkVars, previewVars, headlessVars>>
       \/ part = "preview" /\ PreviewNext /\ UNCHANGED <<act, linkVars, fileVars, headlessVars>>
       \/ part = "headless" /\ HeadlessNext /\ UNCHANGED <<act, linkVars, fileVars, previewVars>>

FairSpec == Init /\ [][Next]_vars /\ LinkFairness

-----------------------------------------------------------------------------
(* Properties of the algorithms *)

(* What an algorithm makes of a value can be had back from it or is told   *)
(* apart from it.  Settings: what is saved is what the next load finds,    *)
(* whatever is in the values and whoever else has lines in the file        *)
(* (encode_ini, decode_ini, save, read); a saved wish stands for the same  *)
(* mode however the phone orders its list (Wish::resolve, clamp_wish).     *)
(* Pictures: rotating, fitting, flipping and sampling neither lose a pixel *)
(* nor part a luma from its chroma (transform.rs, pixels.rs, from_sink).   *)
(* Messages: the length check of the header, the encoders and the decoders *)
(* agree, at the limits too: what no encoder writes is refused by one of   *)
(* them (Header::validate_payload_size, encode, decode).                   *)
SettingsSurvive ==
    /\ input.of = "value" => ReadsBack(input.value)
    /\ input.of = "save"  => SavedIsLoaded(input.file, input.fallback, input.settings)
    /\ input.of = "wish"  => WishIsKept(input.wish, input.modes)
PictureSurvives == input.of = "picture" =>
                       PictureIsKept(input.size[1], input.size[2], input.angle)
WireAgrees ==
    /\ input.of = "message" => CodecAgrees(input.message.kind, input.message.m)
    /\ input.of = "beyond"  => BeyondIsRefused(input.message.kind, input.message.m)
    /\ input.of = "header"  => HeaderAgrees(input.kind, input.length)
DataSurvive == SettingsSurvive /\ PictureSurvives /\ WireAgrees
=============================================================================
