----------------------------- MODULE MCStartup -----------------------------
(* Configurations that differ in the modes, their order, the backends, the *)
(* verification, downloading, the queue and the notifications.             *)
EXTENDS Startup

Configuration(enabled, offline, online, verify, auto, taskQueue, notify) ==
    [enabled |-> enabled, offline |-> offline, online |-> online, verify |-> verify,
     auto |-> auto, queue |-> taskQueue, notify |-> notify]

MCConfigs ==
    {Configuration(<<"offline", "online", "spk">>, "onnx", "pt", TRUE, TRUE, TRUE, "on"),
     Configuration(<<"spk", "offline">>, "pt", "onnx", FALSE, FALSE, TRUE, "off"),
     Configuration(<<"offline", "spk">>, "pt", "onnx", TRUE, FALSE, TRUE, "broken"),
     Configuration(<<"offline">>, "onnx", "pt", FALSE, FALSE, TRUE, "off"),
     Configuration(<<"online">>, "pt", "onnx", TRUE, FALSE, FALSE, "off")}
=============================================================================
