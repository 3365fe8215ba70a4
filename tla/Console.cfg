SPECIFICATION Spec
CONSTANTS
    fb_width = 60
    fb_height = 40
    Chars = {"r", "x"}
    Prompt <- Hash
    Outputs <- Texts
    RtLine <- Tick
    Demos <- AllDemos
    BootDemo <- Boot
    KSH_MAX_CMD = 7
    MaxElapsed = 3
INVARIANTS ScreenShowsLine DemosMeetDeadlines
