CONSTANTS Target = {t1}
          Doc = {d1}
          MaxListens = 2
          MaxEdits = 0
          MaxBreaks = 0
          MaxResets = 0
          MaxRefusals = 0
SPECIFICATION ClientSpec
PROPERTY OnlineStateSettles
CHECK_DEADLOCK FALSE
